-------------------------- MODULE LifeCycleProofs --------------------------
EXTENDS LifeCycle, QueueTheorems

(***************************************************************************)
(* Types, for every tree and whatever the classes and the users are.       *)
(***************************************************************************)

\* An actor with children has counted fewer than all of them, and only such
\* an actor counts.
Counters ==
    \A a \in Actors :
        /\ childrenCnfCount[a] # 0 => childrenCnfCount[a] < Cardinality(Children[a])
        /\ left[a] # 0 /\ message[a].kind = "PrivStartCnf" => Children[a] # {}
        /\ left[a] # 0 /\ message[a].kind = "PrivStopCnf" =>
              Children[a] # {} \/ message[a].class = ClassOf[Root]

LEMMA ChildrenFinite ==
    ASSUME NEW a \in Actors
    PROVE  /\ IsFiniteSet(Children[a])
           /\ Cardinality(Children[a]) \in Nat
           /\ Children[a] # {} => Cardinality(Children[a]) > 0
<1>1. Children[a] \subseteq Actors /\ IsFiniteSet(Actors)
    BY LifeCycleAssumption
<1>2. IsFiniteSet(Children[a])
    BY <1>1, FS_Subset
<1> QED
    BY <1>2, FS_CardinalityType, FS_EmptySet

LEMMA ListenersType ==
    ASSUME NEW a \in Actors, NEW m \in Messages
    PROVE  /\ Listeners(a, m) \in Nat
           /\ m.kind = "PrivStartCnf" /\ Children[a] = {} => Listeners(a, m) = 0
           /\ m.kind = "PrivStopCnf" /\ Children[a] = {} /\ Listeners(a, m) # 0 =>
                  m.class = ClassOf[Root]
<1>1. /\ Cardinality({c \in Children[a] : ClassOf[c] = m.class}) \in Nat
      /\ Children[a] = {} => Cardinality({c \in Children[a] : ClassOf[c] = m.class}) = 0
  <2>1. {c \in Children[a] : ClassOf[c] = m.class} \subseteq Children[a]
      OBVIOUS
  <2>2. IsFiniteSet({c \in Children[a] : ClassOf[c] = m.class})
      BY <2>1, ChildrenFinite, FS_Subset
  <2>3. Children[a] = {} => {c \in Children[a] : ClassOf[c] = m.class} = {}
      OBVIOUS
  <2> QED
      BY <2>2, <2>3, FS_CardinalityType, FS_EmptySet
<1>2. m.kind \in Kinds
    BY DEF Messages
<1>3. m.kind = "PrivStartCnf" => Listeners(a, m) = Cardinality({c \in Children[a] : ClassOf[c] = m.class})
    BY DEF Listeners
<1>4. m.kind = "PrivStopCnf" =>
         \/ Listeners(a, m) = Cardinality({c \in Children[a] : ClassOf[c] = m.class})
         \/ Listeners(a, m) = 1 /\ m.class = ClassOf[Root]
    BY DEF Listeners
<1>5. m.kind \notin {"PrivStartCnf", "PrivStopCnf"} => Listeners(a, m) \in {0, 1}
    BY <1>2 DEF Listeners, Kinds
<1> QED
    BY <1>1, <1>3, <1>4, <1>5

LEMMA PublishType ==
    ASSUME TypeOK, NEW m \in Messages, Publish(m)
    PROVE  inbox' \in [Actors -> Seq(Messages)]
<1>1. \A a \in Actors : Append(inbox[a], m) \in Seq(Messages)
    BY DEF TypeOK
<1> QED
    BY <1>1 DEF Publish, TypeOK

LEMMA ClassesOfMessages ==
    ASSUME NEW kind \in Kinds, NEW a \in Actors
    PROVE  Message(kind, ClassOf[a]) \in Messages
BY LifeCycleAssumption DEF Messages, Message

LEMMA StopIsMessage == StopMessage \in Messages
BY DEF StopMessage, Messages, Message, Kinds

\* What a callback has to publish.
LEMMA ForwardType ==
    ASSUME TypeOK, NEW a \in Actors, NEW kind \in Kinds, Forward(a, kind)
    PROVE  outbox' \in [Actors -> Seq(Messages)]
<1>1. PICK order \in SetToSeqs(Children[a]) :
          outbox' = [outbox EXCEPT ![a] =
              [i \in DOMAIN order |-> Message(kind, ClassOf[order[i]])]]
    BY DEF Forward
<1> DEFINE n == Cardinality(Children[a])
<1>2. order \in [1 .. n -> Children[a]] /\ n \in Nat
    BY ChildrenFinite DEF SetToSeqs
<1>3. \A i \in 1 .. n : Message(kind, ClassOf[order[i]]) \in Messages
    BY <1>2, ClassesOfMessages, LifeCycleAssumption
<1>4. [i \in DOMAIN order |-> Message(kind, ClassOf[order[i]])] \in [1 .. n -> Messages]
    BY <1>2, <1>3
<1>5. [i \in DOMAIN order |-> Message(kind, ClassOf[order[i]])] \in Seq(Messages)
    BY <1>2, <1>4, IsASeq
<1> QED
    BY <1>1, <1>5 DEF TypeOK

LEMMA ConfirmType ==
    ASSUME NEW a \in Actors
    PROVE  /\ StartCnfs(a) \in Seq(Messages)
           /\ StopCnfs(a) \in Seq(Messages)
           /\ <<StopMessage>> \o StartCnfs(a) \in Seq(Messages)
<1>1. \A kind \in Kinds : Message(kind, ClassOf[a]) \in Messages
    BY ClassesOfMessages
<1>2. StartCnfs(a) \in Seq(Messages) /\ StopCnfs(a) \in Seq(Messages)
    BY <1>1 DEF StartCnfs, StopCnfs, Kinds
<1>3. <<StopMessage>> \in Seq(Messages)
    BY StopIsMessage
<1> QED
    BY <1>2, <1>3, ConcatProperties

LEMMA StartedType ==
    ASSUME TypeOK, NEW a \in Actors, Started(a)
    PROVE  /\ outbox' \in [Actors -> Seq(Messages)]
           /\ state' \in [Actors -> {"CTOR_FINISHED", "STARTED", "STOPPED"}]
           /\ error' \in BOOLEAN
<1>1. outbox' \in [Actors -> Seq(Messages)]
    BY ConfirmType DEF Started, TypeOK
<1>2. error' \in BOOLEAN
    BY DEF Started, TypeOK
<1> QED
    BY <1>1, <1>2 DEF Started, TypeOK

LEMMA StoppedType ==
    ASSUME TypeOK, NEW a \in Actors, Stopped(a)
    PROVE  /\ outbox' \in [Actors -> Seq(Messages)]
           /\ state' \in [Actors -> {"CTOR_FINISHED", "STARTED", "STOPPED"}]
           /\ error' \in BOOLEAN
BY ConfirmType DEF Stopped, TypeOK

\* A callback changes the number of callbacks left and, if it counts a
\* confirmation, the counter.
LEMMA CallbackTyped ==
    ASSUME TypeOK, Counters, NEW a \in Actors, left[a] > 0,
           left' = [left EXCEPT ![a] = @ - 1],
           outbox' \in [Actors -> Seq(Messages)],
           state' \in [Actors -> {"CTOR_FINISHED", "STARTED", "STOPPED"}],
           error' \in BOOLEAN,
           running' \in BOOLEAN,
           heard' \in [Late -> Nat],
           \/ UNCHANGED childrenCnfCount
           \/ Count(a) /\ Children[a] # {},
           UNCHANGED <<stopOn, listening, listens, inbox, message, mpc>>
    PROVE  TypeOK' /\ Counters'
<1> USE DEF TypeOK
<1>1. /\ left' \in [Actors -> Nat]
      /\ \A b \in Actors : left'[b] # 0 => left[b] # 0
    OBVIOUS
<1>2. /\ childrenCnfCount' \in [Actors -> Nat]
      /\ \A b \in Actors : childrenCnfCount'[b] # 0 => childrenCnfCount'[b] < Cardinality(Children[b])
  <2>1. CASE UNCHANGED childrenCnfCount
      BY <2>1 DEF Counters
  <2>2. CASE Count(a) /\ Children[a] # {}
    <3>1. Cardinality(Children[a]) \in Nat /\ Cardinality(Children[a]) > 0
        BY <2>2, ChildrenFinite
    <3>2. childrenCnfCount[a] \in Nat /\ (childrenCnfCount[a] # 0 => childrenCnfCount[a] < Cardinality(Children[a]))
        BY DEF Counters
    <3>3. childrenCnfCount' \in [Actors -> Nat]
        BY <2>2 DEF Count
    <3>4. \A b \in Actors \ {a} : childrenCnfCount'[b] = childrenCnfCount[b]
        BY <2>2 DEF Count
    <3>5. childrenCnfCount'[a] = IF AllConfirmed(a) THEN 0 ELSE childrenCnfCount[a] + 1
        BY <2>2 DEF Count
    <3>6. childrenCnfCount'[a] # 0 => childrenCnfCount'[a] < Cardinality(Children[a])
        BY <3>1, <3>2, <3>5 DEF AllConfirmed
    <3> QED
        BY <3>3, <3>4, <3>6 DEF Counters
  <2> QED
      BY <2>1, <2>2
<1>3. \A b \in Actors : childrenCnfCount'[b] <= Cardinality(Children[b])
  <2> SUFFICES ASSUME NEW b \in Actors
               PROVE  childrenCnfCount'[b] <= Cardinality(Children[b])
      OBVIOUS
  <2> HIDE DEF TypeOK
  <2>1. Cardinality(Children[b]) \in Nat
      BY ChildrenFinite
  <2>2. childrenCnfCount'[b] \in Nat
      BY <1>2
  <2>3. childrenCnfCount'[b] # 0 => childrenCnfCount'[b] < Cardinality(Children[b])
      BY <1>2
  <2> QED
      BY <2>1, <2>2, <2>3
<1>4. Counters'
    BY <1>1, <1>2 DEF Counters
<1> QED
    BY <1>1, <1>2, <1>3, <1>4

LEMMA CallTyped ==
    ASSUME TypeOK, Counters, NEW a \in Actors,
           \/ HandleStartReq(a) \/ HandleStopReq(a)
           \/ HandlePrivStartCnf(a) \/ HandlePrivStopCnf(a)
           \/ HandleStartCnf(a) \/ HearLate(a)
    PROVE  TypeOK' /\ Counters'
<1>0. left[a] > 0 /\ left[a] # 0 /\ left' = [left EXCEPT ![a] = @ - 1]
    BY DEF TypeOK, HandleStartReq, HandleStopReq, HandlePrivStartCnf, HandlePrivStopCnf, HandleStartCnf,
           HearLate, Calls
<1>1. CASE HandleStartReq(a)
  <2>1. /\ outbox' \in [Actors -> Seq(Messages)]
        /\ state' \in [Actors -> {"CTOR_FINISHED", "STARTED", "STOPPED"}]
        /\ error' \in BOOLEAN
    <3>1. CASE Started(a)
        BY <3>1, StartedType
    <3>2. CASE Forward(a, "StartReq") /\ UNCHANGED <<state, error>>
        BY <3>2, ForwardType DEF TypeOK, Kinds
    <3> QED
        BY <1>1, <3>1, <3>2 DEF HandleStartReq
  <2> QED
      BY <1>0, <1>1, <2>1, CallbackTyped DEF HandleStartReq, ports, core, TypeOK
<1>2. CASE HandleStopReq(a)
  <2>1. /\ outbox' \in [Actors -> Seq(Messages)]
        /\ state' \in [Actors -> {"CTOR_FINISHED", "STARTED", "STOPPED"}]
        /\ error' \in BOOLEAN
    <3>1. CASE Stopped(a)
        BY <3>1, StoppedType
    <3>2. CASE Forward(a, "StopReq") /\ UNCHANGED <<state, error>>
        BY <3>2, ForwardType DEF TypeOK, Kinds
    <3> QED
        BY <1>2, <3>1, <3>2 DEF HandleStopReq
  <2> QED
      BY <1>0, <1>2, <2>1, CallbackTyped DEF HandleStopReq, ports, core, TypeOK
<1>3. CASE HandlePrivStartCnf(a)
  <2>1. /\ outbox' \in [Actors -> Seq(Messages)]
        /\ state' \in [Actors -> {"CTOR_FINISHED", "STARTED", "STOPPED"}]
        /\ error' \in BOOLEAN
      BY <1>3, StartedType DEF HandlePrivStartCnf, Counting, TypeOK
  <2>2. Children[a] # {}
      BY <1>0, <1>3 DEF HandlePrivStartCnf, Calls, Counters
  <2> QED
      BY <1>0, <1>3, <2>1, <2>2, CallbackTyped DEF HandlePrivStartCnf, ports, core, TypeOK
<1>4. CASE HandlePrivStopCnf(a)
  <2>1. /\ outbox' \in [Actors -> Seq(Messages)]
        /\ state' \in [Actors -> {"CTOR_FINISHED", "STARTED", "STOPPED"}]
        /\ error' \in BOOLEAN
      BY <1>4, StoppedType DEF HandlePrivStopCnf, Counting, TypeOK
  <2>2. Children[a] # {}
      BY <1>0, <1>4 DEF HandlePrivStopCnf, Calls, Counters
  <2> QED
      BY <1>0, <1>4, <2>1, <2>2, CallbackTyped DEF HandlePrivStopCnf, ports, core, TypeOK
<1>5. CASE HandleStartCnf(a)
  <2>1. outbox' \in [Actors -> Seq(Messages)] /\ error' \in BOOLEAN
      BY <1>5, StopIsMessage DEF HandleStartCnf, TypeOK
  <2> QED
      BY <1>0, <1>5, <2>1, CallbackTyped DEF HandleStartCnf, ports, core, TypeOK
<1>6. CASE HearLate(a)
  <2>1. heard' \in [Late -> Nat]
      BY <1>6 DEF HearLate, InForce, TypeOK
  <2> QED
      BY <1>0, <1>6, <2>1, CallbackTyped DEF HearLate, core, TypeOK
<1> QED
    BY <1>1, <1>2, <1>3, <1>4, <1>5, <1>6

\* What the port and the core do to the types.
LEMMA OtherTyped ==
    ASSUME TypeOK, Counters, NEW a \in Actors,
           \/ Listen(a) \/ Take(a) \/ PublishNext(a) \/ ListenLate(a)
           \/ RootOfCore \/ RunThread
    PROVE  TypeOK' /\ Counters'
<1>1. CASE Listen(a)
    BY <1>1 DEF Listen, actor, core, TypeOK, Counters
<1>2. CASE Take(a)
  <2> DEFINE m == Head(inbox[a])
  <2>1. inbox[a] \in Seq(Messages) /\ m \in Messages /\ Tail(inbox[a]) \in Seq(Messages)
      BY <1>2 DEF Take, TypeOK
  <2>2. Listeners(a, m) \in Nat
      BY <2>1, ListenersType
  <2>3. listens' \in [Late -> {"none", "asked", "inForce"}]
      BY <1>2 DEF Take, ListensAfter, TypeOK
  <2>4. TypeOK'
      BY <1>2, <2>1, <2>2, <2>3 DEF Take, core, TypeOK
  <2>5. \A b \in Actors \ {a} : left'[b] = left[b] /\ message'[b] = message[b]
      BY <1>2 DEF Take, TypeOK
  <2>6. left'[a] = Listeners(a, m) /\ message'[a] = m
      BY <1>2 DEF Take, TypeOK
  <2>7. Counters'
    <3> SUFFICES ASSUME NEW b \in Actors
                 PROVE  /\ childrenCnfCount'[b] # 0 => childrenCnfCount'[b] < Cardinality(Children[b])
                        /\ left'[b] # 0 /\ message'[b].kind = "PrivStartCnf" => Children[b] # {}
                        /\ left'[b] # 0 /\ message'[b].kind = "PrivStopCnf" =>
                              Children[b] # {} \/ message'[b].class = ClassOf[Root]
        BY DEF Counters
    <3>1. childrenCnfCount' = childrenCnfCount
        BY <1>2 DEF Take
    <3>2. CASE b = a
        BY <2>1, <2>6, <3>1, <3>2, ListenersType DEF Counters
    <3>3. CASE b # a
        BY <2>5, <3>1, <3>3 DEF Counters
    <3> QED
        BY <3>2, <3>3
  <2> QED
      BY <2>4, <2>7
<1>3. CASE PublishNext(a)
  <2>1. Head(outbox[a]) \in Messages /\ Tail(outbox[a]) \in Seq(Messages)
      BY <1>3 DEF PublishNext, TypeOK
  <2>2. inbox' \in [Actors -> Seq(Messages)]
      BY <1>3, <2>1, PublishType DEF PublishNext
  <2> QED
      BY <1>3, <2>1, <2>2 DEF PublishNext, ports, core, TypeOK, Counters
<1>4. CASE ListenLate(a)
  <2>1. listens' \in [Late -> {"none", "asked", "inForce"}]
      BY <1>4 DEF ListenLate, TypeOK
  <2> QED
      BY <1>4, <2>1 DEF ListenLate, actor, core, TypeOK, Counters
<1>5. Root \in Actors
    BY LifeCycleAssumption
<1>6. CASE HandleStop
  <2>1. outbox' \in [Actors -> Seq(Messages)]
      BY <1>5, <1>6, ClassesOfMessages DEF HandleStop, TypeOK, Kinds
  <2> QED
      BY <1>5, <1>6, <2>1, CallbackTyped DEF HandleStop, Calls, ports, core, TypeOK
<1>7. CASE HandleRootStopCnf
    BY <1>5, <1>7, CallbackTyped DEF HandleRootStopCnf, Calls, ports, core, TypeOK
<1>8. CASE SendStartReq
  <2>1. inbox' \in [Actors -> Seq(Messages)]
      BY <1>5, <1>8, ClassesOfMessages, PublishType DEF SendStartReq, Kinds
  <2> QED
      BY <1>8, <2>1 DEF SendStartReq, actor, ports, core, TypeOK, Counters
<1>9. CASE Run \/ WaitForIdle \/ WaitForStop \/ StopPriority
    BY <1>9 DEF Run, WaitForIdle, WaitForStop, StopPriority, actor, ports, core, TypeOK, Counters
<1> QED
    BY <1>1, <1>2, <1>3, <1>4, <1>6, <1>7, <1>8, <1>9 DEF RootOfCore, RunThread

LEMMA NextTyped ==
    ASSUME TypeOK, Counters, [Next]_vars
    PROVE  TypeOK' /\ Counters'
<1>1. CASE UNCHANGED vars
    BY <1>1 DEF vars, actor, ports, core, TypeOK, Counters
<1>2. CASE \E a \in Actors : Actor(a)
    BY <1>2, CallTyped, OtherTyped DEF Actor
<1>3. CASE RootOfCore \/ RunThread
    BY <1>3, OtherTyped, LifeCycleAssumption
<1> QED
    BY <1>1, <1>2, <1>3 DEF Next, Terminated

LEMMA InitTyped ==
    ASSUME Init
    PROVE  TypeOK /\ Counters
<1>1. \A a \in Actors : 0 <= Cardinality(Children[a])
    BY ChildrenFinite
<1>2. <<>> \in Seq(Messages)
    OBVIOUS
<1> QED
    BY <1>1, <1>2, StopIsMessage DEF Init, TypeOK, Counters

LEMMA SpecTyped == Spec => [](TypeOK /\ Counters)
<1>1. Init => TypeOK /\ Counters
    BY InitTyped
<1>2. TypeOK /\ Counters /\ [Next]_vars => (TypeOK /\ Counters)'
    BY NextTyped
<1> QED
    BY <1>1, <1>2, PTL DEF Spec

(* Every variable has its type, and no actor counts more confirmations     *)
(* than it has children, whatever the classes and the users.               *)
THEOREM Typing == Spec => []TypeOK
BY SpecTyped, PTL

-----------------------------------------------------------------------------
(***************************************************************************)
(* The tree.                                                               *)
(***************************************************************************)

\* The root confirms its stop to itself, through Core.
Parent(a) == IF a = Root THEN Root ELSE CHOOSE p \in Actors : a \in Children[p]

LEMMA ParentIs ==
    ASSUME NEW a \in Actors
    PROVE  /\ Parent(a) \in Actors
           /\ \A p \in Actors : a \in Children[p] <=> a # Root /\ p = Parent(a)
<1>1. CASE a = Root
    BY <1>1, LifeCycleAssumption DEF Parent, Parents
<1>2. CASE a # Root
  <2>1. Cardinality(Parents(a)) = 1
      BY <1>2, LifeCycleAssumption
  <2>2. IsFiniteSet(Parents(a))
      BY LifeCycleAssumption, FS_Subset DEF Parents
  <2>3. PICK p : Parents(a) = {p}
      BY <2>1, <2>2, FS_Singleton
  <2>4. p \in Actors /\ a \in Children[p] /\ \A q \in Actors : a \in Children[q] => q = p
      BY <2>3 DEF Parents
  <2>5. Parent(a) \in Actors /\ a \in Children[Parent(a)]
      BY <1>2, <2>4 DEF Parent
  <2> QED
      BY <1>2, <2>4, <2>5
<1> QED
    BY <1>1, <1>2

LEMMA ChildIs ==
    ASSUME NEW p \in Actors, NEW c \in Children[p]
    PROVE  c \in Actors /\ c # Root /\ Parent(c) = p
<1>1. c \in Actors
    BY LifeCycleAssumption
<1> QED
    BY <1>1, ParentIs

\* What the parent passes on to its children, from the root, reaches all.
LEMMA Descent ==
    ASSUME NEW S \in SUBSET Actors, Root \in S,
           \A a \in Actors \ {Root} : Parent(a) \in S => a \in S
    PROVE  S = Actors
<1> SUFFICES ASSUME S # Actors
             PROVE  FALSE
    OBVIOUS
<1> DEFINE T == Actors \ S
<1>1. T \in (SUBSET Actors) \ {{}}
    OBVIOUS
<1>2. PICK a \in T : Parents(a) \cap T = {}
    BY <1>1, LifeCycleAssumption
<1>3. a \in Actors /\ a # Root
    OBVIOUS
<1>4. Parent(a) \in Actors /\ Parent(a) \in Parents(a)
    BY <1>3, ParentIs DEF Parents
<1> QED
    BY <1>2, <1>3, <1>4

-----------------------------------------------------------------------------
(***************************************************************************)
(* Who sends and who hears what, when every actor has a class of its own   *)
(* and at most one user stops the system, when the root has started.       *)
(***************************************************************************)

Orderly ==
    /\ \A a, b \in Actors : ClassOf[a] = ClassOf[b] => a = b
    /\ \A u \in Users : \A x, y \in u : x = y /\ x[2] = ClassOf[Root]

Sends(a, m) ==
    /\ m.kind \in {"StartReq", "StopReq"} =>
           \E c \in Actors : /\ ClassOf[c] = m.class
                             /\ Parent(c) = a
                             /\ m.kind = "StartReq" => c # Root
    /\ m.kind \in {"StartCnf", "StopCnf", "PrivStartCnf", "PrivStopCnf"} =>
           m.class = ClassOf[a]
    /\ m.kind = "Stop" => m = StopMessage /\ <<a, ClassOf[Root]>> \in stopOn

Hears(a, m) ==
    /\ m.kind \in {"StartReq", "StopReq"} => m.class = ClassOf[a]
    /\ m.kind = "PrivStartCnf" => \E c \in Children[a] : ClassOf[c] = m.class
    /\ m.kind = "PrivStopCnf" => \E c \in Actors : ClassOf[c] = m.class /\ Parent(c) = a
    /\ m.kind = "Stop" => m = StopMessage /\ a = Root
    /\ m.kind = "StartCnf" => m.class # ClassOf[a]

\* Before the request to start nothing moves; after it everybody listens.
Plumbing ==
    /\ \A a \in Actors : \A i \in DOMAIN outbox[a] : Sends(a, outbox[a][i])
    /\ \A a \in Actors : \A i \in DOMAIN inbox[a] : Hears(a, inbox[a][i])
    /\ \A a \in Actors : left[a] # 0 => left[a] = 1 /\ Hears(a, message[a])
    /\ mpc \in {"init", "waitForIdle", "request"} =>
           \A a \in Actors : outbox[a] = <<>> /\ inbox[a] = <<>> /\ left[a] = 0
    /\ mpc \notin {"init", "waitForIdle"} => listening = Actors

LEMMA MessageFields ==
    ASSUME NEW kind, NEW class
    PROVE  /\ Message(kind, class).kind = kind
           /\ Message(kind, class).class = class
           /\ StopMessage.kind = "Stop"
           /\ StopMessage.class = NoClass
BY DEF Message, StopMessage

LEMMA MessageIs ==
    ASSUME NEW m \in Messages
    PROVE  m = Message(m.kind, m.class) /\ m.kind \in Kinds
BY DEF Message, Messages

\* At most one callback for each message.
LEMMA OneListener ==
    ASSUME Orderly, TypeOK, NEW a \in Actors, NEW m \in Messages
    PROVE  /\ Listeners(a, m) \in {0, 1}
           /\ m.kind \in {"StartReq", "StopReq"} =>
                 (Listeners(a, m) = 1 <=> m.class = ClassOf[a])
           /\ m.kind = "PrivStartCnf" =>
                 (Listeners(a, m) = 1 <=> \E c \in Children[a] : ClassOf[c] = m.class)
           /\ m.kind = "PrivStopCnf" =>
                 (Listeners(a, m) = 1 <=> \E c \in Actors : ClassOf[c] = m.class /\ Parent(c) = a)
           /\ m.kind = "Stop" => (Listeners(a, m) = 1 <=> a = Root)
           /\ m.kind = "StartCnf" =>
                 (Listeners(a, m) = 1 <=>
                     (<<a, m.class>> \in stopOn /\ m.class # ClassOf[a]) \/ InForce(a, m))
           /\ m.kind = "StopCnf" => (Listeners(a, m) = 1 <=> InForce(a, m))
<1> DEFINE S == {c \in Children[a] : ClassOf[c] = m.class}
<1>1. Cardinality(S) = One(\E c \in Children[a] : ClassOf[c] = m.class)
  <2>1. CASE \E c \in Children[a] : ClassOf[c] = m.class
    <3>1. PICK c \in Children[a] : ClassOf[c] = m.class
        BY <2>1
    <3>2. S = {c}
        BY <3>1, ChildIs DEF Orderly
    <3> QED
        BY <2>1, <3>2, FS_Singleton DEF One
  <2>2. CASE ~ \E c \in Children[a] : ClassOf[c] = m.class
    <3>1. S = {}
        BY <2>2
    <3> QED
        BY <2>2, <3>1, FS_EmptySet DEF One
  <2> QED
      BY <2>1, <2>2
<1>2. m.kind \in Kinds
    BY MessageIs
<1>3. m.kind \in {"StartReq", "StopReq"} => Listeners(a, m) = One(m.class = ClassOf[a])
    BY DEF Listeners, One
<1>4. m.kind = "PrivStartCnf" => Listeners(a, m) = Cardinality(S)
    BY DEF Listeners
<1>5. m.kind = "PrivStopCnf" =>
          Listeners(a, m) = IF a = Root /\ m.class = ClassOf[Root] THEN 1 ELSE Cardinality(S)
    BY DEF Listeners
<1>6. m.kind = "Stop" => Listeners(a, m) = One(a = Root)
    BY DEF Listeners, One
<1>7. m.kind = "StartCnf" => Listeners(a, m) =
          One((<<a, m.class>> \in stopOn /\ m.class # ClassOf[a]) \/ InForce(a, m))
    BY DEF Listeners, One
<1>8. m.kind = "StopCnf" => Listeners(a, m) = One(InForce(a, m))
    BY DEF Listeners, One
<1>9. (\E c \in Actors : ClassOf[c] = m.class /\ Parent(c) = a) <=>
          \/ \E c \in Children[a] : ClassOf[c] = m.class
          \/ a = Root /\ m.class = ClassOf[Root]
  <2>1. Root \in Actors /\ Parent(Root) = Root
      BY LifeCycleAssumption DEF Parent
  <2>2. ASSUME NEW c \in Actors, Parent(c) = a, c # Root
        PROVE  c \in Children[a]
      BY <2>2, ParentIs
  <2> QED
      BY <2>1, <2>2, ChildIs
<1>10. \A b \in BOOLEAN : One(b) \in {0, 1} /\ (One(b) = 1 <=> b)
    BY DEF One
<1> HIDE DEF S
<1>11. CASE m.kind = "PrivStartCnf"
    BY <1>1, <1>4, <1>10, <1>11
<1>12. CASE m.kind = "PrivStopCnf"
    BY <1>1, <1>5, <1>9, <1>10, <1>12
<1>13. CASE m.kind \in {"StartReq", "StopReq"}
    BY <1>3, <1>10, <1>13
<1>14. CASE m.kind = "Stop"
    BY <1>6, <1>10, <1>14
<1>15. CASE m.kind = "StartCnf"
    BY <1>7, <1>10, <1>15 DEF InForce
<1>16. CASE m.kind = "StopCnf"
    BY <1>8, <1>10, <1>16 DEF InForce
<1> QED
    BY <1>2, <1>11, <1>12, <1>13, <1>14, <1>15, <1>16 DEF Kinds

LEMMA ListenersHear ==
    ASSUME Orderly, TypeOK, NEW a \in Actors, NEW m \in Messages,
           m.kind = "Stop" => m = StopMessage,
           Listeners(a, m) > 0
    PROVE  Hears(a, m)
<1>1. Listeners(a, m) = 1
  <2>1. Listeners(a, m) \in {0, 1}
      BY OneListener
  <2> QED
      BY <2>1
<1>2. m.kind = "StartCnf" /\ InForce(a, m) => m.class # ClassOf[a]
  <2> SUFFICES ASSUME InForce(a, m)
               PROVE  m.class # ClassOf[a]
      OBVIOUS
  <2>1. <<a, m>> \in Late /\ <<a, m>>[1] = a /\ <<a, m>>[2] = m
      BY DEF InForce
  <2> QED
      BY <2>1, LifeCycleAssumption
<1>3. m.kind = "StartCnf" => m.class # ClassOf[a]
    BY <1>1, <1>2, OneListener
<1>4. m.kind \in {"StartReq", "StopReq"} => m.class = ClassOf[a]
    BY <1>1, OneListener
<1>5. m.kind = "PrivStartCnf" => \E c \in Children[a] : ClassOf[c] = m.class
    BY <1>1, OneListener
<1>6. m.kind = "PrivStopCnf" => \E c \in Actors : ClassOf[c] = m.class /\ Parent(c) = a
    BY <1>1, OneListener
<1>7. m.kind = "Stop" => m = StopMessage /\ a = Root
    BY <1>1, OneListener
<1> QED
    BY <1>3, <1>4, <1>5, <1>6, <1>7 DEF Hears

-----------------------------------------------------------------------------
(* What a callback has said. *)

Says(a, out) ==
    /\ left[a] > 0
    /\ left' = [left EXCEPT ![a] = @ - 1]
    /\ outbox[a] = <<>>
    /\ out \in Seq(Messages)
    /\ outbox' = [outbox EXCEPT ![a] = out]
    /\ UNCHANGED <<inbox, message, stopOn>>

LEMMA ForwardSays ==
    ASSUME Orderly, TypeOK, NEW a \in Actors, NEW kind \in Kinds, Forward(a, kind)
    PROVE  \E out \in Seq(Messages) :
               /\ outbox' = [outbox EXCEPT ![a] = out]
               /\ \A m : Waiting(out, m) = One(\E c \in Children[a] : m = Message(kind, ClassOf[c]))
<1>1. PICK order \in SetToSeqs(Children[a]) :
          outbox' = [outbox EXCEPT ![a] =
              [i \in DOMAIN order |-> Message(kind, ClassOf[order[i]])]]
    BY DEF Forward
<1> DEFINE n == Cardinality(Children[a])
           out == [i \in DOMAIN order |-> Message(kind, ClassOf[order[i]])]
<1>2. /\ order \in [1 .. n -> Children[a]]
      /\ \A i, j \in 1 .. n : i # j => order[i] # order[j]
      /\ n \in Nat
    BY ChildrenFinite DEF SetToSeqs
<1>3. \A c \in Children[a] : \E i \in 1 .. n : order[i] = c
  <2>1. order \in Injection(1 .. n, Children[a])
      BY <1>2 DEF Injection, IsInjective
  <2>2. Cardinality(1 .. n) = n
      BY <1>2, FS_Interval
  <2>3. order \in Surjection(1 .. n, Children[a])
      BY <2>1, <2>2, ChildrenFinite, FS_Injection
  <2> QED
      BY <2>3 DEF Surjection
<1>4. \A i \in 1 .. n : order[i] \in Actors
    BY <1>2, ChildIs
<1>5. out \in [1 .. n -> Messages]
    BY <1>2, <1>4, ClassesOfMessages
<1>6. out \in Seq(Messages) /\ DOMAIN out = 1 .. n
    BY <1>2, <1>5, IsASeq
<1>7. \A i, j \in 1 .. n : out[i] = out[j] => i = j
  <2> SUFFICES ASSUME NEW i \in 1 .. n, NEW j \in 1 .. n, out[i] = out[j]
               PROVE  i = j
      OBVIOUS
  <2>1. ClassOf[order[i]] = ClassOf[order[j]]
      BY <1>2, MessageFields
  <2> QED
      BY <1>2, <1>4, <2>1 DEF Orderly
<1>8. \A m : (\E i \in 1 .. n : out[i] = m) <=> \E c \in Children[a] : m = Message(kind, ClassOf[c])
    BY <1>2, <1>3
<1>9. ASSUME NEW m
      PROVE  Waiting(out, m) = One(\E c \in Children[a] : m = Message(kind, ClassOf[c]))
  <2> HIDE DEF out
  <2>1. Waiting(out, m) = One(\E i \in DOMAIN out : out[i] = m)
      BY <1>6, <1>7, WaitingOnce
  <2> QED
      BY <1>6, <1>8, <2>1 DEF One
<1> QED
    BY <1>1, <1>6, <1>9

LEMMA WaitingInOne ==
    ASSUME NEW x, NEW m
    PROVE  Waiting(<<x>>, m) = One(m = x)
<1> DEFINE M == {x}
           s == <<x>>
<1>1. s \in Seq(M)
    OBVIOUS
<1>2. (\E i \in DOMAIN s : s[i] = m) <=> m = x
    OBVIOUS
<1>3. \A i, j \in DOMAIN s : s[i] = s[j] => i = j
    OBVIOUS
<1> HIDE DEF M, s
<1>4. Waiting(s, m) = One(\E i \in DOMAIN s : s[i] = m)
    BY <1>1, <1>3, WaitingOnce
<1> QED
    BY <1>2, <1>4 DEF One, s

LEMMA WaitingInTwo ==
    ASSUME NEW x, NEW y, x # y, NEW m
    PROVE  Waiting(<<x, y>>, m) = One(m \in {x, y})
<1> DEFINE M == {x, y}
           s == <<x, y>>
<1>1. s \in Seq(M)
    OBVIOUS
<1>2. (\E i \in DOMAIN s : s[i] = m) <=> m \in {x, y}
    OBVIOUS
<1>3. \A i, j \in DOMAIN s : s[i] = s[j] => i = j
    OBVIOUS
<1> HIDE DEF M, s
<1>4. Waiting(s, m) = One(\E i \in DOMAIN s : s[i] = m)
    BY <1>1, <1>3, WaitingOnce
<1> QED
    BY <1>2, <1>4 DEF One, s

LEMMA WaitingInThree ==
    ASSUME NEW x, NEW y, NEW z, x # y, x # z, y # z, NEW m
    PROVE  Waiting(<<x, y, z>>, m) = One(m \in {x, y, z})
<1> DEFINE M == {x, y, z}
           s == <<x, y, z>>
<1>1. s \in Seq(M)
    OBVIOUS
<1>2. (\E i \in DOMAIN s : s[i] = m) <=> m \in {x, y, z}
    OBVIOUS
<1>3. \A i, j \in DOMAIN s : s[i] = s[j] => i = j
    OBVIOUS
<1> HIDE DEF M, s
<1>4. Waiting(s, m) = One(\E i \in DOMAIN s : s[i] = m)
    BY <1>1, <1>3, WaitingOnce
<1> QED
    BY <1>2, <1>4 DEF One, s

LEMMA Prepended ==
    ASSUME NEW x, NEW y, NEW z
    PROVE  <<x>> \o <<y, z>> = <<x, y, z>>
<1> DEFINE M == {x, y, z}
           s == <<x>> \o <<y, z>>
           t == <<x, y, z>>
<1>1. /\ <<x>> \in Seq(M) /\ Len(<<x>>) = 1
      /\ <<y, z>> \in Seq(M) /\ Len(<<y, z>>) = 2
      /\ t \in Seq(M) /\ Len(t) = 3
    OBVIOUS
<1>2. s \in Seq(M) /\ Len(s) = 3 /\ s[1] = x /\ s[2] = y /\ s[3] = z
    BY <1>1
<1>3. \A i \in 1 .. 3 : s[i] = t[i]
    BY <1>2
<1> HIDE DEF s, t
<1> QED
    BY <1>1, <1>2, <1>3, SeqEqual DEF s, t

-----------------------------------------------------------------------------
\* Every callback, with the messages that it leaves to be published.
LEMMA StartedSays ==
    ASSUME NEW a \in Actors, Started(a)
    PROVE  \E out \in Seq(Messages) :
               /\ outbox' = [outbox EXCEPT ![a] = out]
               /\ \A m : Waiting(out, m) =
                      One(\/ m = Message("StartCnf", ClassOf[a])
                          \/ m = Message("PrivStartCnf", ClassOf[a])
                          \/ m = StopMessage /\ <<a, ClassOf[a]>> \in stopOn)
<1> DEFINE x == Message("StartCnf", ClassOf[a])
           y == Message("PrivStartCnf", ClassOf[a])
<1>1. x # y /\ StopMessage # x /\ StopMessage # y
    BY MessageFields
<1>5. StartCnfs(a) = <<x, y>>
    BY DEF StartCnfs
<1> HIDE DEF x, y
<1>2. StartCnfs(a) = <<x, y>> /\ <<StopMessage>> \o StartCnfs(a) = <<StopMessage, x, y>>
    BY <1>5, Prepended
<1>3. CASE <<a, ClassOf[a]>> \in stopOn
  <2>1. outbox' = [outbox EXCEPT ![a] = <<StopMessage, x, y>>]
      BY <1>2, <1>3 DEF Started
  <2>2. \A m : Waiting(<<StopMessage, x, y>>, m) = One(m \in {StopMessage, x, y})
      BY <1>1, WaitingInThree
  <2>3. <<StopMessage, x, y>> \in Seq(Messages)
      BY <1>2, ConfirmType
  <2> QED
      BY <1>3, <2>1, <2>2, <2>3 DEF One, x, y
<1>4. CASE <<a, ClassOf[a]>> \notin stopOn
  <2>1. outbox' = [outbox EXCEPT ![a] = <<x, y>>]
      BY <1>2, <1>4 DEF Started
  <2>2. \A m : Waiting(<<x, y>>, m) = One(m \in {x, y})
      BY <1>1, WaitingInTwo
  <2>3. <<x, y>> \in Seq(Messages)
      BY <1>2, ConfirmType
  <2> QED
      BY <1>4, <2>1, <2>2, <2>3 DEF One, x, y
<1> QED
    BY <1>3, <1>4

LEMMA StoppedSays ==
    ASSUME NEW a \in Actors, Stopped(a)
    PROVE  \E out \in Seq(Messages) :
               /\ outbox' = [outbox EXCEPT ![a] = out]
               /\ \A m : Waiting(out, m) =
                      One(\/ m = Message("StopCnf", ClassOf[a])
                          \/ m = Message("PrivStopCnf", ClassOf[a]))
<1> DEFINE x == Message("StopCnf", ClassOf[a])
           y == Message("PrivStopCnf", ClassOf[a])
<1>1. x # y /\ StopMessage # x /\ StopMessage # y
    BY MessageFields
<1>2. StopCnfs(a) = <<x, y>>
    BY DEF StopCnfs
<1> HIDE DEF x, y
<1>3. outbox' = [outbox EXCEPT ![a] = <<x, y>>]
    BY <1>2 DEF Stopped
<1>4. \A m : Waiting(<<x, y>>, m) = One(m \in {x, y})
    BY <1>1, WaitingInTwo
<1>5. <<x, y>> \in Seq(Messages)
    BY <1>2, ConfirmType
<1> QED
    BY <1>3, <1>4, <1>5 DEF One, x, y

LEMMA OneSays ==
    ASSUME NEW x \in Messages
    PROVE  \E out \in Seq(Messages) :
               /\ out = <<x>>
               /\ \A m : Waiting(out, m) = One(m = x)
<1> DEFINE out == <<x>>
<1>1. out \in Seq(Messages) /\ out = <<x>>
    OBVIOUS
<1>2. \A m : Waiting(out, m) = One(m = x)
    BY WaitingInOne
<1> HIDE DEF out
<1> QED
    BY <1>1, <1>2

LEMMA NothingSaid ==
    ASSUME TypeOK, NEW a \in Actors, outbox[a] = <<>>, UNCHANGED outbox
    PROVE  \E out \in Seq(Messages) :
               /\ outbox' = [outbox EXCEPT ![a] = out]
               /\ \A m : Waiting(out, m) = One(FALSE)
<1>1. outbox' = [outbox EXCEPT ![a] = <<>>] /\ <<>> \in Seq(Messages)
    BY DEF TypeOK
<1>2. \A m : Waiting(<<>>, m) = One(FALSE)
    BY WaitingEmpty DEF One
<1> QED
    BY <1>1, <1>2

\* A callback runs with a message that the actor listens to.
LEMMA Called ==
    ASSUME TypeOK, Plumbing, NEW a \in Actors, NEW kind, Calls(a, kind)
    PROVE  /\ left[a] > 0 /\ left' = [left EXCEPT ![a] = @ - 1]
           /\ left[a] = 1
           /\ outbox[a] = <<>>
           /\ message[a] \in Messages /\ message[a].kind = kind
           /\ message[a] = Message(kind, message[a].class)
           /\ Hears(a, message[a])
<1>1. left[a] > 0 /\ left[a] # 0
    BY DEF Calls, TypeOK
<1> QED
    BY <1>1, MessageIs DEF Calls, Plumbing, TypeOK

\* What keeps the plumbing in order.
LEMMA SaidPlumbing ==
    ASSUME TypeOK, Plumbing, NEW a \in Actors, NEW out, Says(a, out),
           \A m \in Messages : Waiting(out, m) # 0 => Sends(a, m),
           UNCHANGED <<mpc, listening>>
    PROVE  Plumbing'
<1>1. mpc \notin {"init", "waitForIdle", "request"}
    BY DEF Says, Plumbing, TypeOK
<1>2. outbox'[a] = out /\ \A b \in Actors \ {a} : outbox'[b] = outbox[b]
    BY DEF Says, TypeOK
<1>3. \A i \in DOMAIN out : Sends(a, out[i])
  <2> SUFFICES ASSUME NEW i \in DOMAIN out
               PROVE  Sends(a, out[i])
      OBVIOUS
  <2>1. out \in Seq(Messages) /\ out[i] \in Messages
      BY DEF Says
  <2>2. \A j \in DOMAIN out : Waiting(out, out[j]) # 0
    <3> SUFFICES ASSUME NEW j \in DOMAIN out, Waiting(out, out[j]) = 0
                 PROVE  FALSE
        OBVIOUS
    <3>1. IsFiniteSet({k \in DOMAIN out : out[k] = out[j]})
        BY <2>1, WaitingIs
    <3>2. {k \in DOMAIN out : out[k] = out[j]} = {}
        BY <3>1, FS_EmptySet DEF Waiting
    <3> QED
        BY <3>2
  <2> QED
      BY <2>1, <2>2
<1>4. \A b \in Actors : \A m : Sends(b, m)' <=> Sends(b, m)
    BY DEF Says, Sends
<1>5. (\A b \in Actors : \A i \in DOMAIN outbox[b] : Sends(b, outbox[b][i]))'
  <2> SUFFICES ASSUME NEW b \in Actors, NEW i \in DOMAIN outbox'[b]
               PROVE  Sends(b, outbox'[b][i])
      BY <1>4
  <2> QED
      BY <1>2, <1>3 DEF Plumbing
<1>6. \A b \in Actors : \A i \in DOMAIN inbox'[b] : Hears(b, inbox'[b][i])
    BY DEF Plumbing, Says
<1>7. \A b \in Actors : left'[b] # 0 => left'[b] = 1 /\ Hears(b, message'[b])
  <2> SUFFICES ASSUME NEW b \in Actors, left'[b] # 0
               PROVE  left'[b] = 1 /\ Hears(b, message'[b])
      OBVIOUS
  <2>1. CASE b = a
      BY <2>1 DEF Says, Plumbing, TypeOK
  <2>2. CASE b # a
      BY <2>2 DEF Says, Plumbing, TypeOK
  <2> QED
      BY <2>1, <2>2
<1> QED
    BY <1>1, <1>5, <1>6, <1>7 DEF Plumbing, Hears

LEMMA PublishPlumbing ==
    ASSUME Orderly, TypeOK, Plumbing, NEW m \in Messages, m.kind = "Stop" => m = StopMessage,
           Publish(m)
    PROVE  \A b \in Actors : \A i \in DOMAIN inbox'[b] : Hears(b, inbox'[b][i])
<1> SUFFICES ASSUME NEW b \in Actors, NEW i \in DOMAIN inbox'[b]
             PROVE  Hears(b, inbox'[b][i])
    OBVIOUS
<1>1. CASE inbox'[b] = inbox[b]
    BY <1>1 DEF Plumbing
<1>2. CASE inbox'[b] = Append(inbox[b], m) /\ Listeners(b, m) > 0
  <2>1. Hears(b, m)
      BY <1>2, ListenersHear
  <2>2. inbox[b] \in Seq(Messages)
      BY DEF TypeOK
  <2>3. inbox'[b][i] = m \/ (i \in DOMAIN inbox[b] /\ inbox'[b][i] = inbox[b][i])
      BY <1>2, <2>2
  <2> QED
      BY <2>1, <2>3 DEF Plumbing
<1> QED
    BY <1>1, <1>2 DEF Publish

LEMMA PortPlumbing ==
    ASSUME Orderly, TypeOK, Plumbing, NEW a \in Actors, PublishNext(a) \/ Take(a)
    PROVE  Plumbing'
<1>1. mpc \notin {"init", "waitForIdle", "request"} /\ mpc' = mpc
      /\ listening' = listening
    BY DEF PublishNext, Take, Plumbing, core, ports
<1>2. \A b \in Actors : \A m : Sends(b, m)' <=> Sends(b, m)
    BY DEF PublishNext, Take, Sends
<1>3. CASE PublishNext(a)
  <2> DEFINE m == Head(outbox[a])
  <2>1. outbox[a] \in Seq(Messages) /\ outbox[a] # <<>>
      BY <1>3 DEF PublishNext, TypeOK
  <2>2. m \in Messages /\ m = outbox[a][1] /\ 1 \in DOMAIN outbox[a]
      BY <2>1
  <2>3. Sends(a, m)
      BY <2>2 DEF Plumbing
  <2>4. \A b \in Actors : \A i \in DOMAIN inbox'[b] : Hears(b, inbox'[b][i])
    <3>1. m.kind = "Stop" => m = StopMessage
        BY <2>3 DEF Sends
    <3>2. Publish(m)
        BY <1>3 DEF PublishNext
    <3> HIDE DEF m
    <3> QED
        BY <2>2, <3>1, <3>2, PublishPlumbing
  <2>5. \A b \in Actors : \A i \in DOMAIN outbox'[b] : Sends(b, outbox'[b][i])
    <3> SUFFICES ASSUME NEW b \in Actors, NEW i \in DOMAIN outbox'[b]
                 PROVE  Sends(b, outbox'[b][i])
        OBVIOUS
    <3>1. CASE b = a
      <4>1. outbox'[a] = Tail(outbox[a])
          BY <1>3 DEF PublishNext, TypeOK
      <4>2. i + 1 \in DOMAIN outbox[a] /\ outbox'[a][i] = outbox[a][i + 1]
          BY <2>1, <3>1, <4>1
      <4> QED
          BY <3>1, <4>2 DEF Plumbing
    <3>2. CASE b # a
        BY <1>3, <3>2 DEF PublishNext, Plumbing, TypeOK
    <3> QED
        BY <3>1, <3>2
  <2>6. left' = left /\ message' = message
      BY <1>3 DEF PublishNext
  <2> QED
      BY <1>1, <1>2, <2>4, <2>5, <2>6 DEF Plumbing, Hears
<1>4. CASE Take(a)
  <2> DEFINE m == Head(inbox[a])
  <2>1. inbox[a] \in Seq(Messages) /\ inbox[a] # <<>>
      BY <1>4 DEF Take, TypeOK
  <2>2. m \in Messages /\ m = inbox[a][1] /\ 1 \in DOMAIN inbox[a]
      BY <2>1
  <2>3. Hears(a, m) /\ Listeners(a, m) \in {0, 1}
      BY <2>2, OneListener DEF Plumbing
  <2>4. \A b \in Actors : \A i \in DOMAIN inbox'[b] : Hears(b, inbox'[b][i])
    <3> SUFFICES ASSUME NEW b \in Actors, NEW i \in DOMAIN inbox'[b]
                 PROVE  Hears(b, inbox'[b][i])
        OBVIOUS
    <3>1. CASE b = a
      <4>1. inbox'[a] = Tail(inbox[a])
          BY <1>4 DEF Take, TypeOK
      <4>2. i + 1 \in DOMAIN inbox[a] /\ inbox'[a][i] = inbox[a][i + 1]
          BY <2>1, <3>1, <4>1
      <4> QED
          BY <3>1, <4>2 DEF Plumbing
    <3>2. CASE b # a
        BY <1>4, <3>2 DEF Take, Plumbing, TypeOK
    <3> QED
        BY <3>1, <3>2
  <2>5. \A b \in Actors : left'[b] # 0 => left'[b] = 1 /\ Hears(b, message'[b])
    <3> SUFFICES ASSUME NEW b \in Actors, left'[b] # 0
                 PROVE  left'[b] = 1 /\ Hears(b, message'[b])
        OBVIOUS
    <3>1. CASE b = a
        BY <1>4, <2>3, <3>1 DEF Take, TypeOK
    <3>2. CASE b # a
        BY <1>4, <3>2 DEF Take, Plumbing, TypeOK
    <3> QED
        BY <3>1, <3>2
  <2>6. outbox' = outbox
      BY <1>4 DEF Take
  <2> QED
      BY <1>1, <1>2, <2>4, <2>5, <2>6 DEF Plumbing, Hears
<1> QED
    BY <1>3, <1>4

-----------------------------------------------------------------------------
(***************************************************************************)
(* The messages on their way from a sender to a receiver.                  *)
(***************************************************************************)

Copies(m, s, r) ==
    Waiting(outbox[s], m) + Waiting(inbox[r], m) + (IF message[r] = m THEN left[r] ELSE 0)

StartReqs(a) == Copies(Message("StartReq", ClassOf[a]), Parent(a), a)
StopReqs(a) == Copies(Message("StopReq", ClassOf[a]), Parent(a), a)
StartConfirms(a) == Copies(Message("PrivStartCnf", ClassOf[a]), a, Parent(a))
StopConfirms(a) == Copies(Message("PrivStopCnf", ClassOf[a]), a, Parent(a))

\* The user that stops the system, if there is one.
Stopper == IF stopOn = {} THEN Root ELSE CHOOSE a \in Actors : <<a, ClassOf[Root]>> \in stopOn

\* The news that the root has started, on their way to the user, and the Stop
\* on its way back.
News == IF Stopper = Root THEN 0 ELSE Copies(Message("StartCnf", ClassOf[Root]), Root, Stopper)
Stops == Copies(StopMessage, Stopper, Root)

LEMMA StopperIs ==
    ASSUME Orderly, TypeOK
    PROVE  /\ Stopper \in Actors
           /\ stopOn # {} <=> <<Stopper, ClassOf[Root]>> \in stopOn
           /\ \A a \in Actors : <<a, ClassOf[Root]>> \in stopOn => a = Stopper
           /\ \A a, k : <<a, k>> \in stopOn => k = ClassOf[Root]
<1>1. stopOn \in SUBSET (Actors \X Classes)
    BY LifeCycleAssumption DEF TypeOK
<1>2. \A x, y \in stopOn : x = y /\ x[2] = ClassOf[Root]
    BY DEF TypeOK, Orderly
<1>3. \A a, k : <<a, k>> \in stopOn => k = ClassOf[Root]
  <2> SUFFICES ASSUME NEW a, NEW k, <<a, k>> \in stopOn
               PROVE  k = ClassOf[Root]
      OBVIOUS
  <2>1. <<a, k>>[2] = ClassOf[Root]
      BY <1>2
  <2> QED
      BY <2>1
<1>4. CASE stopOn = {}
    BY <1>4, LifeCycleAssumption DEF Stopper
<1>5. CASE stopOn # {}
  <2>1. PICK x \in stopOn : x \in Actors \X Classes
      BY <1>1, <1>5
  <2>2. PICK a \in Actors, k \in Classes : x = <<a, k>>
      BY <2>1
  <2>3. <<a, ClassOf[Root]>> \in stopOn
      BY <1>3, <2>1, <2>2
  <2>4. \A b \in Actors : <<b, ClassOf[Root]>> \in stopOn => b = a
    <3> SUFFICES ASSUME NEW b \in Actors, <<b, ClassOf[Root]>> \in stopOn
                 PROVE  b = a
        OBVIOUS
    <3>1. <<b, ClassOf[Root]>> = <<a, ClassOf[Root]>>
        BY <1>2, <2>3
    <3> QED
        BY <3>1
  <2>5. Stopper \in Actors /\ <<Stopper, ClassOf[Root]>> \in stopOn
      BY <1>5, <2>3 DEF Stopper
  <2> QED
      BY <1>3, <1>5, <2>4, <2>5
<1> QED
    BY <1>4, <1>5

LEMMA CopiesIs ==
    ASSUME TypeOK, NEW s \in Actors, NEW r \in Actors, NEW m
    PROVE  /\ Waiting(outbox[s], m) \in Nat
           /\ Waiting(inbox[r], m) \in Nat
           /\ left[r] \in Nat
           /\ Copies(m, s, r) \in Nat
<1>1. outbox[s] \in Seq(Messages) /\ inbox[r] \in Seq(Messages) /\ left[r] \in Nat
    BY DEF TypeOK
<1>2. Waiting(outbox[s], m) \in Nat /\ Waiting(inbox[r], m) \in Nat
    BY <1>1, WaitingIs
<1> QED
    BY <1>1, <1>2 DEF Copies

\* A callback uses up one copy of its message and adds what it says.
LEMMA CopiesSaid ==
    ASSUME TypeOK, NEW a \in Actors, NEW out, Says(a, out),
           NEW m, NEW s \in Actors, NEW r \in Actors
    PROVE  Copies(m, s, r)' = Copies(m, s, r) - One(r = a /\ message[a] = m)
                                  + (IF s = a THEN Waiting(out, m) ELSE 0)
<1>1. /\ Waiting(outbox[s], m) \in Nat /\ Waiting(inbox[r], m) \in Nat
      /\ left[r] \in Nat
    BY CopiesIs
<1>2. Waiting(out, m) \in Nat
    BY WaitingIs DEF Says
<1>3. Waiting(outbox'[s], m) = IF s = a THEN Waiting(out, m) ELSE Waiting(outbox[s], m)
    BY DEF Says, TypeOK
<1>4. s = a => Waiting(outbox[s], m) = 0
    BY WaitingEmpty DEF Says
<1>5. inbox' = inbox /\ message' = message
    BY DEF Says
<1>6. left'[r] = IF r = a THEN left[r] - 1 ELSE left[r]
    BY DEF Says, TypeOK
<1>7. Copies(m, s, r)' = Waiting(outbox'[s], m) + Waiting(inbox[r], m) + (IF message[r] = m THEN left'[r] ELSE 0)
    BY <1>5 DEF Copies
<1> QED
    BY <1>1, <1>2, <1>3, <1>4, <1>6, <1>7 DEF Copies, One

\* To take a message that one listens to, or to publish one to somebody who
\* listens to it, changes nothing; nor does a message of which there is none.
LEMMA CopiesTaken ==
    ASSUME TypeOK, NEW a \in Actors, Take(a), NEW m, NEW s \in Actors, NEW r \in Actors,
           Listeners(r, m) = 1 \/ Copies(m, s, r) = 0
    PROVE  Copies(m, s, r)' = Copies(m, s, r)
<1>1. outbox' = outbox
    BY DEF Take
<1>2. CASE r # a
  <2>1. inbox'[r] = inbox[r] /\ left'[r] = left[r] /\ message'[r] = message[r]
      BY <1>2 DEF Take, TypeOK
  <2> QED
      BY <1>1, <2>1 DEF Copies
<1>3. CASE r = a
  <2> DEFINE h == Head(inbox[a])
  <2>1. inbox[a] \in Seq(Messages) /\ inbox[a] # <<>> /\ Tail(inbox[a]) \in Seq(Messages)
      BY DEF Take, TypeOK
  <2>2. inbox'[a] = Tail(inbox[a]) /\ left'[a] = Listeners(a, h) /\ message'[a] = h /\ left[a] = 0
      BY DEF Take, Idle, TypeOK
  <2>3. Waiting(inbox[a], m) = Waiting(Tail(inbox[a]), m) + One(h = m)
      BY <2>1, WaitingTail
  <2>4. Waiting(outbox[s], m) \in Nat /\ Waiting(Tail(inbox[a]), m) \in Nat
      BY <2>1, CopiesIs, WaitingIs
  <2>5. Copies(m, s, a) = Waiting(outbox[s], m) + Waiting(inbox[a], m)
      BY <2>2, <2>3, <2>4 DEF Copies, One
  <2>6. Copies(m, s, a)' = Waiting(outbox[s], m) + Waiting(Tail(inbox[a]), m)
                              + (IF h = m THEN Listeners(a, h) ELSE 0)
      BY <1>1, <2>2 DEF Copies
  <2>7. h = m => Listeners(a, h) = 1
      BY <1>3, <2>3, <2>4, <2>5 DEF One
  <2> HIDE DEF h
  <2>8. Copies(m, s, a)' = Copies(m, s, a)
      BY <2>3, <2>4, <2>5, <2>6, <2>7 DEF One
  <2> QED
      BY <1>3, <2>8
<1> QED
    BY <1>2, <1>3

LEMMA CopiesPublished ==
    ASSUME TypeOK, Plumbing, NEW a \in Actors, PublishNext(a),
           NEW m, NEW s \in Actors, NEW r \in Actors,
           Listeners(r, m) = 1 \/ Copies(m, s, r) = 0, Sends(a, m) => a = s
    PROVE  Copies(m, s, r)' = Copies(m, s, r)
<1> DEFINE h == Head(outbox[a])
<1>1. /\ outbox[a] \in Seq(Messages) /\ outbox[a] # <<>> /\ inbox[r] \in Seq(Messages)
      /\ h \in Messages /\ h = outbox[a][1] /\ 1 \in DOMAIN outbox[a]
      /\ Tail(outbox[a]) \in Seq(Messages)
    BY DEF PublishNext, TypeOK
<1>2. Sends(a, h) /\ listening = Actors
    BY <1>1 DEF Plumbing
<1>3. left' = left /\ message' = message
    BY DEF PublishNext
<1>4. inbox'[r] = IF Listeners(r, h) > 0 THEN Append(inbox[r], h) ELSE inbox[r]
    BY <1>2 DEF PublishNext, Publish
<1>5. outbox'[s] = IF s = a THEN Tail(outbox[a]) ELSE outbox[s]
    BY DEF PublishNext, TypeOK
<1>6. Waiting(outbox[a], m) = Waiting(Tail(outbox[a]), m) + One(h = m)
    BY <1>1, WaitingTail
<1>7. Waiting(Append(inbox[r], h), m) = Waiting(inbox[r], m) + One(h = m)
    BY <1>1, WaitingAppend
<1>8. /\ Waiting(outbox[s], m) \in Nat /\ Waiting(Tail(outbox[a]), m) \in Nat
      /\ Waiting(inbox[r], m) \in Nat /\ left[r] \in Nat
    BY <1>1, CopiesIs, WaitingIs
<1>9. h = m => s = a /\ Listeners(r, h) > 0
    BY <1>2, <1>6, <1>8 DEF One, Copies
<1>10. Copies(m, s, r)' = Waiting(outbox'[s], m) + Waiting(inbox'[r], m)
                              + (IF message[r] = m THEN left[r] ELSE 0)
    BY <1>3 DEF Copies
<1> HIDE DEF h
<1>11. CASE h = m
    BY <1>4, <1>5, <1>6, <1>7, <1>8, <1>9, <1>10, <1>11 DEF Copies, One
<1>12. CASE h # m
  <2>1. Waiting(inbox'[r], m) = Waiting(inbox[r], m)
      BY <1>4, <1>7, <1>8, <1>12 DEF One
  <2>2. Waiting(outbox'[s], m) = Waiting(outbox[s], m)
      BY <1>5, <1>6, <1>8, <1>12 DEF One
  <2> QED
      BY <1>10, <2>1, <2>2 DEF Copies
<1> QED
    BY <1>11, <1>12

\* What a callback does to the messages on their way.
LEMMA Effect ==
    ASSUME Orderly, TypeOK, Plumbing, NEW a \in Actors, NEW kind, Calls(a, kind),
           NEW out, Says(a, out)
    PROVE  /\ \A b \in Actors :
                 /\ StartReqs(b)' = StartReqs(b) - One(kind = "StartReq" /\ b = a)
                       + (IF Parent(b) = a THEN Waiting(out, Message("StartReq", ClassOf[b])) ELSE 0)
                 /\ StopReqs(b)' = StopReqs(b) - One(kind = "StopReq" /\ b = a)
                       + (IF Parent(b) = a THEN Waiting(out, Message("StopReq", ClassOf[b])) ELSE 0)
                 /\ StartConfirms(b)' = StartConfirms(b)
                       - One(kind = "PrivStartCnf" /\ Parent(b) = a /\ message[a].class = ClassOf[b])
                       + (IF b = a THEN Waiting(out, Message("PrivStartCnf", ClassOf[b])) ELSE 0)
                 /\ StopConfirms(b)' = StopConfirms(b)
                       - One(kind = "PrivStopCnf" /\ Parent(b) = a /\ message[a].class = ClassOf[b])
                       + (IF b = a THEN Waiting(out, Message("PrivStopCnf", ClassOf[b])) ELSE 0)
           /\ Stopper # Root =>
                 News' = News - One(kind = "StartCnf" /\ a = Stopper /\ message[a].class = ClassOf[Root])
                     + (IF a = Root THEN Waiting(out, Message("StartCnf", ClassOf[Root])) ELSE 0)
           /\ Stopper = Root => News' = 0 /\ News = 0
           /\ Stops' = Stops - One(kind = "Stop")
                     + (IF a = Stopper THEN Waiting(out, StopMessage) ELSE 0)
           /\ Stopper' = Stopper
<1>1. /\ message[a] = Message(kind, message[a].class)
      /\ message[a].kind = kind
      /\ Hears(a, message[a])
    BY Called
<1>2. \A m : \A s, r \in Actors :
          Copies(m, s, r)' = Copies(m, s, r) - One(r = a /\ message[a] = m)
                                  + (IF s = a THEN Waiting(out, m) ELSE 0)
  <2> SUFFICES ASSUME NEW m, NEW s \in Actors, NEW r \in Actors
               PROVE  Copies(m, s, r)' = Copies(m, s, r) - One(r = a /\ message[a] = m)
                                  + (IF s = a THEN Waiting(out, m) ELSE 0)
      OBVIOUS
  <2> QED
      BY CopiesSaid DEF One
<1>3. \A k, class : message[a] = Message(k, class) <=> kind = k /\ message[a].class = class
  <2>1. \A k, class : message[a] = Message(k, class) => kind = k /\ message[a].class = class
      BY <1>1, MessageFields
  <2> QED
      BY <1>1, <2>1
<1>4. Stopper' = Stopper
    BY DEF Says, Stopper
<1>5. Stopper \in Actors /\ Root \in Actors
    BY StopperIs, LifeCycleAssumption
<1>6. ASSUME NEW b \in Actors
      PROVE  /\ StartReqs(b)' = StartReqs(b) - One(kind = "StartReq" /\ b = a)
                   + (IF Parent(b) = a THEN Waiting(out, Message("StartReq", ClassOf[b])) ELSE 0)
             /\ StopReqs(b)' = StopReqs(b) - One(kind = "StopReq" /\ b = a)
                   + (IF Parent(b) = a THEN Waiting(out, Message("StopReq", ClassOf[b])) ELSE 0)
             /\ StartConfirms(b)' = StartConfirms(b)
                   - One(kind = "PrivStartCnf" /\ Parent(b) = a /\ message[a].class = ClassOf[b])
                   + (IF b = a THEN Waiting(out, Message("PrivStartCnf", ClassOf[b])) ELSE 0)
             /\ StopConfirms(b)' = StopConfirms(b)
                   - One(kind = "PrivStopCnf" /\ Parent(b) = a /\ message[a].class = ClassOf[b])
                   + (IF b = a THEN Waiting(out, Message("PrivStopCnf", ClassOf[b])) ELSE 0)
  <2>1. Parent(b) \in Actors
      BY ParentIs
  <2>2. kind \in {"StartReq", "StopReq"} => message[a].class = ClassOf[a]
      BY <1>1 DEF Hears
  <2>3. One(b = a /\ message[a] = Message("StartReq", ClassOf[b])) = One(kind = "StartReq" /\ b = a)
      BY <1>3, <2>2 DEF One
  <2>4. One(b = a /\ message[a] = Message("StopReq", ClassOf[b])) = One(kind = "StopReq" /\ b = a)
      BY <1>3, <2>2 DEF One
  <2>5. One(Parent(b) = a /\ message[a] = Message("PrivStartCnf", ClassOf[b]))
            = One(kind = "PrivStartCnf" /\ Parent(b) = a /\ message[a].class = ClassOf[b])
      BY <1>3 DEF One
  <2>6. One(Parent(b) = a /\ message[a] = Message("PrivStopCnf", ClassOf[b]))
            = One(kind = "PrivStopCnf" /\ Parent(b) = a /\ message[a].class = ClassOf[b])
      BY <1>3 DEF One
  <2>7. StartReqs(b)' = StartReqs(b) - One(b = a /\ message[a] = Message("StartReq", ClassOf[b]))
                   + (IF Parent(b) = a THEN Waiting(out, Message("StartReq", ClassOf[b])) ELSE 0)
      BY <1>2, <2>1 DEF StartReqs
  <2>8. StopReqs(b)' = StopReqs(b) - One(b = a /\ message[a] = Message("StopReq", ClassOf[b]))
                   + (IF Parent(b) = a THEN Waiting(out, Message("StopReq", ClassOf[b])) ELSE 0)
      BY <1>2, <2>1 DEF StopReqs
  <2>9. StartConfirms(b)' = StartConfirms(b)
                   - One(Parent(b) = a /\ message[a] = Message("PrivStartCnf", ClassOf[b]))
                   + (IF b = a THEN Waiting(out, Message("PrivStartCnf", ClassOf[b])) ELSE 0)
      BY <1>2, <2>1 DEF StartConfirms
  <2>10. StopConfirms(b)' = StopConfirms(b)
                   - One(Parent(b) = a /\ message[a] = Message("PrivStopCnf", ClassOf[b]))
                   + (IF b = a THEN Waiting(out, Message("PrivStopCnf", ClassOf[b])) ELSE 0)
      BY <1>2, <2>1 DEF StopConfirms
  <2> QED
      BY <2>3, <2>4, <2>5, <2>6, <2>7, <2>8, <2>9, <2>10
<1>7. ASSUME Stopper # Root
      PROVE  News' = News - One(kind = "StartCnf" /\ a = Stopper /\ message[a].class = ClassOf[Root])
                 + (IF a = Root THEN Waiting(out, Message("StartCnf", ClassOf[Root])) ELSE 0)
  <2> DEFINE m == Message("StartCnf", ClassOf[Root])
  <2>1. News' = Copies(m, Root, Stopper)' /\ News = Copies(m, Root, Stopper)
      BY <1>4, <1>7 DEF News
  <2>2. PICK u \in Actors : u = Stopper
      BY <1>5
  <2>3. Copies(m, Root, Stopper)' = Copies(m, Root, u)'
      BY <1>4, <2>2 DEF Copies
  <2>4. Copies(m, Root, u)' = Copies(m, Root, u) - One(u = a /\ message[a] = m)
                                  + (IF Root = a THEN Waiting(out, m) ELSE 0)
      BY <1>2, <1>5
  <2>5. One(u = a /\ message[a] = m) = One(kind = "StartCnf" /\ a = Stopper /\ message[a].class = ClassOf[Root])
      BY <1>3, <2>2 DEF One
  <2>6. (IF Root = a THEN Waiting(out, m) ELSE 0) = (IF a = Root THEN Waiting(out, m) ELSE 0)
      OBVIOUS
  <2> HIDE DEF m
  <2> QED
      BY <2>1, <2>2, <2>3, <2>4, <2>5, <2>6 DEF m
<1>8. Stopper = Root => News' = 0 /\ News = 0
    BY <1>4 DEF News
<1>9. Stops' = Stops - One(kind = "Stop") + (IF a = Stopper THEN Waiting(out, StopMessage) ELSE 0)
  <2>1. PICK u \in Actors : u = Stopper
      BY <1>5
  <2>2. Stops' = Copies(StopMessage, u, Root)' /\ Stops = Copies(StopMessage, u, Root)
      BY <1>4, <2>1 DEF Stops, Copies
  <2>3. Copies(StopMessage, u, Root)' = Copies(StopMessage, u, Root) - One(Root = a /\ message[a] = StopMessage)
                                  + (IF u = a THEN Waiting(out, StopMessage) ELSE 0)
      BY <1>2, <1>5
  <2>4. One(Root = a /\ message[a] = StopMessage) = One(kind = "Stop")
      BY <1>1, MessageFields DEF Hears, One
  <2> QED
      BY <2>1, <2>2, <2>3, <2>4
<1> QED
    BY <1>4, <1>6, <1>7, <1>8, <1>9

\* The steps of the ports leave the messages on their way.
LEMMA PortEffect ==
    ASSUME Orderly, TypeOK, Plumbing, NEW a \in Actors, Take(a) \/ PublishNext(a)
    PROVE  /\ \A b \in Actors :
                 /\ StartReqs(b)' = StartReqs(b)
                 /\ StopReqs(b)' = StopReqs(b)
                 /\ b # Root => StartConfirms(b)' = StartConfirms(b)
                 /\ StopConfirms(b)' = StopConfirms(b)
           /\ News' = News
           /\ Stops' = Stops
           /\ Stopper' = Stopper
<1>1. \A m : \A s, r \in Actors :
          Listeners(r, m) = 1 /\ (Sends(a, m) => a = s) => Copies(m, s, r)' = Copies(m, s, r)
    BY CopiesTaken, CopiesPublished
<1>2. Stopper' = Stopper
  <2>1. stopOn' = stopOn
      BY DEF Take, PublishNext
  <2> QED
      BY <2>1 DEF Stopper
<1>3. Root \in Actors /\ Stopper \in Actors
    BY LifeCycleAssumption, StopperIs
<1>4. ASSUME NEW b \in Actors
      PROVE  /\ StartReqs(b)' = StartReqs(b)
             /\ StopReqs(b)' = StopReqs(b)
             /\ b # Root => StartConfirms(b)' = StartConfirms(b)
             /\ StopConfirms(b)' = StopConfirms(b)
  <2>1. Parent(b) \in Actors
      BY ParentIs
  <2>2. \A kind \in Kinds : Message(kind, ClassOf[b]) \in Messages
      BY ClassesOfMessages
  <2>3. StartReqs(b)' = StartReqs(b)
    <3> DEFINE m == Message("StartReq", ClassOf[b])
    <3>1. m \in Messages /\ m.kind = "StartReq" /\ m.class = ClassOf[b]
        BY <2>2, MessageFields DEF Kinds
    <3> HIDE DEF m
    <3>2. Listeners(b, m) = 1
        BY <3>1, OneListener
    <3>3. Sends(a, m) => a = Parent(b)
        BY <3>1 DEF Sends, Orderly
    <3>4. Copies(m, Parent(b), b)' = Copies(m, Parent(b), b)
        BY <1>1, <2>1, <3>2, <3>3
    <3> QED
        BY <3>4 DEF m, StartReqs
  <2>4. StopReqs(b)' = StopReqs(b)
    <3> DEFINE m == Message("StopReq", ClassOf[b])
    <3>1. m \in Messages /\ m.kind = "StopReq" /\ m.class = ClassOf[b]
        BY <2>2, MessageFields DEF Kinds
    <3> HIDE DEF m
    <3>2. Listeners(b, m) = 1
        BY <3>1, OneListener
    <3>3. Sends(a, m) => a = Parent(b)
        BY <3>1 DEF Sends, Orderly
    <3>4. Copies(m, Parent(b), b)' = Copies(m, Parent(b), b)
        BY <1>1, <2>1, <3>2, <3>3
    <3> QED
        BY <3>4 DEF m, StopReqs
  <2>5. b # Root => StartConfirms(b)' = StartConfirms(b)
    <3> SUFFICES ASSUME b # Root
                 PROVE  StartConfirms(b)' = StartConfirms(b)
        OBVIOUS
    <3> DEFINE m == Message("PrivStartCnf", ClassOf[b])
    <3>1. m \in Messages /\ m.kind = "PrivStartCnf" /\ m.class = ClassOf[b]
        BY <2>2, MessageFields DEF Kinds
    <3> HIDE DEF m
    <3>2. b \in Children[Parent(b)]
        BY <2>1, ParentIs
    <3>3. Listeners(Parent(b), m) = 1
        BY <2>1, <3>1, <3>2, OneListener
    <3>4. Sends(a, m) => a = b
        BY <3>1 DEF Sends, Orderly
    <3>5. Copies(m, b, Parent(b))' = Copies(m, b, Parent(b))
        BY <1>1, <2>1, <3>3, <3>4
    <3> QED
        BY <3>5 DEF m, StartConfirms
  <2>6. StopConfirms(b)' = StopConfirms(b)
    <3> DEFINE m == Message("PrivStopCnf", ClassOf[b])
    <3>1. m \in Messages /\ m.kind = "PrivStopCnf" /\ m.class = ClassOf[b]
        BY <2>2, MessageFields DEF Kinds
    <3> HIDE DEF m
    <3>2. Listeners(Parent(b), m) = 1
        BY <2>1, <3>1, OneListener
    <3>3. Sends(a, m) => a = b
        BY <3>1 DEF Sends, Orderly
    <3>4. Copies(m, b, Parent(b))' = Copies(m, b, Parent(b))
        BY <1>1, <2>1, <3>2, <3>3
    <3> QED
        BY <3>4 DEF m, StopConfirms
  <2> QED
      BY <2>3, <2>4, <2>5, <2>6
<1>5. PICK u \in Actors : u = Stopper
    BY <1>3
<1>6. News' = News
  <2>1. CASE Stopper = Root
      BY <1>2, <2>1 DEF News
  <2>2. CASE Stopper # Root
    <3> DEFINE m == Message("StartCnf", ClassOf[Root])
    <3>1. m \in Messages /\ m.kind = "StartCnf" /\ m.class = ClassOf[Root]
        BY <1>3, ClassesOfMessages, MessageFields DEF Kinds
    <3> HIDE DEF m
    <3>2. <<u, ClassOf[Root]>> \in stopOn
        BY <1>5, <2>2, StopperIs DEF Stopper
    <3>3. ClassOf[u] # ClassOf[Root]
        BY <1>3, <1>5, <2>2 DEF Orderly
    <3>4. Listeners(u, m) = 1
        BY <3>1, <3>2, <3>3, OneListener
    <3>5. Sends(a, m) => a = Root
        BY <1>3, <3>1 DEF Sends, Orderly
    <3>6. Copies(m, Root, u)' = Copies(m, Root, u)
        BY <1>1, <1>3, <3>4, <3>5
    <3>7. News' = Copies(m, Root, u)' /\ News = Copies(m, Root, u)
        BY <1>2, <1>5, <2>2 DEF m, News, Copies
    <3> QED
        BY <3>6, <3>7
  <2> QED
      BY <2>1, <2>2
<1>7. Stops' = Stops
  <2>1. Listeners(Root, StopMessage) = 1
      BY <1>3, StopIsMessage, MessageFields, OneListener
  <2>2. Sends(a, StopMessage) => a = u
      BY <1>5, StopperIs, MessageFields DEF Sends
  <2>3. Copies(StopMessage, u, Root)' = Copies(StopMessage, u, Root)
      BY <1>1, <1>3, <2>1, <2>2
  <2>4. Stops' = Copies(StopMessage, u, Root)' /\ Stops = Copies(StopMessage, u, Root)
      BY <1>2, <1>5 DEF Stops, Copies
  <2> QED
      BY <2>3, <2>4
<1> QED
    BY <1>2, <1>4, <1>6, <1>7

-----------------------------------------------------------------------------
(***************************************************************************)
(* The phases of the actors.  The model does not record how far a request  *)
(* has come: the invariant says that some assignment of phases to actors   *)
(* explains everything that is on its way, and every state and counter.    *)
(***************************************************************************)

Phases == {"fresh", "startAsked", "starting", "startSent", "started",
           "stopAsked", "stopping", "stopSent", "stopped"}
NotStarted == {"fresh", "startAsked", "starting"}
AllStopped == {"stopSent", "stopped"}

StateOf(x) ==
    IF x \in NotStarted THEN "CTOR_FINISHED"
    ELSE IF x \in AllStopped THEN "STOPPED" ELSE "STARTED"

\* The phase y of a child whose parent is in phase x.
InStep(x, y) ==
    /\ x \in {"fresh", "startAsked"} => y = "fresh"
    /\ x = "starting" => y \in {"startAsked", "starting", "startSent", "started"}
    /\ x \in {"startSent", "started", "stopAsked"} => y = "started"
    /\ x = "stopping" => y \in {"stopAsked", "stopping", "stopSent", "stopped"}
    /\ x \in AllStopped => y = "stopped"

\* The root confirms its start to nobody.
Tree(ph) ==
    /\ ph \in [Actors -> Phases]
    /\ \A p \in Actors : \A c \in Children[p] : InStep(ph[p], ph[c])
    /\ \A a \in Actors : ph[a] \in {"starting", "stopping"} => Children[a] # {}
    /\ ph[Root] # "startSent"

Tracks(ph) == \A a \in Actors : state[a] = StateOf(ph[a])

Mail(ph) ==
    /\ \A a \in Actors :
           /\ StartReqs(a) = One(ph[a] = "startAsked")
           /\ StopReqs(a) = One(ph[a] = "stopAsked")
           /\ a # Root => StartConfirms(a) = One(ph[a] = "startSent")
           /\ StopConfirms(a) = One(ph[a] = "stopSent")
    /\ News + Stops = One(stopOn # {} /\ ph[Root] = "started")

In(p, ph, x) == {c \in Children[p] : ph[c] = x}

TallyOf(p, ph) ==
    /\ ph[p] = "starting" => childrenCnfCount[p] = Cardinality(In(p, ph, "started"))
    /\ ph[p] = "stopping" => childrenCnfCount[p] = Cardinality(In(p, ph, "stopped"))
    /\ ph[p] \notin {"starting", "stopping"} => childrenCnfCount[p] = 0

Tally(ph) == \A p \in Actors : TallyOf(p, ph)

Calendar(ph) ==
    /\ mpc \in {"init", "waitForIdle", "request"} <=> ph[Root] = "fresh"
    /\ mpc # "init" /\ ~running => ph[Root] = "stopped"
    /\ mpc \in {"stop", "returned"} => ph[Root] = "stopped"

InPhase(ph) == Tree(ph) /\ Tracks(ph) /\ Mail(ph) /\ Tally(ph) /\ Calendar(ph)

LEMMA FamiliesAreNat ==
    ASSUME Orderly, TypeOK
    PROVE  /\ \A a \in Actors : /\ StartReqs(a) \in Nat /\ StopReqs(a) \in Nat
                                /\ StartConfirms(a) \in Nat /\ StopConfirms(a) \in Nat
           /\ News \in Nat /\ Stops \in Nat
<1>1. \A a \in Actors : Parent(a) \in Actors
    BY ParentIs
<1>2. \A m : \A s, r \in Actors : Copies(m, s, r) \in Nat
    BY CopiesIs
<1> QED
    BY <1>1, <1>2, StopperIs, LifeCycleAssumption
    DEF StartReqs, StopReqs, StartConfirms, StopConfirms, News, Stops

\* An actor that gets a request is the one that it was on its way to, etc.
LEMMA Expected ==
    ASSUME Orderly, TypeOK, Plumbing, NEW ph, InPhase(ph), NEW a \in Actors, NEW kind,
           Calls(a, kind)
    PROVE  /\ kind = "StartReq" => ph[a] = "startAsked"
           /\ kind = "StopReq" => ph[a] = "stopAsked"
           /\ kind = "PrivStartCnf" =>
                 \E c \in Children[a] : ClassOf[c] = message[a].class /\ ph[c] = "startSent"
           /\ kind = "PrivStopCnf" =>
                 \E c \in Actors : /\ ClassOf[c] = message[a].class /\ Parent(c) = a
                                   /\ ph[c] = "stopSent"
           /\ kind = "Stop" => a = Root /\ stopOn # {} /\ ph[Root] = "started"
<1>1. /\ left[a] = 1 /\ Hears(a, message[a])
      /\ message[a] = Message(kind, message[a].class) /\ message[a].kind = kind
    BY Called
<1>2. \A s \in Actors : Copies(message[a], s, a) # 0
  <2> SUFFICES ASSUME NEW s \in Actors
               PROVE  Copies(message[a], s, a) # 0
      OBVIOUS
  <2>1. Waiting(outbox[s], message[a]) \in Nat /\ Waiting(inbox[a], message[a]) \in Nat
      BY CopiesIs
  <2> QED
      BY <1>1, <2>1 DEF Copies
<1>3. Parent(a) \in Actors
    BY ParentIs
<1>4. ASSUME kind \in {"StartReq", "StopReq"}
      PROVE  message[a] = Message(kind, ClassOf[a])
    BY <1>1, <1>4 DEF Hears
<1>5. kind = "StartReq" => ph[a] = "startAsked"
    BY <1>2, <1>3, <1>4 DEF InPhase, Mail, StartReqs, One
<1>6. kind = "StopReq" => ph[a] = "stopAsked"
    BY <1>2, <1>3, <1>4 DEF InPhase, Mail, StopReqs, One
<1>7. ASSUME kind = "PrivStartCnf"
      PROVE  \E c \in Children[a] : ClassOf[c] = message[a].class /\ ph[c] = "startSent"
  <2>1. PICK c \in Children[a] : ClassOf[c] = message[a].class
      BY <1>1, <1>7 DEF Hears
  <2>2. c \in Actors /\ c # Root /\ Parent(c) = a
      BY ChildIs
  <2>3. StartConfirms(c) # 0
      BY <1>1, <1>2, <1>7, <2>1, <2>2 DEF StartConfirms
  <2>4. ph[c] = "startSent"
      BY <2>2, <2>3 DEF InPhase, Mail, One
  <2> QED
      BY <2>1, <2>4
<1>8. ASSUME kind = "PrivStopCnf"
      PROVE  \E c \in Actors : /\ ClassOf[c] = message[a].class /\ Parent(c) = a
                               /\ ph[c] = "stopSent"
  <2>1. PICK c \in Actors : ClassOf[c] = message[a].class /\ Parent(c) = a
      BY <1>1, <1>8 DEF Hears
  <2>2. StopConfirms(c) # 0
      BY <1>1, <1>2, <1>8, <2>1 DEF StopConfirms
  <2>3. ph[c] = "stopSent"
      BY <2>1, <2>2 DEF InPhase, Mail, One
  <2> QED
      BY <2>1, <2>3
<1>9. ASSUME kind = "Stop"
      PROVE  a = Root /\ stopOn # {} /\ ph[Root] = "started"
  <2>1. a = Root /\ message[a] = StopMessage
      BY <1>1, <1>9 DEF Hears
  <2>2. Stops # 0 /\ Stops \in Nat /\ News \in Nat
      BY <1>2, <2>1, StopperIs, FamiliesAreNat DEF Stops
  <2>3. News + Stops # 0
      BY <2>2
  <2> QED
      BY <2>1, <2>3 DEF InPhase, Mail, One
<1> QED
    BY <1>5, <1>6, <1>7, <1>8, <1>9

-----------------------------------------------------------------------------
(* How the phases of a tree may change. *)

Sent(a) == IF a = Root THEN "started" ELSE "startSent"

\* The phases when a has asked its children.
AskingPhases(ph, a, x, y) ==
    [b \in Actors |-> IF b = a THEN x ELSE IF b \in Children[a] THEN y ELSE ph[b]]

LEMMA TreeAsked ==
    ASSUME NEW ph, Tree(ph), NEW a \in Actors, Children[a] # {}, NEW x, NEW y,
           \/ ph[a] = "startAsked" /\ x = "starting" /\ y = "startAsked"
           \/ ph[a] = "stopAsked" /\ x = "stopping" /\ y = "stopAsked"
    PROVE  Tree(AskingPhases(ph, a, x, y))
<1> DEFINE ps == [b \in Actors |-> IF b = a THEN x ELSE IF b \in Children[a] THEN y ELSE ph[b]]
<1>1. a \notin Children[a]
    BY DEF Tree, InStep
<1>2. ps \in [Actors -> Phases]
    BY DEF Tree, Phases
<1>3. ASSUME NEW p \in Actors, NEW c \in Children[p]
      PROVE  InStep(ps[p], ps[c])
  <2>1. c \in Actors /\ Parent(c) = p /\ c # Root
      BY <1>3, ChildIs
  <2>2. InStep(ph[p], ph[c])
      BY <1>3 DEF Tree
  <2>3. c \in Children[a] <=> p = a
      BY <1>3, <2>1, ChildIs
  <2>4. CASE p = a
      BY <1>1, <2>1, <2>3, <2>4 DEF InStep, AllStopped
  <2>5. CASE p # a /\ c = a
    <3>1. ps[c] = x /\ ph[p] \in {"starting", "stopping"}
        BY <2>1, <2>2, <2>5 DEF InStep, AllStopped, Tree, Phases
    <3>2. p \notin Children[a]
      <4> SUFFICES ASSUME p \in Children[a]
                   PROVE  FALSE
          OBVIOUS
      <4>1. InStep(ph[a], ph[p])
          BY DEF Tree
      <4> QED
          BY <3>1, <4>1 DEF InStep
    <3>3. ps[p] = ph[p]
        BY <2>5, <3>2
    <3> QED
        BY <2>2, <2>5, <3>1, <3>3 DEF InStep, AllStopped
  <2>6. CASE p # a /\ c # a /\ p \in Children[a]
    <3>1. InStep(ph[a], ph[p])
        BY <2>6 DEF Tree
    <3>2. ps[p] = y /\ ps[c] = ph[c]
        BY <2>1, <2>3, <2>6
    <3> QED
        BY <2>2, <3>1, <3>2 DEF InStep, AllStopped
  <2>7. CASE p # a /\ c # a /\ p \notin Children[a]
      BY <2>1, <2>2, <2>3, <2>7
  <2> QED
      BY <2>4, <2>5, <2>6, <2>7
<1>4. \A b \in Actors : ps[b] \in {"starting", "stopping"} => Children[b] # {}
    BY DEF Tree
<1>5. Root \in Actors /\ ps[Root] # "startSent"
    BY LifeCycleAssumption DEF Tree
<1>6. Tree(ps)
    BY <1>2, <1>3, <1>4, <1>5 DEF Tree
<1> QED
    BY <1>6 DEF AskingPhases

\* One actor that goes on without its children: it has been counted, or it
\* confirms.
LEMMA TreeStep ==
    ASSUME NEW ph, Tree(ph), NEW a \in Actors, NEW x,
           \/ ph[a] = "startSent" /\ x = "started"
           \/ ph[a] = "stopSent" /\ x = "stopped"
           \/ /\ ph[a] \in {"startAsked", "starting"}
              /\ x = Sent(a)
              /\ \A c \in Children[a] : ph[c] = "started"
           \/ /\ ph[a] \in {"stopAsked", "stopping"}
              /\ x = "stopSent"
              /\ \A c \in Children[a] : ph[c] = "stopped"
           \/ a = Root /\ ph[a] = "fresh" /\ x = "startAsked"
           \/ a = Root /\ ph[a] = "started" /\ x = "stopAsked"
    PROVE  Tree([ph EXCEPT ![a] = x])
<1> DEFINE ps == [ph EXCEPT ![a] = x]
<1>1. /\ ps \in [Actors -> Phases]
      /\ ps[a] = x
      /\ \A b \in Actors \ {a} : ps[b] = ph[b]
      /\ ph[a] \in Phases
    BY DEF Tree, Phases, Sent
<1>2. a \notin Children[a]
  <2> SUFFICES ASSUME a \in Children[a]
               PROVE  FALSE
      OBVIOUS
  <2>1. {a} \in (SUBSET Actors) \ {{}} /\ a \in Parents(a)
      BY DEF Parents
  <2>2. \E b \in {a} : Parents(b) \cap {a} = {}
      BY <2>1, LifeCycleAssumption
  <2> QED
      BY <2>1, <2>2
<1>3. ASSUME NEW p \in Actors, NEW c \in Children[p]
      PROVE  InStep(ps[p], ps[c])
  <2>1. c \in Actors /\ Parent(c) = p /\ c # Root
      BY <1>3, ChildIs
  <2>2. InStep(ph[p], ph[c])
      BY <1>3 DEF Tree
  <2>3. CASE p = a
    <3>1. ps[c] = ph[c]
        BY <1>1, <1>2, <2>1, <2>3
    <3>2. InStep(x, ph[c])
        BY <2>2, <2>3 DEF InStep, AllStopped, Sent
    <3> QED
        BY <1>1, <2>3, <3>1, <3>2
  <2>4. CASE c = a
    <3>1. p # a /\ ps[p] = ph[p] /\ a # Root
        BY <1>1, <1>2, <2>1, <2>4
    <3>2. InStep(ph[p], x)
        BY <2>2, <2>4, <3>1 DEF InStep, AllStopped, Sent, Tree, Phases
    <3> QED
        BY <1>1, <2>4, <3>1, <3>2
  <2>5. CASE p # a /\ c # a
      BY <1>1, <2>1, <2>2, <2>5
  <2> QED
      BY <2>3, <2>4, <2>5
<1>4. \A b \in Actors : ps[b] \in {"starting", "stopping"} => Children[b] # {}
    BY <1>1 DEF Tree, Sent
<1>5. ps[Root] # "startSent"
    BY <1>1, LifeCycleAssumption DEF Tree, Sent
<1> QED
    BY <1>1, <1>3, <1>4, <1>5 DEF Tree

LEMMA OneMoreIn ==
    ASSUME NEW ph, ph \in [Actors -> Phases], NEW a \in Actors, NEW c \in Children[a],
           NEW x, ph[c] # x
    PROVE  /\ Cardinality(In(a, [ph EXCEPT ![c] = x], x)) = Cardinality(In(a, ph, x)) + 1
           /\ Cardinality(In(a, ph, x)) \in Nat
           /\ Cardinality(In(a, ph, x)) + 1 = Cardinality(Children[a]) <=>
                 \A d \in Children[a] : [ph EXCEPT ![c] = x][d] = x
<1> DEFINE S == In(a, ph, x)
           T == In(a, [ph EXCEPT ![c] = x], x)
<1>1. Children[a] \subseteq Actors /\ IsFiniteSet(Children[a])
    BY ChildIs, ChildrenFinite
<1>2. T = S \cup {c} /\ c \notin S
    BY <1>1 DEF In
<1>3. S \in SUBSET Children[a] /\ T \in SUBSET Children[a]
    BY DEF In
<1>4. IsFiniteSet(S)
    BY <1>1, <1>3, FS_Subset
<1>5. Cardinality(S) \in Nat
    BY <1>4, FS_CardinalityType
<1>6. Cardinality(T) = Cardinality(S) + 1
    BY <1>2, <1>4, FS_AddElement
<1>7. Cardinality(T) = Cardinality(Children[a]) <=> T = Children[a]
    BY <1>1, <1>3, FS_Subset
<1>8. T = Children[a] <=> \A d \in Children[a] : [ph EXCEPT ![c] = x][d] = x
    BY DEF In
<1> QED
    BY <1>5, <1>6, <1>7, <1>8

-----------------------------------------------------------------------------
(* The steps of the actors. *)

LEMMA ForwardStep ==
    ASSUME Orderly, TypeOK, Plumbing, NEW ph, InPhase(ph),
           NEW a \in Actors, Children[a] # {}, NEW kind, NEW x, NEW y,
           \/ kind = "StartReq" /\ x = "starting" /\ y = "startAsked"
           \/ kind = "StopReq" /\ x = "stopping" /\ y = "stopAsked",
           Calls(a, kind), Forward(a, kind),
           UNCHANGED <<stopOn, state, childrenCnfCount, message, inbox, listening, running, mpc>>,
           NEW ps, ps = [b \in Actors |-> IF b = a THEN x ELSE IF b \in Children[a] THEN y ELSE ph[b]]
    PROVE  Plumbing' /\ InPhase(ps)'
<1>1. kind \in Kinds
    BY DEF Kinds
<1>2. PICK out \in Seq(Messages) :
          /\ outbox' = [outbox EXCEPT ![a] = out]
          /\ \A m : Waiting(out, m) = One(\E c \in Children[a] : m = Message(kind, ClassOf[c]))
    BY <1>1, ForwardSays
<1>3. Says(a, out)
    BY <1>2, Called DEF Says
<1>4. Plumbing'
  <2>1. ASSUME NEW m \in Messages, Waiting(out, m) # 0
        PROVE  Sends(a, m)
    <3>1. PICK c \in Children[a] : m = Message(kind, ClassOf[c])
        BY <1>2, <2>1 DEF One
    <3>2. m.kind = kind /\ m.class = ClassOf[c]
        BY <3>1, MessageFields
    <3> QED
        BY <3>2, ChildIs DEF Sends
  <2> QED
      BY <1>3, <2>1, SaidPlumbing
<1>5. ph[a] = IF kind = "StartReq" THEN "startAsked" ELSE "stopAsked"
    BY Expected
<1>6. Tree(ps)
  <2>1. \/ ph[a] = "startAsked" /\ x = "starting" /\ y = "startAsked"
        \/ ph[a] = "stopAsked" /\ x = "stopping" /\ y = "stopAsked"
      BY <1>5
  <2>2. Tree(ph)
      BY DEF InPhase
  <2>3. Tree(AskingPhases(ph, a, x, y))
      BY <2>1, <2>2, TreeAsked
  <2> QED
      BY <2>3 DEF AskingPhases
<1>7. ph \in [Actors -> Phases] /\ ps \in [Actors -> Phases]
    BY <1>6 DEF InPhase, Tree
<1>8. \A b \in Actors : b \in Children[a] <=> b # Root /\ Parent(b) = a
    BY ParentIs
<1>9. \A b \in Actors : InStep(ph[Parent(b)], ph[b]) \/ b = Root
    BY ParentIs DEF InPhase, Tree
<1>10. /\ a \notin Children[a]
       /\ \A b \in Children[a] : ph[b] = IF kind = "StartReq" THEN "fresh" ELSE "started"
    BY <1>5, <1>8, <1>9, ChildIs DEF InStep, AllStopped
<1>11. /\ ps[a] = x
       /\ \A b \in Children[a] : b \in Actors /\ ps[b] = y
       /\ \A b \in Actors : b # a /\ b \notin Children[a] => ps[b] = ph[b]
    BY <1>10, ChildIs
<1>12. Tracks(ps)'
  <2> SUFFICES ASSUME NEW b \in Actors
               PROVE  state[b] = StateOf(ps[b])
      BY DEF Tracks
  <2>1. state[b] = StateOf(ph[b])
      BY DEF InPhase, Tracks
  <2> QED
      BY <1>5, <1>10, <1>11, <2>1 DEF StateOf, NotStarted, AllStopped
<1>13. Mail(ps)'
  <2>1. \A b \in Actors : \A k :
            Waiting(out, Message(k, ClassOf[b])) = One(k = kind /\ b \in Children[a])
    <3> SUFFICES ASSUME NEW b \in Actors, NEW k
                 PROVE  Waiting(out, Message(k, ClassOf[b])) = One(k = kind /\ b \in Children[a])
        OBVIOUS
    <3>1. (\E c \in Children[a] : Message(k, ClassOf[b]) = Message(kind, ClassOf[c]))
              <=> k = kind /\ b \in Children[a]
        BY MessageFields, ChildIs DEF Orderly
    <3> QED
        BY <1>2, <3>1 DEF One
  <2>2. Waiting(out, StopMessage) = 0
    <3>1. ~ \E c \in Children[a] : StopMessage = Message(kind, ClassOf[c])
        BY MessageFields
    <3> QED
        BY <1>2, <3>1 DEF One
  <2>3. Root \in Actors /\ Root \notin Children[a]
      BY <1>8, LifeCycleAssumption
  <2>4. ASSUME NEW b \in Actors
        PROVE  /\ StartReqs(b)' = One(ps[b] = "startAsked")
               /\ StopReqs(b)' = One(ps[b] = "stopAsked")
               /\ b # Root => StartConfirms(b)' = One(ps[b] = "startSent")
               /\ StopConfirms(b)' = One(ps[b] = "stopSent")
    <3>1. /\ StartReqs(b) = One(ph[b] = "startAsked")
          /\ StopReqs(b) = One(ph[b] = "stopAsked")
          /\ b # Root => StartConfirms(b) = One(ph[b] = "startSent")
          /\ StopConfirms(b) = One(ph[b] = "stopSent")
        BY DEF InPhase, Mail
    <3>2. /\ StartReqs(b)' = StartReqs(b) - One(kind = "StartReq" /\ b = a)
                + (IF Parent(b) = a THEN One("StartReq" = kind /\ b \in Children[a]) ELSE 0)
          /\ StopReqs(b)' = StopReqs(b) - One(kind = "StopReq" /\ b = a)
                + (IF Parent(b) = a THEN One("StopReq" = kind /\ b \in Children[a]) ELSE 0)
          /\ StartConfirms(b)' = StartConfirms(b)
          /\ StopConfirms(b)' = StopConfirms(b)
      <4>1. /\ StartConfirms(b) \in Nat /\ StopConfirms(b) \in Nat
            /\ StartReqs(b) \in Nat /\ StopReqs(b) \in Nat
          BY FamiliesAreNat
      <4>2. /\ StartReqs(b)' = StartReqs(b) - One(kind = "StartReq" /\ b = a)
                   + (IF Parent(b) = a THEN Waiting(out, Message("StartReq", ClassOf[b])) ELSE 0)
            /\ StopReqs(b)' = StopReqs(b) - One(kind = "StopReq" /\ b = a)
                   + (IF Parent(b) = a THEN Waiting(out, Message("StopReq", ClassOf[b])) ELSE 0)
            /\ StartConfirms(b)' = StartConfirms(b)
                   - One(kind = "PrivStartCnf" /\ Parent(b) = a /\ message[a].class = ClassOf[b])
                   + (IF b = a THEN Waiting(out, Message("PrivStartCnf", ClassOf[b])) ELSE 0)
            /\ StopConfirms(b)' = StopConfirms(b)
                   - One(kind = "PrivStopCnf" /\ Parent(b) = a /\ message[a].class = ClassOf[b])
                   + (IF b = a THEN Waiting(out, Message("PrivStopCnf", ClassOf[b])) ELSE 0)
          BY <1>3, Effect
      <4>3. /\ Waiting(out, Message("StartReq", ClassOf[b])) = One("StartReq" = kind /\ b \in Children[a])
            /\ Waiting(out, Message("StopReq", ClassOf[b])) = One("StopReq" = kind /\ b \in Children[a])
          BY <2>1
      <4>4. /\ Waiting(out, Message("PrivStartCnf", ClassOf[b])) = 0
            /\ Waiting(out, Message("PrivStopCnf", ClassOf[b])) = 0
          BY <2>1 DEF One
      <4> QED
          BY <4>1, <4>2, <4>3, <4>4 DEF One
    <3>3. CASE b = a
        BY <1>5, <1>10, <1>11, <3>1, <3>2, <3>3 DEF One
    <3>4. CASE b \in Children[a]
        BY <1>8, <1>10, <1>11, <3>1, <3>2, <3>4 DEF One
    <3>5. CASE b # a /\ b \notin Children[a]
        BY <1>11, <3>1, <3>2, <3>5 DEF One
    <3> QED
        BY <3>3, <3>4, <3>5
  <2>5. News' + Stops' = News + Stops
    <3>1. Waiting(out, Message("StartCnf", ClassOf[Root])) = 0
        BY <2>1, <2>3 DEF One
    <3>2. News \in Nat /\ Stops \in Nat
        BY FamiliesAreNat
    <3> QED
        BY <1>3, <2>2, <3>1, <3>2, Effect DEF One
  <2>6. ps[Root] = "started" <=> ph[Root] = "started"
      BY <1>5, <1>11, <2>3
  <2>7. News + Stops = One(stopOn # {} /\ ph[Root] = "started")
      BY DEF InPhase, Mail
  <2>8. News' + Stops' = One(stopOn' # {} /\ ps[Root] = "started")
      BY <2>5, <2>6, <2>7 DEF One
  <2> QED
      BY <2>4, <2>8 DEF Mail
<1>14. Tally(ps)'
  <2> SUFFICES ASSUME NEW p \in Actors
               PROVE  /\ ps[p] = "starting" => childrenCnfCount[p] = Cardinality(In(p, ps, "started"))
                      /\ ps[p] = "stopping" => childrenCnfCount[p] = Cardinality(In(p, ps, "stopped"))
                      /\ ps[p] \notin {"starting", "stopping"} => childrenCnfCount[p] = 0
      BY DEF Tally, TallyOf
  <2>1. /\ ph[p] = "starting" => childrenCnfCount[p] = Cardinality(In(p, ph, "started"))
        /\ ph[p] = "stopping" => childrenCnfCount[p] = Cardinality(In(p, ph, "stopped"))
        /\ ph[p] \notin {"starting", "stopping"} => childrenCnfCount[p] = 0
      BY DEF InPhase, Tally, TallyOf
  <2>2. CASE p = a
    <3>1. childrenCnfCount[p] = 0
        BY <1>5, <2>1, <2>2
    <3>2. In(p, ps, "started") = {} \/ kind = "StopReq"
        BY <1>11, <2>2 DEF In
    <3>3. In(p, ps, "stopped") = {}
        BY <1>11, <2>2 DEF In
    <3> QED
        BY <1>11, <2>2, <3>1, <3>2, <3>3, FS_EmptySet
  <2>3. CASE p \in Children[a]
      BY <1>10, <1>11, <2>1, <2>3
  <2>4. CASE p # a /\ p \notin Children[a]
    <3>1. \A c \in Children[p] : c \notin Children[a]
        BY <2>4, ChildIs
    <3>2. \A c \in Children[p] : (ps[c] = "started" <=> ph[c] = "started")
                               /\ (ps[c] = "stopped" <=> ph[c] = "stopped")
      <4> SUFFICES ASSUME NEW c \in Children[p]
                   PROVE  /\ ps[c] = "started" <=> ph[c] = "started"
                          /\ ps[c] = "stopped" <=> ph[c] = "stopped"
          OBVIOUS
      <4>1. c \in Actors
          BY ChildIs
      <4> QED
          BY <1>5, <1>11, <3>1, <4>1
    <3>3. In(p, ps, "started") = In(p, ph, "started") /\ In(p, ps, "stopped") = In(p, ph, "stopped")
        BY <3>2 DEF In
    <3> QED
        BY <1>11, <2>1, <2>4, <3>3
  <2> QED
      BY <2>2, <2>3, <2>4
<1>15. Calendar(ps)'
  <2>1. Root \in Actors /\ Root \notin Children[a]
      BY <1>8, LifeCycleAssumption
  <2>2. Calendar(ph)
      BY DEF InPhase
  <2>3. /\ ps[Root] = "fresh" <=> ph[Root] = "fresh"
        /\ ps[Root] = "stopped" <=> ph[Root] = "stopped"
      BY <1>5, <1>11, <2>1
  <2> QED
      BY <2>2, <2>3 DEF Calendar
<1> QED
    BY <1>4, <1>6, <1>12, <1>13, <1>14, <1>15 DEF InPhase, Tree

\* What is on its way when a callback has used up its message and said nothing
\* yet; the request that the actor is answering belongs to no phase.
After(kind, a, ph) ==
    /\ \A b \in Actors :
           /\ StartReqs(b) - One(kind = "StartReq" /\ b = a) = One(ph[b] = "startAsked" /\ b # a)
           /\ StopReqs(b) - One(kind = "StopReq" /\ b = a) = One(ph[b] = "stopAsked" /\ b # a)
           /\ b # Root =>
                 StartConfirms(b)
                     - One(kind = "PrivStartCnf" /\ Parent(b) = a /\ message[a].class = ClassOf[b])
                     = One(ph[b] = "startSent")
           /\ StopConfirms(b)
                  - One(kind = "PrivStopCnf" /\ Parent(b) = a /\ message[a].class = ClassOf[b])
                  = One(ph[b] = "stopSent")
    /\ News + Stops = One(stopOn # {} /\ ph[Root] = "started")

LEMMA RequestUsed ==
    ASSUME Orderly, TypeOK, Plumbing, NEW ph, InPhase(ph), NEW a \in Actors,
           NEW kind \in {"StartReq", "StopReq"}, Calls(a, kind)
    PROVE  After(kind, a, ph)
<1>1. /\ kind = "StartReq" => ph[a] = "startAsked"
      /\ kind = "StopReq" => ph[a] = "stopAsked"
    BY Expected
<1>2. Mail(ph)
    BY DEF InPhase
<1>3. \A b \in Actors :
           /\ StartReqs(b) - One(kind = "StartReq" /\ b = a) = One(ph[b] = "startAsked" /\ b # a)
           /\ StopReqs(b) - One(kind = "StopReq" /\ b = a) = One(ph[b] = "stopAsked" /\ b # a)
    BY <1>1, <1>2 DEF Mail, One
<1>4. ASSUME NEW b \in Actors
      PROVE  /\ b # Root =>
                 StartConfirms(b)
                     - One(kind = "PrivStartCnf" /\ Parent(b) = a /\ message[a].class = ClassOf[b])
                     = One(ph[b] = "startSent")
             /\ StopConfirms(b)
                  - One(kind = "PrivStopCnf" /\ Parent(b) = a /\ message[a].class = ClassOf[b])
                  = One(ph[b] = "stopSent")
    BY <1>2 DEF Mail, One
<1> QED
    BY <1>2, <1>3, <1>4 DEF After, Mail

LEMMA ConfirmUsed ==
    ASSUME Orderly, TypeOK, Plumbing, NEW ph, InPhase(ph), NEW a \in Actors,
           NEW kind, Calls(a, kind), NEW c \in Actors, NEW x,
           message[a].class = ClassOf[c], Parent(c) = a,
           \/ kind = "PrivStartCnf" /\ ph[c] = "startSent" /\ x = "started"
           \/ kind = "PrivStopCnf" /\ ph[c] = "stopSent" /\ x = "stopped",
           ph[a] \notin {"startAsked", "stopAsked"}
    PROVE  After(kind, a, [ph EXCEPT ![c] = x])
<1> DEFINE ps == [ph EXCEPT ![c] = x]
<1>1. Mail(ph) /\ Tree(ph)
    BY DEF InPhase
<1>2. ps[c] = x /\ \A b \in Actors \ {c} : ps[b] = ph[b]
    BY <1>1 DEF Tree
<1>3. kind = "PrivStartCnf" => c # Root
    BY <1>1 DEF Tree
<1>4. \A b \in Actors : (Parent(b) = a /\ message[a].class = ClassOf[b]) <=> b = c
    BY DEF Orderly
<1> HIDE DEF ps
<1>5. \A b \in Actors :
           /\ StartReqs(b) - One(kind = "StartReq" /\ b = a) = One(ps[b] = "startAsked" /\ b # a)
           /\ StopReqs(b) - One(kind = "StopReq" /\ b = a) = One(ps[b] = "stopAsked" /\ b # a)
  <2> SUFFICES ASSUME NEW b \in Actors
               PROVE  /\ StartReqs(b) - One(kind = "StartReq" /\ b = a) = One(ps[b] = "startAsked" /\ b # a)
                      /\ StopReqs(b) - One(kind = "StopReq" /\ b = a) = One(ps[b] = "stopAsked" /\ b # a)
      OBVIOUS
  <2>1. StartReqs(b) = One(ph[b] = "startAsked") /\ StopReqs(b) = One(ph[b] = "stopAsked")
      BY <1>1 DEF Mail
  <2>2. /\ ps[b] = "startAsked" <=> ph[b] = "startAsked"
        /\ ps[b] = "stopAsked" <=> ph[b] = "stopAsked"
      BY <1>2
  <2> QED
      BY <2>1, <2>2 DEF One
<1>6. ASSUME NEW b \in Actors
      PROVE  /\ b # Root =>
                 StartConfirms(b)
                     - One(kind = "PrivStartCnf" /\ Parent(b) = a /\ message[a].class = ClassOf[b])
                     = One(ps[b] = "startSent")
             /\ StopConfirms(b)
                  - One(kind = "PrivStopCnf" /\ Parent(b) = a /\ message[a].class = ClassOf[b])
                  = One(ps[b] = "stopSent")
  <2>1. /\ b # Root => StartConfirms(b) = One(ph[b] = "startSent")
        /\ StopConfirms(b) = One(ph[b] = "stopSent")
      BY <1>1 DEF Mail
  <2>2. CASE b = c
      BY <1>2, <1>4, <2>1, <2>2 DEF One
  <2>3. CASE b # c
      BY <1>2, <1>4, <2>1, <2>3 DEF One
  <2> QED
      BY <2>2, <2>3
<1>7. News + Stops = One(stopOn # {} /\ ps[Root] = "started")
  <2>1. ps[Root] = "started" <=> ph[Root] = "started"
      BY <1>2, <1>3, LifeCycleAssumption
  <2> QED
      BY <1>1, <2>1 DEF Mail, One
<1>8. After(kind, a, ps)
    BY <1>5, <1>6, <1>7 DEF After
<1> QED
    BY <1>8 DEF ps

\* A callback that says nothing.
LEMMA SilentMail ==
    ASSUME Orderly, TypeOK, Plumbing, NEW a \in Actors, NEW kind, Calls(a, kind),
           kind \notin {"Stop", "StartCnf"},
           NEW out, Says(a, out), \A m : Waiting(out, m) = One(FALSE),
           NEW ph, After(kind, a, ph), ph[a] \notin {"startAsked", "stopAsked"}
    PROVE  Mail(ph)'
<1>1. \A m : Waiting(out, m) = 0
    BY DEF One
<1>2. stopOn' = stopOn
    BY DEF Says
<1>3. ASSUME NEW b \in Actors
      PROVE  /\ StartReqs(b)' = One(ph[b] = "startAsked")
             /\ StopReqs(b)' = One(ph[b] = "stopAsked")
             /\ b # Root => StartConfirms(b)' = One(ph[b] = "startSent")
             /\ StopConfirms(b)' = One(ph[b] = "stopSent")
  <2>1. /\ StartReqs(b)' = StartReqs(b) - One(kind = "StartReq" /\ b = a)
        /\ StopReqs(b)' = StopReqs(b) - One(kind = "StopReq" /\ b = a)
        /\ StartConfirms(b)' = StartConfirms(b)
               - One(kind = "PrivStartCnf" /\ Parent(b) = a /\ message[a].class = ClassOf[b])
        /\ StopConfirms(b)' = StopConfirms(b)
               - One(kind = "PrivStopCnf" /\ Parent(b) = a /\ message[a].class = ClassOf[b])
    <3>1. /\ StartConfirms(b) \in Nat /\ StopConfirms(b) \in Nat
          /\ StartReqs(b) \in Nat /\ StopReqs(b) \in Nat
        BY FamiliesAreNat
    <3>2. /\ StartReqs(b)' = StartReqs(b) - One(kind = "StartReq" /\ b = a)
                 + (IF Parent(b) = a THEN Waiting(out, Message("StartReq", ClassOf[b])) ELSE 0)
          /\ StopReqs(b)' = StopReqs(b) - One(kind = "StopReq" /\ b = a)
                 + (IF Parent(b) = a THEN Waiting(out, Message("StopReq", ClassOf[b])) ELSE 0)
          /\ StartConfirms(b)' = StartConfirms(b)
                 - One(kind = "PrivStartCnf" /\ Parent(b) = a /\ message[a].class = ClassOf[b])
                 + (IF b = a THEN Waiting(out, Message("PrivStartCnf", ClassOf[b])) ELSE 0)
          /\ StopConfirms(b)' = StopConfirms(b)
                 - One(kind = "PrivStopCnf" /\ Parent(b) = a /\ message[a].class = ClassOf[b])
                 + (IF b = a THEN Waiting(out, Message("PrivStopCnf", ClassOf[b])) ELSE 0)
        BY Effect
    <3> QED
        BY <1>1, <3>1, <3>2 DEF One
  <2> QED
      BY <2>1 DEF After, One
<1>4. News' + Stops' = News + Stops
  <2>1. News \in Nat /\ Stops \in Nat
      BY FamiliesAreNat
  <2> QED
      BY <1>1, <2>1, Effect DEF One
<1> QED
    BY <1>2, <1>3, <1>4 DEF After, Mail

\* A callback that confirms.
LEMMA ConfirmMail ==
    ASSUME Orderly, TypeOK, Plumbing, NEW a \in Actors, NEW kind, Calls(a, kind),
           NEW ph, ph \in [Actors -> Phases], After(kind, a, ph), NEW x,
           UNCHANGED <<stopOn, message, inbox>>,
           \/ /\ kind \in {"StartReq", "PrivStartCnf"} /\ Started(a)
              /\ x = Sent(a) /\ ph[a] \in {"startAsked", "starting"}
           \/ /\ kind \in {"StopReq", "PrivStopCnf"} /\ Stopped(a)
              /\ x = "stopSent" /\ ph[a] \in {"stopAsked", "stopping"},
           NEW ps, ps = [ph EXCEPT ![a] = x],
           UNCHANGED <<mpc, listening>>
    PROVE  Plumbing' /\ Mail(ps)'
<1>1. /\ ps[a] = x
      /\ \A b \in Actors \ {a} : ps[b] = ph[b]
    OBVIOUS
<1>2. Root \in Actors /\ Stopper \in Actors
    BY StopperIs, LifeCycleAssumption
<1>3. \A b \in Actors :
           /\ StartReqs(b) \in Nat /\ StopReqs(b) \in Nat
           /\ StartConfirms(b) \in Nat /\ StopConfirms(b) \in Nat
    BY FamiliesAreNat
<1>4. News \in Nat /\ Stops \in Nat
    BY FamiliesAreNat
<1>5. CASE kind \in {"StartReq", "PrivStartCnf"} /\ Started(a)
  <2>1. PICK out \in Seq(Messages) :
            /\ outbox' = [outbox EXCEPT ![a] = out]
            /\ \A m : Waiting(out, m) =
                   One(\/ m = Message("StartCnf", ClassOf[a])
                       \/ m = Message("PrivStartCnf", ClassOf[a])
                       \/ m = StopMessage /\ <<a, ClassOf[a]>> \in stopOn)
      BY <1>5, StartedSays
  <2>2. Says(a, out)
      BY <2>1, Called DEF Says
  <2>3. ASSUME NEW m \in Messages, Waiting(out, m) # 0
        PROVE  Sends(a, m)
    <3>1. \/ m = Message("StartCnf", ClassOf[a])
          \/ m = Message("PrivStartCnf", ClassOf[a])
          \/ m = StopMessage /\ <<a, ClassOf[a]>> \in stopOn
        BY <2>1, <2>3 DEF One
    <3>2. <<a, ClassOf[a]>> \in stopOn => ClassOf[a] = ClassOf[Root]
        BY StopperIs
    <3> QED
        BY <3>1, <3>2, MessageFields DEF Sends
  <2>4. \A b \in Actors :
            /\ Waiting(out, Message("StartReq", ClassOf[b])) = 0
            /\ Waiting(out, Message("StopReq", ClassOf[b])) = 0
            /\ Waiting(out, Message("PrivStopCnf", ClassOf[b])) = 0
            /\ Waiting(out, Message("PrivStartCnf", ClassOf[b])) = One(b = a)
    <3> SUFFICES ASSUME NEW b \in Actors
                 PROVE  /\ Waiting(out, Message("StartReq", ClassOf[b])) = 0
                        /\ Waiting(out, Message("StopReq", ClassOf[b])) = 0
                        /\ Waiting(out, Message("PrivStopCnf", ClassOf[b])) = 0
                        /\ Waiting(out, Message("PrivStartCnf", ClassOf[b])) = One(b = a)
        OBVIOUS
    <3>1. \A k \in {"StartReq", "StopReq", "PrivStopCnf"} :
              /\ Message(k, ClassOf[b]) # Message("StartCnf", ClassOf[a])
              /\ Message(k, ClassOf[b]) # Message("PrivStartCnf", ClassOf[a])
              /\ Message(k, ClassOf[b]) # StopMessage
        BY MessageFields
    <3>2. /\ Message("PrivStartCnf", ClassOf[b]) # Message("StartCnf", ClassOf[a])
          /\ Message("PrivStartCnf", ClassOf[b]) = Message("PrivStartCnf", ClassOf[a]) <=> b = a
          /\ Message("PrivStartCnf", ClassOf[b]) # StopMessage
        BY MessageFields DEF Orderly
    <3> QED
        BY <2>1, <3>1, <3>2 DEF One
  <2>5. /\ Waiting(out, Message("StartCnf", ClassOf[Root])) = One(a = Root)
        /\ Waiting(out, StopMessage) = One(<<a, ClassOf[a]>> \in stopOn)
    <3>1. /\ Message("StartCnf", ClassOf[Root]) = Message("StartCnf", ClassOf[a]) <=> a = Root
          /\ Message("StartCnf", ClassOf[Root]) # Message("PrivStartCnf", ClassOf[a])
          /\ Message("StartCnf", ClassOf[Root]) # StopMessage
          /\ StopMessage # Message("StartCnf", ClassOf[a])
          /\ StopMessage # Message("PrivStartCnf", ClassOf[a])
        BY <1>2, MessageFields DEF Orderly
    <3> QED
        BY <2>1, <3>1 DEF One
  <2>6. <<a, ClassOf[a]>> \in stopOn <=> a = Root /\ a = Stopper /\ stopOn # {}
      BY <1>2, StopperIs DEF Orderly
  <2>7. News' + Stops' = News + Stops + One(a = Root /\ stopOn # {})
    <3>1. Stops' = Stops + One(a = Root /\ a = Stopper /\ stopOn # {})
        BY <1>4, <1>5, <2>2, <2>5, <2>6, Effect DEF One
    <3>2. Stopper # Root => News' = News + One(a = Root) /\ stopOn # {}
      <4> SUFFICES ASSUME Stopper # Root
                   PROVE  News' = News + One(a = Root) /\ stopOn # {}
          OBVIOUS
      <4>1. stopOn # {}
          BY DEF Stopper
      <4>2. News' = News - One(kind = "StartCnf" /\ a = Stopper /\ message[a].class = ClassOf[Root])
                + (IF a = Root THEN Waiting(out, Message("StartCnf", ClassOf[Root])) ELSE 0)
          BY <2>2, Effect
      <4> QED
          BY <1>4, <1>5, <2>5, <4>1, <4>2 DEF One
    <3>3. Stopper = Root => News' = 0 /\ News = 0
        BY <2>2, Effect
    <3> QED
        BY <1>4, <3>1, <3>2, <3>3 DEF One
  <2>8. ASSUME NEW b \in Actors
        PROVE  /\ StartReqs(b)' = StartReqs(b) - One(kind = "StartReq" /\ b = a)
               /\ StopReqs(b)' = StopReqs(b)
               /\ StartConfirms(b)' = StartConfirms(b)
                     - One(kind = "PrivStartCnf" /\ Parent(b) = a /\ message[a].class = ClassOf[b])
                     + One(b = a)
               /\ StopConfirms(b)' = StopConfirms(b)
    <3>1. /\ StartReqs(b)' = StartReqs(b) - One(kind = "StartReq" /\ b = a)
                   + (IF Parent(b) = a THEN Waiting(out, Message("StartReq", ClassOf[b])) ELSE 0)
          /\ StopReqs(b)' = StopReqs(b) - One(kind = "StopReq" /\ b = a)
                   + (IF Parent(b) = a THEN Waiting(out, Message("StopReq", ClassOf[b])) ELSE 0)
          /\ StartConfirms(b)' = StartConfirms(b)
                   - One(kind = "PrivStartCnf" /\ Parent(b) = a /\ message[a].class = ClassOf[b])
                   + (IF b = a THEN Waiting(out, Message("PrivStartCnf", ClassOf[b])) ELSE 0)
          /\ StopConfirms(b)' = StopConfirms(b)
                   - One(kind = "PrivStopCnf" /\ Parent(b) = a /\ message[a].class = ClassOf[b])
                   + (IF b = a THEN Waiting(out, Message("PrivStopCnf", ClassOf[b])) ELSE 0)
        BY <2>2, Effect
    <3> QED
        BY <1>3, <1>5, <2>4, <3>1 DEF One
  <2>9. ph[a] \in {"startAsked", "starting"} /\ x = Sent(a)
      BY <1>5
  <2>10. ASSUME NEW b \in Actors
         PROVE  /\ StartReqs(b)' = One(ps[b] = "startAsked")
                /\ StopReqs(b)' = One(ps[b] = "stopAsked")
                /\ b # Root => StartConfirms(b)' = One(ps[b] = "startSent")
                /\ StopConfirms(b)' = One(ps[b] = "stopSent")
    <3>1. /\ StartReqs(b) - One(kind = "StartReq" /\ b = a) = One(ph[b] = "startAsked" /\ b # a)
          /\ StopReqs(b) = One(ph[b] = "stopAsked" /\ b # a)
          /\ b # Root =>
                StartConfirms(b)
                    - One(kind = "PrivStartCnf" /\ Parent(b) = a /\ message[a].class = ClassOf[b])
                    = One(ph[b] = "startSent")
          /\ StopConfirms(b) = One(ph[b] = "stopSent")
      <4>1. /\ StartReqs(b) - One(kind = "StartReq" /\ b = a) = One(ph[b] = "startAsked" /\ b # a)
            /\ StopReqs(b) - One(kind = "StopReq" /\ b = a) = One(ph[b] = "stopAsked" /\ b # a)
            /\ b # Root =>
                  StartConfirms(b)
                      - One(kind = "PrivStartCnf" /\ Parent(b) = a /\ message[a].class = ClassOf[b])
                      = One(ph[b] = "startSent")
            /\ StopConfirms(b)
                   - One(kind = "PrivStopCnf" /\ Parent(b) = a /\ message[a].class = ClassOf[b])
                   = One(ph[b] = "stopSent")
          BY DEF After
      <4>2. kind # "StopReq" /\ kind # "PrivStopCnf"
          BY <1>5
      <4> QED
          BY <1>3, <4>1, <4>2 DEF One
    <3>2. CASE b = a
        BY <1>1, <2>8, <2>9, <3>1, <3>2 DEF One, Sent
    <3>3. CASE b # a
        BY <1>1, <2>8, <3>1, <3>3 DEF One
    <3> QED
        BY <3>2, <3>3
  <2>11. News' + Stops' = One(stopOn' # {} /\ ps[Root] = "started")
    <3>1. News + Stops = One(stopOn # {} /\ ph[Root] = "started")
        BY DEF After
    <3> QED
        BY <1>1, <1>2, <2>7, <2>9, <3>1 DEF One, Sent
  <2>12. Plumbing'
      BY <2>2, <2>3, SaidPlumbing
  <2> QED
      BY <2>10, <2>11, <2>12 DEF Mail
<1>6. CASE kind \in {"StopReq", "PrivStopCnf"} /\ Stopped(a)
  <2>1. PICK out \in Seq(Messages) :
            /\ outbox' = [outbox EXCEPT ![a] = out]
            /\ \A m : Waiting(out, m) =
                   One(\/ m = Message("StopCnf", ClassOf[a])
                       \/ m = Message("PrivStopCnf", ClassOf[a]))
      BY <1>6, StoppedSays
  <2>2. Says(a, out)
      BY <2>1, Called DEF Says
  <2>3. ASSUME NEW m \in Messages, Waiting(out, m) # 0
        PROVE  Sends(a, m)
    <3>1. \/ m = Message("StopCnf", ClassOf[a])
          \/ m = Message("PrivStopCnf", ClassOf[a])
        BY <2>1, <2>3 DEF One
    <3> QED
        BY <3>1, MessageFields DEF Sends
  <2>4. \A b \in Actors :
            /\ Waiting(out, Message("StartReq", ClassOf[b])) = 0
            /\ Waiting(out, Message("StopReq", ClassOf[b])) = 0
            /\ Waiting(out, Message("PrivStartCnf", ClassOf[b])) = 0
            /\ Waiting(out, Message("PrivStopCnf", ClassOf[b])) = One(b = a)
    <3> SUFFICES ASSUME NEW b \in Actors
                 PROVE  /\ Waiting(out, Message("StartReq", ClassOf[b])) = 0
                        /\ Waiting(out, Message("StopReq", ClassOf[b])) = 0
                        /\ Waiting(out, Message("PrivStartCnf", ClassOf[b])) = 0
                        /\ Waiting(out, Message("PrivStopCnf", ClassOf[b])) = One(b = a)
        OBVIOUS
    <3>1. \A k \in {"StartReq", "StopReq", "PrivStartCnf"} :
              /\ Message(k, ClassOf[b]) # Message("StopCnf", ClassOf[a])
              /\ Message(k, ClassOf[b]) # Message("PrivStopCnf", ClassOf[a])
        BY MessageFields
    <3>2. /\ Message("PrivStopCnf", ClassOf[b]) # Message("StopCnf", ClassOf[a])
          /\ Message("PrivStopCnf", ClassOf[b]) = Message("PrivStopCnf", ClassOf[a]) <=> b = a
        BY MessageFields DEF Orderly
    <3> QED
        BY <2>1, <3>1, <3>2 DEF One
  <2>5. /\ Waiting(out, Message("StartCnf", ClassOf[Root])) = 0
        /\ Waiting(out, StopMessage) = 0
    <3>1. /\ Message("StartCnf", ClassOf[Root]) # Message("StopCnf", ClassOf[a])
          /\ Message("StartCnf", ClassOf[Root]) # Message("PrivStopCnf", ClassOf[a])
          /\ StopMessage # Message("StopCnf", ClassOf[a])
          /\ StopMessage # Message("PrivStopCnf", ClassOf[a])
        BY MessageFields
    <3> QED
        BY <2>1, <3>1 DEF One
  <2>6. News' + Stops' = News + Stops
    <3>1. Stops' = Stops
        BY <1>4, <1>6, <2>2, <2>5, Effect DEF One
    <3>2. Stopper # Root => News' = News
        BY <1>4, <1>6, <2>2, <2>5, Effect DEF One
    <3>3. Stopper = Root => News' = 0 /\ News = 0
        BY <2>2, Effect
    <3> QED
        BY <1>4, <3>1, <3>2, <3>3
  <2>7. ASSUME NEW b \in Actors
        PROVE  /\ StartReqs(b)' = StartReqs(b)
               /\ StopReqs(b)' = StopReqs(b) - One(kind = "StopReq" /\ b = a)
               /\ StartConfirms(b)' = StartConfirms(b)
               /\ StopConfirms(b)' = StopConfirms(b)
                     - One(kind = "PrivStopCnf" /\ Parent(b) = a /\ message[a].class = ClassOf[b])
                     + One(b = a)
    <3>1. /\ StartReqs(b)' = StartReqs(b) - One(kind = "StartReq" /\ b = a)
                   + (IF Parent(b) = a THEN Waiting(out, Message("StartReq", ClassOf[b])) ELSE 0)
          /\ StopReqs(b)' = StopReqs(b) - One(kind = "StopReq" /\ b = a)
                   + (IF Parent(b) = a THEN Waiting(out, Message("StopReq", ClassOf[b])) ELSE 0)
          /\ StartConfirms(b)' = StartConfirms(b)
                   - One(kind = "PrivStartCnf" /\ Parent(b) = a /\ message[a].class = ClassOf[b])
                   + (IF b = a THEN Waiting(out, Message("PrivStartCnf", ClassOf[b])) ELSE 0)
          /\ StopConfirms(b)' = StopConfirms(b)
                   - One(kind = "PrivStopCnf" /\ Parent(b) = a /\ message[a].class = ClassOf[b])
                   + (IF b = a THEN Waiting(out, Message("PrivStopCnf", ClassOf[b])) ELSE 0)
        BY <2>2, Effect
    <3> QED
        BY <1>3, <1>6, <2>4, <3>1 DEF One
  <2>8. ph[a] \in {"stopAsked", "stopping"} /\ x = "stopSent"
      BY <1>6
  <2>9. ASSUME NEW b \in Actors
        PROVE  /\ StartReqs(b)' = One(ps[b] = "startAsked")
               /\ StopReqs(b)' = One(ps[b] = "stopAsked")
               /\ b # Root => StartConfirms(b)' = One(ps[b] = "startSent")
               /\ StopConfirms(b)' = One(ps[b] = "stopSent")
    <3>1. /\ StartReqs(b) = One(ph[b] = "startAsked" /\ b # a)
          /\ StopReqs(b) - One(kind = "StopReq" /\ b = a) = One(ph[b] = "stopAsked" /\ b # a)
          /\ b # Root => StartConfirms(b) = One(ph[b] = "startSent")
          /\ StopConfirms(b)
                - One(kind = "PrivStopCnf" /\ Parent(b) = a /\ message[a].class = ClassOf[b])
                = One(ph[b] = "stopSent")
        BY <1>3, <1>6 DEF After, One
    <3>2. CASE b = a
        BY <1>1, <2>7, <2>8, <3>1, <3>2 DEF One
    <3>3. CASE b # a
        BY <1>1, <2>7, <3>1, <3>3 DEF One
    <3> QED
        BY <3>2, <3>3
  <2>10. News' + Stops' = One(stopOn' # {} /\ ps[Root] = "started")
    <3>1. News + Stops = One(stopOn # {} /\ ph[Root] = "started")
        BY DEF After
    <3> QED
        BY <1>1, <1>2, <2>6, <2>8, <3>1 DEF One
  <2>11. Plumbing'
      BY <2>2, <2>3, SaidPlumbing
  <2> QED
      BY <2>9, <2>10, <2>11 DEF Mail
<1> QED
    BY <1>5, <1>6

LEMMA TallyKept ==
    ASSUME NEW ph, NEW ps, NEW p \in Actors, TallyOf(p, ph),
           childrenCnfCount'[p] = childrenCnfCount[p],
           \/ ps[p] = ph[p]
           \/ ps[p] \notin {"starting", "stopping"} /\ ph[p] \notin {"starting", "stopping"},
           \A d \in Children[p] : /\ ph[d] = "started" <=> ps[d] = "started"
                                  /\ ph[d] = "stopped" <=> ps[d] = "stopped"
    PROVE  TallyOf(p, ps)'
<1>1. In(p, ps, "started") = In(p, ph, "started") /\ In(p, ps, "stopped") = In(p, ph, "stopped")
    BY DEF In
<1>2. /\ ps[p] = "starting" => childrenCnfCount'[p] = Cardinality(In(p, ps, "started"))
      /\ ps[p] = "stopping" => childrenCnfCount'[p] = Cardinality(In(p, ps, "stopped"))
      /\ ps[p] \notin {"starting", "stopping"} => childrenCnfCount'[p] = 0
    BY <1>1 DEF TallyOf
<1> QED
    BY <1>2 DEF TallyOf

\* An actor without children answers a request at once.
LEMMA LeafStep ==
    ASSUME Orderly, TypeOK, Plumbing, NEW ph, InPhase(ph),
           NEW a \in Actors, Children[a] = {}, NEW kind, Calls(a, kind), NEW x,
           \/ kind = "StartReq" /\ Started(a) /\ x = Sent(a)
           \/ kind = "StopReq" /\ Stopped(a) /\ x = "stopSent",
           UNCHANGED <<stopOn, childrenCnfCount, message, inbox, listening, running, mpc>>,
           NEW ps, ps = [ph EXCEPT ![a] = x]
    PROVE  Plumbing' /\ InPhase(ps)'
<1>1. /\ kind = "StartReq" => ph[a] = "startAsked"
      /\ kind = "StopReq" => ph[a] = "stopAsked"
    BY Expected
<1>2. Tree(ph) /\ ph \in [Actors -> Phases]
    BY DEF InPhase, Tree
<1>3. Tree(ps)
  <2>1. Tree([ph EXCEPT ![a] = x])
      BY <1>1, <1>2, TreeStep
  <2> QED
      BY <2>1
<1>4. ps[a] = x /\ \A b \in Actors \ {a} : ps[b] = ph[b]
    BY <1>2
<1>5. After(kind, a, ph)
    BY RequestUsed
<1>6. Plumbing' /\ Mail(ps)'
  <2>1. \/ /\ kind \in {"StartReq", "PrivStartCnf"} /\ Started(a)
           /\ x = Sent(a) /\ ph[a] \in {"startAsked", "starting"}
        \/ /\ kind \in {"StopReq", "PrivStopCnf"} /\ Stopped(a)
           /\ x = "stopSent" /\ ph[a] \in {"stopAsked", "stopping"}
      BY <1>1
  <2> QED
      BY <1>2, <1>5, <2>1, ConfirmMail
<1>7. Tracks(ps)'
  <2>1. /\ kind = "StartReq" => state' = [state EXCEPT ![a] = "STARTED"]
        /\ kind = "StopReq" => state' = [state EXCEPT ![a] = "STOPPED"]
      BY DEF Started, Stopped
  <2>2. /\ kind = "StartReq" => StateOf(x) = "STARTED"
        /\ kind = "StopReq" => StateOf(x) = "STOPPED"
      BY DEF StateOf, Sent, NotStarted, AllStopped
  <2>3. \A b \in Actors : state'[b] = StateOf(ps[b])
      BY <1>4, <2>1, <2>2 DEF InPhase, Tracks, TypeOK
  <2> QED
      BY <2>3 DEF Tracks
<1>8. Tally(ps)'
  <2> SUFFICES ASSUME NEW p \in Actors
               PROVE  TallyOf(p, ps)'
      BY DEF Tally
  <2>1. TallyOf(p, ph) /\ childrenCnfCount'[p] = childrenCnfCount[p]
      BY DEF InPhase, Tally
  <2>2. \/ ps[p] = ph[p]
        \/ ps[p] \notin {"starting", "stopping"} /\ ph[p] \notin {"starting", "stopping"}
      BY <1>1, <1>4 DEF Sent
  <2>3. \A d \in Children[p] : /\ ph[d] = "started" <=> ps[d] = "started"
                               /\ ph[d] = "stopped" <=> ps[d] = "stopped"
    <3> SUFFICES ASSUME NEW d \in Children[p]
                 PROVE  /\ ph[d] = "started" <=> ps[d] = "started"
                        /\ ph[d] = "stopped" <=> ps[d] = "stopped"
        OBVIOUS
    <3>1. d \in Actors /\ d # Root
        BY ChildIs
    <3> QED
        BY <1>1, <1>4, <3>1 DEF Sent
  <2> QED
      BY <2>1, <2>2, <2>3, TallyKept
<1>9. Calendar(ps)'
  <2>1. /\ ps[Root] = "fresh" <=> ph[Root] = "fresh"
        /\ ps[Root] = "stopped" <=> ph[Root] = "stopped"
      BY <1>1, <1>4, LifeCycleAssumption DEF Sent
  <2> QED
      BY <2>1 DEF InPhase, Calendar
<1> QED
    BY <1>3, <1>6, <1>7, <1>8, <1>9 DEF InPhase, Tree

\* The confirmation of child c is being counted; it completes the count exactly
\* when all children have reached the phase.
Counted(kind, a, c, ph, busy, sent, counted) ==
    /\ ClassOf[c] = message[a].class
    /\ ph[c] = sent
    /\ ph[a] = busy
    /\ Tree([ph EXCEPT ![c] = counted])
    /\ After(kind, a, [ph EXCEPT ![c] = counted])
    /\ Cardinality(In(a, [ph EXCEPT ![c] = counted], counted)) = childrenCnfCount[a] + 1
    /\ AllConfirmed(a) <=> \A d \in Children[a] : [ph EXCEPT ![c] = counted][d] = counted

LEMMA CountedIs ==
    ASSUME Orderly, TypeOK, Plumbing, NEW ph, InPhase(ph),
           NEW a \in Actors, NEW kind, Calls(a, kind), NEW busy, NEW sent, NEW counted,
           \/ /\ kind = "PrivStartCnf"
              /\ busy = "starting" /\ sent = "startSent" /\ counted = "started"
           \/ /\ kind = "PrivStopCnf" /\ message[a].class # ClassOf[Root]
              /\ busy = "stopping" /\ sent = "stopSent" /\ counted = "stopped"
    PROVE  \E c \in Children[a] :
               Counted(kind, a, c, ph, busy, sent, counted)
<1>1. PICK c \in Actors : ClassOf[c] = message[a].class /\ Parent(c) = a /\ ph[c] = sent
  <2>1. CASE kind = "PrivStartCnf"
      BY <2>1, Expected, ChildIs
  <2>2. CASE kind = "PrivStopCnf"
      BY <2>2, Expected
  <2> QED
      BY <2>1, <2>2
<1>2. Tree(ph) /\ ph \in [Actors -> Phases]
    BY DEF InPhase, Tree
<1>3. c # Root
    BY <1>1, <1>2 DEF Tree
<1>4. c \in Children[a]
    BY <1>1, <1>3, ParentIs
<1>5. InStep(ph[a], ph[c]) /\ ph[a] \in Phases
    BY <1>2, <1>4 DEF Tree
<1>6. ph[a] = busy
    BY <1>1, <1>5 DEF InStep, AllStopped, Phases
<1>7. Tree([ph EXCEPT ![c] = counted])
    BY <1>1, <1>2, TreeStep
<1>8. After(kind, a, [ph EXCEPT ![c] = counted])
    BY <1>1, <1>6, ConfirmUsed
<1>9. childrenCnfCount[a] = Cardinality(In(a, ph, counted))
    BY <1>6 DEF InPhase, Tally, TallyOf
<1>10. ph[c] # counted
    BY <1>1
<1>11. /\ Cardinality(In(a, [ph EXCEPT ![c] = counted], counted)) = Cardinality(In(a, ph, counted)) + 1
       /\ Cardinality(In(a, ph, counted)) + 1 = Cardinality(Children[a]) <=>
             \A d \in Children[a] : [ph EXCEPT ![c] = counted][d] = counted
    BY <1>2, <1>4, <1>10, OneMoreIn
<1>12. Cardinality(In(a, [ph EXCEPT ![c] = counted], counted)) = childrenCnfCount[a] + 1
    BY <1>9, <1>11
<1>13. AllConfirmed(a) <=> \A d \in Children[a] : [ph EXCEPT ![c] = counted][d] = counted
    BY <1>9, <1>11 DEF AllConfirmed
<1> QED
    BY <1>1, <1>4, <1>6, <1>7, <1>8, <1>12, <1>13 DEF Counted

\* The confirmation of a child, when others are still missing.
LEMMA CountingStep ==
    ASSUME Orderly, TypeOK, Plumbing, NEW ph, InPhase(ph), NEW a \in Actors,
           NEW kind, Calls(a, kind), NEW sent, NEW counted,
           \/ kind = "PrivStartCnf" /\ sent = "startSent" /\ counted = "started"
           \/ kind = "PrivStopCnf" /\ sent = "stopSent" /\ counted = "stopped"
              /\ message[a].class # ClassOf[Root],
           Count(a), Counting(a),
           UNCHANGED <<stopOn, message, inbox, listening, running, mpc>>
    PROVE  \E c \in Children[a] :
               /\ ph[c] = sent
               /\ Plumbing'
               /\ InPhase([ph EXCEPT ![c] = counted])'
<1> DEFINE busy == IF kind = "PrivStartCnf" THEN "starting" ELSE "stopping"
<1>1. /\ left[a] > 0 /\ left' = [left EXCEPT ![a] = @ - 1]
      /\ outbox[a] = <<>> /\ message[a].kind = kind
    BY Called
<1>2. \/ /\ kind = "PrivStartCnf"
         /\ busy = "starting" /\ sent = "startSent" /\ counted = "started"
      \/ /\ kind = "PrivStopCnf" /\ message[a].class # ClassOf[Root]
         /\ busy = "stopping" /\ sent = "stopSent" /\ counted = "stopped"
    OBVIOUS
<1> HIDE DEF busy
<1>0. PICK c \in Children[a] : Counted(kind, a, c, ph, busy, sent, counted)
    BY <1>2, CountedIs
<1>3. /\ ClassOf[c] = message[a].class
      /\ ph[c] = sent
      /\ ph[a] = busy
      /\ Tree([ph EXCEPT ![c] = counted])
      /\ After(kind, a, [ph EXCEPT ![c] = counted])
      /\ Cardinality(In(a, [ph EXCEPT ![c] = counted], counted)) = childrenCnfCount[a] + 1
      /\ AllConfirmed(a) <=> \A d \in Children[a] : [ph EXCEPT ![c] = counted][d] = counted
    BY <1>0 DEF Counted
<1> DEFINE ps == [ph EXCEPT ![c] = counted]
<1>4. c \in Actors /\ c # Root /\ Parent(c) = a /\ c # a
  <2>1. c \in Actors /\ c # Root /\ Parent(c) = a
      BY ChildIs
  <2> QED
      BY <1>2, <1>3, <2>1
<1>5. /\ ph \in [Actors -> Phases]
      /\ ps[c] = counted
      /\ \A b \in Actors \ {c} : ps[b] = ph[b]
    BY <1>4 DEF InPhase, Tree
<1>6. Tree(ps) /\ After(kind, a, ps)
    BY <1>3
<1> HIDE DEF ps
<1>7. ps[a] \notin {"startAsked", "stopAsked"}
    BY <1>2, <1>3, <1>4, <1>5
<1>8. PICK out \in Seq(Messages) :
          /\ outbox' = [outbox EXCEPT ![a] = out]
          /\ \A m : Waiting(out, m) = One(FALSE)
    BY <1>1, NothingSaid DEF Counting
<1>9. Says(a, out)
    BY <1>1, <1>8 DEF Says
<1>10. Mail(ps)'
    BY <1>6, <1>7, <1>8, <1>9, SilentMail
<1>11. Plumbing'
    BY <1>8, <1>9, SaidPlumbing DEF One
<1>12. Tracks(ps)'
  <2>1. StateOf(counted) = StateOf(sent)
      BY <1>2 DEF StateOf, NotStarted, AllStopped
  <2>2. \A b \in Actors : state'[b] = StateOf(ps[b])
      BY <1>3, <1>5, <2>1 DEF InPhase, Tracks, Counting
  <2> QED
      BY <2>2 DEF Tracks
<1>13. /\ childrenCnfCount'[a] = childrenCnfCount[a] + 1
       /\ \A p \in Actors \ {a} : childrenCnfCount'[p] = childrenCnfCount[p]
    BY DEF Count, Counting, TypeOK
<1>14. Tally(ps)'
  <2> SUFFICES ASSUME NEW p \in Actors
               PROVE  TallyOf(p, ps)'
      BY DEF Tally
  <2>1. CASE p = a
    <3>1. childrenCnfCount'[a] = Cardinality(In(a, ps, counted))
        BY <1>3, <1>13 DEF ps
    <3>2. ps[a] = busy
        BY <1>3, <1>4, <1>5
    <3>3. /\ ps[a] = "starting" => childrenCnfCount'[a] = Cardinality(In(a, ps, "started"))
          /\ ps[a] = "stopping" => childrenCnfCount'[a] = Cardinality(In(a, ps, "stopped"))
          /\ ps[a] \notin {"starting", "stopping"} => childrenCnfCount'[a] = 0
        BY <1>2, <3>1, <3>2
    <3> QED
        BY <2>1, <3>3 DEF TallyOf
  <2>2. CASE p # a
    <3>1. TallyOf(p, ph) /\ childrenCnfCount'[p] = childrenCnfCount[p]
        BY <1>13, <2>2 DEF InPhase, Tally
    <3>2. \/ ps[p] = ph[p]
          \/ ps[p] \notin {"starting", "stopping"} /\ ph[p] \notin {"starting", "stopping"}
        BY <1>2, <1>3, <1>5
    <3>3. \A d \in Children[p] : ps[d] = ph[d]
      <4> SUFFICES ASSUME NEW d \in Children[p]
                   PROVE  ps[d] = ph[d]
          OBVIOUS
      <4>1. d \in Actors /\ Parent(d) = p
          BY ChildIs
      <4> QED
          BY <1>4, <1>5, <2>2, <4>1
    <3> QED
        BY <3>1, <3>2, <3>3, TallyKept
  <2> QED
      BY <2>1, <2>2
<1>15. Calendar(ps)'
    BY <1>4, <1>5, LifeCycleAssumption DEF InPhase, Calendar
<1>16. InPhase(ps)'
    BY <1>6, <1>10, <1>12, <1>14, <1>15 DEF InPhase, Tree
<1> QED
    BY <1>3, <1>11, <1>16 DEF ps

\* The confirmation of the last child.
LEMMA CountedStep ==
    ASSUME Orderly, TypeOK, Plumbing, NEW ph, InPhase(ph), NEW a \in Actors,
           NEW kind, Calls(a, kind), NEW x, NEW sent, NEW counted,
           \/ kind = "PrivStartCnf" /\ Started(a) /\ x = Sent(a)
              /\ sent = "startSent" /\ counted = "started"
           \/ kind = "PrivStopCnf" /\ Stopped(a) /\ x = "stopSent"
              /\ sent = "stopSent" /\ counted = "stopped"
              /\ message[a].class # ClassOf[Root],
           Count(a), AllConfirmed(a),
           UNCHANGED <<stopOn, message, inbox, listening, running, mpc>>
    PROVE  \E c \in Children[a] :
               /\ ph[c] = sent
               /\ \A d \in Children[a] : [ph EXCEPT ![c] = counted][d] = counted
               /\ Plumbing'
               /\ InPhase([[ph EXCEPT ![c] = counted] EXCEPT ![a] = x])'
<1> DEFINE busy == IF kind = "PrivStartCnf" THEN "starting" ELSE "stopping"
<1>2. \/ /\ kind = "PrivStartCnf"
         /\ busy = "starting" /\ sent = "startSent" /\ counted = "started"
      \/ /\ kind = "PrivStopCnf" /\ message[a].class # ClassOf[Root]
         /\ busy = "stopping" /\ sent = "stopSent" /\ counted = "stopped"
    OBVIOUS
<1> HIDE DEF busy
<1>0. PICK c \in Children[a] : Counted(kind, a, c, ph, busy, sent, counted)
    BY <1>2, CountedIs
<1>3. /\ ClassOf[c] = message[a].class
      /\ ph[c] = sent
      /\ ph[a] = busy
      /\ Tree([ph EXCEPT ![c] = counted])
      /\ After(kind, a, [ph EXCEPT ![c] = counted])
      /\ Cardinality(In(a, [ph EXCEPT ![c] = counted], counted)) = childrenCnfCount[a] + 1
      /\ AllConfirmed(a) <=> \A d \in Children[a] : [ph EXCEPT ![c] = counted][d] = counted
    BY <1>0 DEF Counted
<1> DEFINE p1 == [ph EXCEPT ![c] = counted]
           ps == [p1 EXCEPT ![a] = x]
<1>4. c \in Actors /\ c # Root /\ Parent(c) = a /\ c # a
  <2>1. c \in Actors /\ c # Root /\ Parent(c) = a
      BY ChildIs
  <2> QED
      BY <1>2, <1>3, <2>1
<1>5. /\ ph \in [Actors -> Phases]
      /\ p1 \in [Actors -> Phases]
      /\ p1[a] = busy
      /\ ps[c] = counted /\ ps[a] = x
      /\ \A b \in Actors \ {a, c} : ps[b] = ph[b]
  <2>1. ph \in [Actors -> Phases] /\ p1 \in [Actors -> Phases]
      BY <1>3 DEF InPhase, Tree
  <2> QED
      BY <1>3, <1>4, <2>1
<1>6. Tree(p1) /\ After(kind, a, p1)
    BY <1>3
<1>7. \A d \in Children[a] : p1[d] = counted
    BY <1>3
<1> HIDE DEF p1
<1>8. Tree(ps)
    BY <1>2, <1>5, <1>6, <1>7, TreeStep
<1>9. Plumbing' /\ Mail(ps)'
  <2>1. \/ /\ kind \in {"StartReq", "PrivStartCnf"} /\ Started(a)
           /\ x = Sent(a) /\ p1[a] \in {"startAsked", "starting"}
        \/ /\ kind \in {"StopReq", "PrivStopCnf"} /\ Stopped(a)
           /\ x = "stopSent" /\ p1[a] \in {"stopAsked", "stopping"}
      BY <1>2, <1>5
  <2> QED
      BY <1>5, <1>6, <2>1, ConfirmMail
<1> HIDE DEF ps
<1>10. /\ kind = "PrivStartCnf" => x \in {"startSent", "started"}
       /\ kind = "PrivStopCnf" => x = "stopSent"
    BY DEF Sent
<1>11. Tracks(ps)'
  <2>1. /\ kind = "PrivStartCnf" => state' = [state EXCEPT ![a] = "STARTED"]
        /\ kind = "PrivStopCnf" => state' = [state EXCEPT ![a] = "STOPPED"]
      BY DEF Started, Stopped
  <2>2. /\ kind = "PrivStartCnf" => StateOf(x) = "STARTED" /\ StateOf(counted) = StateOf(sent)
        /\ kind = "PrivStopCnf" => StateOf(x) = "STOPPED" /\ StateOf(counted) = StateOf(sent)
      BY <1>2, <1>10 DEF StateOf, NotStarted, AllStopped
  <2>3. ASSUME NEW b \in Actors
        PROVE  state'[b] = StateOf(ps[b])
    <3>1. state[b] = StateOf(ph[b])
        BY DEF InPhase, Tracks
    <3>2. CASE b = a
        BY <1>2, <1>5, <2>1, <2>2, <3>2 DEF TypeOK
    <3>3. CASE b = c
        BY <1>2, <1>3, <1>4, <1>5, <2>1, <2>2, <3>1, <3>3 DEF TypeOK
    <3>4. CASE b # a /\ b # c
        BY <1>2, <1>5, <2>1, <3>1, <3>4 DEF TypeOK
    <3> QED
        BY <3>2, <3>3, <3>4
  <2> QED
      BY <2>3 DEF Tracks
<1>12. /\ childrenCnfCount'[a] = 0
       /\ \A p \in Actors \ {a} : childrenCnfCount'[p] = childrenCnfCount[p]
    BY DEF Count, TypeOK
<1>13. Tally(ps)'
  <2> SUFFICES ASSUME NEW p \in Actors
               PROVE  TallyOf(p, ps)'
      BY DEF Tally
  <2>1. CASE p = a
    <3>1. ps[a] \notin {"starting", "stopping"}
        BY <1>2, <1>5, <1>10
    <3> QED
        BY <1>12, <2>1, <3>1 DEF TallyOf
  <2>2. CASE p # a
    <3>1. TallyOf(p, ph) /\ childrenCnfCount'[p] = childrenCnfCount[p]
        BY <1>12, <2>2 DEF InPhase, Tally
    <3>2. \/ ps[p] = ph[p]
          \/ ps[p] \notin {"starting", "stopping"} /\ ph[p] \notin {"starting", "stopping"}
        BY <1>2, <1>3, <1>5, <2>2
    <3>3. \A d \in Children[p] : /\ ph[d] = "started" <=> ps[d] = "started"
                                 /\ ph[d] = "stopped" <=> ps[d] = "stopped"
      <4> SUFFICES ASSUME NEW d \in Children[p]
                   PROVE  /\ ph[d] = "started" <=> ps[d] = "started"
                          /\ ph[d] = "stopped" <=> ps[d] = "stopped"
          OBVIOUS
      <4>1. d \in Actors /\ Parent(d) = p /\ d # Root
          BY ChildIs
      <4>2. CASE d = a
          BY <1>2, <1>3, <1>5, <4>1, <4>2 DEF Sent
      <4>3. CASE d # a
          BY <1>4, <1>5, <2>2, <4>1, <4>3
      <4> QED
          BY <4>2, <4>3
    <3> QED
        BY <3>1, <3>2, <3>3, TallyKept
  <2> QED
      BY <2>1, <2>2
<1>14. Calendar(ps)'
  <2>1. /\ ps[Root] = "fresh" <=> ph[Root] = "fresh"
        /\ ps[Root] = "stopped" <=> ph[Root] = "stopped"
      BY <1>2, <1>3, <1>4, <1>5, <1>10, LifeCycleAssumption
  <2> QED
      BY <2>1 DEF InPhase, Calendar
<1>15. InPhase(ps)'
    BY <1>8, <1>9, <1>11, <1>13, <1>14 DEF InPhase, Tree
<1> QED
    BY <1>3, <1>9, <1>15 DEF ps, p1

-----------------------------------------------------------------------------
(* The user who stops the system, and Core. *)

\* The user passes the news that the root has started on as a Stop.
LEMMA UserStep ==
    ASSUME Orderly, TypeOK, Plumbing, NEW ph, InPhase(ph),
           NEW a \in Actors, HandleStartCnf(a)
    PROVE  Plumbing' /\ InPhase(ph)'
<1>1. Calls(a, "StartCnf") /\ <<a, message[a].class>> \in stopOn
    BY DEF HandleStartCnf
<1>2. /\ left[a] > 0 /\ left' = [left EXCEPT ![a] = @ - 1]
      /\ outbox[a] = <<>>
      /\ message[a].kind = "StartCnf"
      /\ Hears(a, message[a])
    BY <1>1, Called
<1>3. /\ Stopper \in Actors
      /\ a = Stopper
      /\ message[a].class = ClassOf[Root]
      /\ stopOn # {}
    BY <1>1, StopperIs
<1>4. a # Root
    BY <1>2, <1>3 DEF Hears
<1>5. PICK out \in Seq(Messages) :
          /\ out = <<StopMessage>>
          /\ \A m : Waiting(out, m) = One(m = StopMessage)
    BY StopIsMessage, OneSays
<1>6. Says(a, out)
    BY <1>2, <1>5 DEF Says, HandleStartCnf
<1>7. /\ Waiting(out, StopMessage) = 1
      /\ \A kind \in Kinds \ {"Stop"} : \A b \in Actors :
             Waiting(out, Message(kind, ClassOf[b])) = 0
    BY <1>5 DEF One, Message, StopMessage
<1>8. Plumbing'
  <2>1. \A m \in Messages : Waiting(out, m) # 0 => Sends(a, m)
      BY <1>1, <1>3, <1>5, MessageFields DEF Sends, One
  <2> QED
      BY <1>6, <2>1, SaidPlumbing DEF HandleStartCnf, ports, core
<1>9. ASSUME NEW b \in Actors
      PROVE  /\ StartReqs(b)' = StartReqs(b)
             /\ StopReqs(b)' = StopReqs(b)
             /\ StartConfirms(b)' = StartConfirms(b)
             /\ StopConfirms(b)' = StopConfirms(b)
  <2>1. /\ StartReqs(b)' = StartReqs(b) - One("StartCnf" = "StartReq" /\ b = a)
              + (IF Parent(b) = a THEN Waiting(out, Message("StartReq", ClassOf[b])) ELSE 0)
        /\ StopReqs(b)' = StopReqs(b) - One("StartCnf" = "StopReq" /\ b = a)
              + (IF Parent(b) = a THEN Waiting(out, Message("StopReq", ClassOf[b])) ELSE 0)
        /\ StartConfirms(b)' = StartConfirms(b)
              - One("StartCnf" = "PrivStartCnf" /\ Parent(b) = a /\ message[a].class = ClassOf[b])
              + (IF b = a THEN Waiting(out, Message("PrivStartCnf", ClassOf[b])) ELSE 0)
        /\ StopConfirms(b)' = StopConfirms(b)
              - One("StartCnf" = "PrivStopCnf" /\ Parent(b) = a /\ message[a].class = ClassOf[b])
              + (IF b = a THEN Waiting(out, Message("PrivStopCnf", ClassOf[b])) ELSE 0)
      BY <1>1, <1>6, Effect
  <2>2. /\ StartReqs(b) \in Nat /\ StopReqs(b) \in Nat
        /\ StartConfirms(b) \in Nat /\ StopConfirms(b) \in Nat
      BY FamiliesAreNat
  <2>3. \A kind \in {"StartReq", "StopReq", "PrivStartCnf", "PrivStopCnf"} :
            Waiting(out, Message(kind, ClassOf[b])) = 0
      BY <1>7 DEF Kinds
  <2> QED
      BY <2>1, <2>2, <2>3 DEF One
<1>10. News' + Stops' = News + Stops
  <2>1. /\ News' = News - One("StartCnf" = "StartCnf" /\ a = Stopper /\ message[a].class = ClassOf[Root])
             + (IF a = Root THEN Waiting(out, Message("StartCnf", ClassOf[Root])) ELSE 0)
        /\ Stops' = Stops - One("StartCnf" = "Stop")
             + (IF a = Stopper THEN Waiting(out, StopMessage) ELSE 0)
      BY <1>1, <1>3, <1>4, <1>6, Effect
  <2>2. News \in Nat /\ Stops \in Nat
      BY FamiliesAreNat
  <2> QED
      BY <1>3, <1>4, <1>7, <2>1, <2>2 DEF One
<1>11. Mail(ph)'
  <2>1. stopOn' = stopOn
      BY DEF HandleStartCnf
  <2> QED
      BY <1>9, <1>10, <2>1 DEF InPhase, Mail
<1>12. Tracks(ph)' /\ Tally(ph)' /\ Calendar(ph)'
    BY DEF HandleStartCnf, InPhase, Tracks, Tally, TallyOf, Calendar, core
<1> QED
    BY <1>8, <1>11, <1>12 DEF InPhase, Tree

\* Core passes the Stop on as a request to the root.
LEMMA StopStep ==
    ASSUME Orderly, TypeOK, Plumbing, NEW ph, InPhase(ph), HandleStop
    PROVE  /\ Plumbing'
           /\ ph[Root] = "started"
           /\ InPhase([ph EXCEPT ![Root] = "stopAsked"])'
<1> DEFINE ps == [ph EXCEPT ![Root] = "stopAsked"]
<1>1. Calls(Root, "Stop") /\ Root \in Actors
    BY LifeCycleAssumption DEF HandleStop
<1>2. /\ left[Root] > 0 /\ left' = [left EXCEPT ![Root] = @ - 1]
      /\ outbox[Root] = <<>>
    BY <1>1, Called
<1>3. stopOn # {} /\ ph[Root] = "started"
    BY <1>1, Expected
<1>4. Tree(ph) /\ ph \in [Actors -> Phases]
    BY DEF InPhase, Tree
<1>5. Tree(ps)
    BY <1>1, <1>3, <1>4, TreeStep
<1>6. ps[Root] = "stopAsked" /\ \A b \in Actors \ {Root} : ps[b] = ph[b]
    BY <1>1, <1>4
<1> HIDE DEF ps
<1>7. Message("StopReq", ClassOf[Root]) \in Messages
    BY <1>1, ClassesOfMessages DEF Kinds
<1>8. PICK out \in Seq(Messages) :
          /\ out = <<Message("StopReq", ClassOf[Root])>>
          /\ \A m : Waiting(out, m) = One(m = Message("StopReq", ClassOf[Root]))
    BY <1>7, OneSays
<1>9. Says(Root, out)
    BY <1>2, <1>8 DEF Says, HandleStop
<1>10. /\ Waiting(out, StopMessage) = 0
       /\ Waiting(out, Message("StartCnf", ClassOf[Root])) = 0
       /\ \A b \in Actors :
              /\ Waiting(out, Message("StopReq", ClassOf[b])) = One(b = Root)
              /\ \A kind \in {"StartReq", "PrivStartCnf", "PrivStopCnf"} :
                     Waiting(out, Message(kind, ClassOf[b])) = 0
    BY <1>1, <1>8 DEF One, Message, StopMessage, Orderly
<1>11. Parent(Root) = Root
    BY DEF Parent
<1>12. Plumbing'
  <2>1. \A m \in Messages : Waiting(out, m) # 0 => Sends(Root, m)
      BY <1>1, <1>8, <1>11, MessageFields DEF Sends, One
  <2> QED
      BY <1>1, <1>9, <2>1, SaidPlumbing DEF HandleStop, ports, core
<1>13. ASSUME NEW b \in Actors
       PROVE  /\ StartReqs(b)' = StartReqs(b)
              /\ StopReqs(b)' = StopReqs(b) + One(b = Root)
              /\ StartConfirms(b)' = StartConfirms(b)
              /\ StopConfirms(b)' = StopConfirms(b)
  <2>1. /\ StartReqs(b)' = StartReqs(b) - One("Stop" = "StartReq" /\ b = Root)
              + (IF Parent(b) = Root THEN Waiting(out, Message("StartReq", ClassOf[b])) ELSE 0)
        /\ StopReqs(b)' = StopReqs(b) - One("Stop" = "StopReq" /\ b = Root)
              + (IF Parent(b) = Root THEN Waiting(out, Message("StopReq", ClassOf[b])) ELSE 0)
        /\ StartConfirms(b)' = StartConfirms(b)
              - One("Stop" = "PrivStartCnf" /\ Parent(b) = Root /\ message[Root].class = ClassOf[b])
              + (IF b = Root THEN Waiting(out, Message("PrivStartCnf", ClassOf[b])) ELSE 0)
        /\ StopConfirms(b)' = StopConfirms(b)
              - One("Stop" = "PrivStopCnf" /\ Parent(b) = Root /\ message[Root].class = ClassOf[b])
              + (IF b = Root THEN Waiting(out, Message("PrivStopCnf", ClassOf[b])) ELSE 0)
      BY <1>1, <1>9, Effect
  <2>2. /\ StartReqs(b) \in Nat /\ StopReqs(b) \in Nat
        /\ StartConfirms(b) \in Nat /\ StopConfirms(b) \in Nat
      BY FamiliesAreNat
  <2> QED
      BY <1>10, <1>11, <2>1, <2>2 DEF One
<1>14. News' + Stops' = 0
  <2>1. /\ Stopper # Root =>
             News' = News - One("Stop" = "StartCnf" /\ Root = Stopper /\ message[Root].class = ClassOf[Root])
                 + (IF Root = Root THEN Waiting(out, Message("StartCnf", ClassOf[Root])) ELSE 0)
        /\ Stopper = Root => News' = 0 /\ News = 0
        /\ Stops' = Stops - One("Stop" = "Stop")
             + (IF Root = Stopper THEN Waiting(out, StopMessage) ELSE 0)
      BY <1>1, <1>9, Effect
  <2>2. News \in Nat /\ Stops \in Nat
      BY FamiliesAreNat
  <2>3. News + Stops = 1
      BY <1>3 DEF InPhase, Mail, One
  <2> QED
      BY <1>10, <2>1, <2>2, <2>3 DEF One
<1>15. Mail(ps)'
  <2>1. stopOn' = stopOn
      BY DEF HandleStop
  <2>2. ASSUME NEW b \in Actors
        PROVE  /\ StartReqs(b) = One(ph[b] = "startAsked")
               /\ StopReqs(b) = One(ph[b] = "stopAsked")
               /\ b # Root => StartConfirms(b) = One(ph[b] = "startSent")
               /\ StopConfirms(b) = One(ph[b] = "stopSent")
      BY DEF InPhase, Mail
  <2>3. ASSUME NEW b \in Actors
        PROVE  /\ StartReqs(b)' = One(ps[b] = "startAsked")
               /\ StopReqs(b)' = One(ps[b] = "stopAsked")
               /\ b # Root => StartConfirms(b)' = One(ps[b] = "startSent")
               /\ StopConfirms(b)' = One(ps[b] = "stopSent")
    <3>1. CASE b = Root
        BY <1>3, <1>6, <1>13, <2>2, <3>1 DEF One
    <3>2. CASE b # Root
        BY <1>6, <1>13, <2>2, <3>2 DEF One
    <3> QED
        BY <3>1, <3>2
  <2> QED
      BY <1>6, <1>14, <2>1, <2>3 DEF Mail, One
<1>16. Tracks(ps)'
  <2>1. StateOf("stopAsked") = StateOf("started")
      BY DEF StateOf, NotStarted, AllStopped
  <2>2. \A b \in Actors : state'[b] = StateOf(ps[b])
      BY <1>3, <1>6, <2>1 DEF InPhase, Tracks, HandleStop
  <2> QED
      BY <2>2 DEF Tracks
<1>17. Tally(ps)'
  <2> SUFFICES ASSUME NEW p \in Actors
               PROVE  TallyOf(p, ps)'
      BY DEF Tally
  <2>1. TallyOf(p, ph) /\ childrenCnfCount'[p] = childrenCnfCount[p]
      BY DEF InPhase, Tally, HandleStop
  <2>2. \/ ps[p] = ph[p]
        \/ ps[p] \notin {"starting", "stopping"} /\ ph[p] \notin {"starting", "stopping"}
      BY <1>3, <1>6
  <2>3. \A d \in Children[p] : ps[d] = ph[d]
      BY <1>6, ChildIs
  <2> QED
      BY <2>1, <2>2, <2>3, TallyKept
<1>18. Calendar(ps)'
    BY <1>3, <1>6 DEF InPhase, Calendar, HandleStop, core
<1>19. InPhase(ps)'
    BY <1>5, <1>15, <1>16, <1>17, <1>18 DEF InPhase, Tree
<1> QED
    BY <1>3, <1>12, <1>19 DEF ps

\* Core hears that the root has stopped.
LEMMA RootStoppedStep ==
    ASSUME Orderly, TypeOK, Plumbing, NEW ph, InPhase(ph), HandleRootStopCnf
    PROVE  /\ Plumbing'
           /\ ph[Root] = "stopSent"
           /\ InPhase([ph EXCEPT ![Root] = "stopped"])'
<1> DEFINE ps == [ph EXCEPT ![Root] = "stopped"]
<1>1. /\ Calls(Root, "PrivStopCnf")
      /\ Root \in Actors
      /\ message[Root].class = ClassOf[Root]
    BY LifeCycleAssumption DEF HandleRootStopCnf
<1>2. /\ left[Root] > 0 /\ left' = [left EXCEPT ![Root] = @ - 1]
      /\ outbox[Root] = <<>>
    BY <1>1, Called
<1>3. ph[Root] = "stopSent"
  <2>1. PICK c \in Actors : /\ ClassOf[c] = message[Root].class
                            /\ ph[c] = "stopSent"
      BY <1>1, Expected
  <2> QED
      BY <1>1, <2>1 DEF Orderly
<1>4. Tree(ph) /\ ph \in [Actors -> Phases]
    BY DEF InPhase, Tree
<1>5. Tree(ps)
    BY <1>1, <1>3, <1>4, TreeStep
<1>6. ps[Root] = "stopped" /\ \A b \in Actors \ {Root} : ps[b] = ph[b]
    BY <1>1, <1>4
<1>7. After("PrivStopCnf", Root, ps)
  <2>1. Parent(Root) = Root /\ ph[Root] \notin {"startAsked", "stopAsked"}
      BY <1>3 DEF Parent
  <2> QED
      BY <1>1, <1>3, <2>1, ConfirmUsed
<1> HIDE DEF ps
<1>8. PICK out \in Seq(Messages) :
          /\ outbox' = [outbox EXCEPT ![Root] = out]
          /\ \A m : Waiting(out, m) = One(FALSE)
    BY <1>1, <1>2, NothingSaid DEF HandleRootStopCnf
<1>9. Says(Root, out)
    BY <1>2, <1>8 DEF Says, HandleRootStopCnf
<1>10. Mail(ps)'
    BY <1>1, <1>6, <1>7, <1>8, <1>9, SilentMail
<1>11. Plumbing'
    BY <1>1, <1>8, <1>9, SaidPlumbing DEF One, HandleRootStopCnf, ports
<1>12. Tracks(ps)'
  <2>1. StateOf("stopSent") = StateOf("stopped")
      BY DEF StateOf, NotStarted, AllStopped
  <2>2. \A b \in Actors : state'[b] = StateOf(ps[b])
      BY <1>3, <1>6, <2>1 DEF InPhase, Tracks, HandleRootStopCnf
  <2> QED
      BY <2>2 DEF Tracks
<1>13. Tally(ps)'
  <2> SUFFICES ASSUME NEW p \in Actors
               PROVE  TallyOf(p, ps)'
      BY DEF Tally
  <2>1. TallyOf(p, ph) /\ childrenCnfCount'[p] = childrenCnfCount[p]
      BY DEF InPhase, Tally, HandleRootStopCnf
  <2>2. \/ ps[p] = ph[p]
        \/ ps[p] \notin {"starting", "stopping"} /\ ph[p] \notin {"starting", "stopping"}
      BY <1>3, <1>6
  <2>3. \A d \in Children[p] : ps[d] = ph[d]
      BY <1>6, ChildIs
  <2> QED
      BY <2>1, <2>2, <2>3, TallyKept
<1>14. Calendar(ps)'
    BY <1>3, <1>6 DEF InPhase, Calendar, HandleRootStopCnf
<1>15. InPhase(ps)'
    BY <1>5, <1>10, <1>12, <1>13, <1>14 DEF InPhase, Tree
<1> QED
    BY <1>3, <1>11, <1>15 DEF ps

\* A late listen is called back; nobody who stops the system listens late.
LEMMA LateStep ==
    ASSUME Orderly, TypeOK, Plumbing, NEW ph, InPhase(ph), NEW a \in Actors, HearLate(a)
    PROVE  Plumbing' /\ InPhase(ph)'
<1>1. PICK kind \in {"StartCnf", "StopCnf"} : Calls(a, kind)
    BY DEF HearLate
<1>2. /\ left[a] > 0 /\ left' = [left EXCEPT ![a] = @ - 1]
      /\ outbox[a] = <<>>
    BY <1>1, Called
<1>3. ~(Stopper # Root /\ a = Stopper /\ message[a].class = ClassOf[Root])
  <2>1. <<a, message[a]>> \in Late /\ stopOn \in Users
      BY DEF HearLate, InForce, TypeOK
  <2>2. <<a, message[a].class>> \notin stopOn
      BY <2>1, LifeCycleAssumption
  <2>3. Stopper # Root => stopOn # {}
      BY DEF Stopper
  <2> QED
      BY <2>2, <2>3, StopperIs
<1>4. PICK out \in Seq(Messages) :
          /\ outbox' = [outbox EXCEPT ![a] = out]
          /\ \A m : Waiting(out, m) = One(FALSE)
    BY <1>2, NothingSaid DEF HearLate
<1>5. Says(a, out) /\ \A m : Waiting(out, m) = 0
    BY <1>2, <1>4 DEF Says, HearLate, One
<1>6. Plumbing'
    BY <1>5, SaidPlumbing DEF HearLate, core
<1>7. ASSUME NEW b \in Actors
      PROVE  /\ StartReqs(b)' = StartReqs(b)
             /\ StopReqs(b)' = StopReqs(b)
             /\ StartConfirms(b)' = StartConfirms(b)
             /\ StopConfirms(b)' = StopConfirms(b)
  <2>1. /\ StartReqs(b)' = StartReqs(b) - One(kind = "StartReq" /\ b = a)
              + (IF Parent(b) = a THEN Waiting(out, Message("StartReq", ClassOf[b])) ELSE 0)
        /\ StopReqs(b)' = StopReqs(b) - One(kind = "StopReq" /\ b = a)
              + (IF Parent(b) = a THEN Waiting(out, Message("StopReq", ClassOf[b])) ELSE 0)
        /\ StartConfirms(b)' = StartConfirms(b)
              - One(kind = "PrivStartCnf" /\ Parent(b) = a /\ message[a].class = ClassOf[b])
              + (IF b = a THEN Waiting(out, Message("PrivStartCnf", ClassOf[b])) ELSE 0)
        /\ StopConfirms(b)' = StopConfirms(b)
              - One(kind = "PrivStopCnf" /\ Parent(b) = a /\ message[a].class = ClassOf[b])
              + (IF b = a THEN Waiting(out, Message("PrivStopCnf", ClassOf[b])) ELSE 0)
      BY <1>1, <1>5, Effect
  <2>2. /\ StartReqs(b) \in Nat /\ StopReqs(b) \in Nat
        /\ StartConfirms(b) \in Nat /\ StopConfirms(b) \in Nat
      BY FamiliesAreNat
  <2> QED
      BY <1>1, <1>5, <2>1, <2>2 DEF One
<1>8. News' + Stops' = News + Stops
  <2>1. /\ Stopper # Root =>
             News' = News - One(kind = "StartCnf" /\ a = Stopper /\ message[a].class = ClassOf[Root])
                 + (IF a = Root THEN Waiting(out, Message("StartCnf", ClassOf[Root])) ELSE 0)
        /\ Stopper = Root => News' = 0 /\ News = 0
        /\ Stops' = Stops - One(kind = "Stop")
             + (IF a = Stopper THEN Waiting(out, StopMessage) ELSE 0)
      BY <1>1, <1>5, Effect
  <2>2. News \in Nat /\ Stops \in Nat
      BY FamiliesAreNat
  <2> QED
      BY <1>1, <1>3, <1>5, <2>1, <2>2 DEF One
<1>9. Mail(ph)'
  <2>1. stopOn' = stopOn
      BY DEF HearLate
  <2> QED
      BY <1>7, <1>8, <2>1 DEF InPhase, Mail
<1>10. Tracks(ph)' /\ Tally(ph)' /\ Calendar(ph)'
    BY DEF HearLate, InPhase, Tracks, Tally, TallyOf, Calendar, core
<1> QED
    BY <1>6, <1>9, <1>10 DEF InPhase, Tree

\* Core sends the request to start to the root, which listens by now; nothing
\* has moved before.
LEMMA RequestStep ==
    ASSUME Orderly, TypeOK, Plumbing, NEW ph, InPhase(ph), SendStartReq
    PROVE  /\ Plumbing'
           /\ ph[Root] = "fresh"
           /\ InPhase([ph EXCEPT ![Root] = "startAsked"])'
<1> DEFINE ps == [ph EXCEPT ![Root] = "startAsked"]
           req == Message("StartReq", ClassOf[Root])
<1>1. /\ Root \in Actors
      /\ req \in Messages
      /\ req.kind = "StartReq" /\ req.class = ClassOf[Root]
    BY LifeCycleAssumption, ClassesOfMessages, MessageFields DEF Kinds
<1>2. /\ mpc = "request" /\ mpc' = "wait"
      /\ Publish(req)
      /\ UNCHANGED <<stopOn, state, childrenCnfCount, message, left, outbox, listening, running>>
    BY DEF SendStartReq, actor, ports
<1>3. /\ listening = Actors
      /\ \A a \in Actors : outbox[a] = <<>> /\ inbox[a] = <<>> /\ left[a] = 0
    BY <1>2 DEF Plumbing
<1>4. ph[Root] = "fresh" /\ Tree(ph) /\ ph \in [Actors -> Phases]
    BY <1>2 DEF InPhase, Tree, Calendar
<1>5. Tree(ps)
    BY <1>1, <1>4, TreeStep
<1>6. ps[Root] = "startAsked" /\ \A b \in Actors \ {Root} : ps[b] = ph[b]
    BY <1>1, <1>4
<1> HIDE DEF ps, req
<1>7. ASSUME NEW b \in Actors
      PROVE  inbox'[b] = IF b = Root THEN <<req>> ELSE <<>>
  <2>1. inbox'[b] = IF Listeners(b, req) > 0 THEN Append(inbox[b], req) ELSE inbox[b]
      BY <1>2, <1>3 DEF Publish
  <2>2. Listeners(b, req) = IF b = Root THEN 1 ELSE 0
      BY <1>1 DEF Listeners, Orderly
  <2>3. inbox[b] = <<>> /\ Append(<<>>, req) = <<req>>
      BY <1>3
  <2> QED
      BY <2>1, <2>2, <2>3
<1>8. ASSUME NEW m, NEW s \in Actors, NEW r \in Actors
      PROVE  /\ Copies(m, s, r)' = One(r = Root /\ m = req)
             /\ Copies(m, s, r) = 0
  <2>1. /\ outbox'[s] = <<>> /\ outbox[s] = <<>> /\ left'[r] = 0 /\ left[r] = 0
        /\ inbox[r] = <<>>
      BY <1>2, <1>3
  <2>2. Waiting(<<>>, m) = 0 /\ Waiting(<<req>>, m) = One(m = req)
      BY WaitingEmpty, WaitingInOne
  <2>3. Waiting(inbox'[r], m) = One(r = Root /\ m = req)
      BY <1>7, <2>2 DEF One
  <2>4. One(r = Root /\ m = req) \in Nat
      BY DEF One
  <2> QED
      BY <2>1, <2>2, <2>3, <2>4 DEF Copies
<1>9. ASSUME NEW b \in Actors
      PROVE  /\ StartReqs(b)' = One(b = Root) /\ StartReqs(b) = 0
             /\ StopReqs(b)' = StopReqs(b)
             /\ StartConfirms(b)' = StartConfirms(b)
             /\ StopConfirms(b)' = StopConfirms(b)
  <2>1. Parent(b) \in Actors
      BY ParentIs
  <2>2. /\ Message("StartReq", ClassOf[b]) = req <=> b = Root
        /\ Message("StopReq", ClassOf[b]) # req
        /\ Message("PrivStartCnf", ClassOf[b]) # req
        /\ Message("PrivStopCnf", ClassOf[b]) # req
      BY <1>1 DEF req, Message, Orderly
  <2> QED
      BY <1>8, <2>1, <2>2 DEF StartReqs, StopReqs, StartConfirms, StopConfirms, One
<1>10. News' + Stops' = News + Stops
  <2>1. Stopper \in Actors /\ Stopper' = Stopper
      BY <1>2, StopperIs DEF Stopper
  <2>2. StopMessage # req /\ Message("StartCnf", ClassOf[Root]) # req
      BY DEF req, Message, StopMessage
  <2>3. Copies(Message("StartCnf", ClassOf[Root]), Root, Stopper)'
            = Copies(Message("StartCnf", ClassOf[Root]), Root, Stopper)
      BY <1>1, <1>8, <2>1, <2>2 DEF One, Copies
  <2>4. Copies(StopMessage, Stopper, Root)' = Copies(StopMessage, Stopper, Root)
      BY <1>1, <1>8, <2>1, <2>2 DEF One, Copies
  <2> QED
      BY <2>1, <2>3, <2>4 DEF News, Stops
<1>11. Mail(ps)'
  <2>1. stopOn' = stopOn
      BY <1>2
  <2>2. ASSUME NEW b \in Actors
        PROVE  /\ StartReqs(b) = One(ph[b] = "startAsked")
               /\ StopReqs(b) = One(ph[b] = "stopAsked")
               /\ b # Root => StartConfirms(b) = One(ph[b] = "startSent")
               /\ StopConfirms(b) = One(ph[b] = "stopSent")
      BY DEF InPhase, Mail
  <2>3. ASSUME NEW b \in Actors
        PROVE  /\ StartReqs(b)' = One(ps[b] = "startAsked")
               /\ StopReqs(b)' = One(ps[b] = "stopAsked")
               /\ b # Root => StartConfirms(b)' = One(ps[b] = "startSent")
               /\ StopConfirms(b)' = One(ps[b] = "stopSent")
    <3>1. CASE b = Root
        BY <1>4, <1>6, <1>9, <2>2, <3>1 DEF One
    <3>2. CASE b # Root
        BY <1>6, <1>9, <2>2, <3>2 DEF One
    <3> QED
        BY <3>1, <3>2
  <2>4. News + Stops = One(stopOn # {} /\ ph[Root] = "started")
      BY DEF InPhase, Mail
  <2> QED
      BY <1>4, <1>6, <1>10, <2>1, <2>3, <2>4 DEF Mail, One
<1>12. Plumbing'
  <2>1. \A b \in Actors : \A i \in DOMAIN inbox'[b] : Hears(b, inbox'[b][i])
      BY <1>1, <1>2, PublishPlumbing
  <2>2. \A b \in Actors : outbox'[b] = <<>> /\ left'[b] = 0
      BY <1>2, <1>3
  <2>3. (\A b \in Actors : \A i \in DOMAIN inbox[b] : Hears(b, inbox[b][i]))'
      BY <2>1 DEF Hears
  <2> QED
      BY <1>2, <1>3, <2>2, <2>3 DEF Plumbing
<1>13. Tracks(ps)'
  <2>1. StateOf("fresh") = StateOf("startAsked")
      BY DEF StateOf, NotStarted
  <2>2. \A b \in Actors : state'[b] = StateOf(ps[b])
      BY <1>2, <1>4, <1>6, <2>1 DEF InPhase, Tracks
  <2> QED
      BY <2>2 DEF Tracks
<1>14. Tally(ps)'
  <2> SUFFICES ASSUME NEW p \in Actors
               PROVE  TallyOf(p, ps)'
      BY DEF Tally
  <2>1. TallyOf(p, ph) /\ childrenCnfCount'[p] = childrenCnfCount[p]
      BY <1>2 DEF InPhase, Tally
  <2>2. \/ ps[p] = ph[p]
        \/ ps[p] \notin {"starting", "stopping"} /\ ph[p] \notin {"starting", "stopping"}
      BY <1>4, <1>6
  <2>3. \A d \in Children[p] : ps[d] = ph[d]
      BY <1>6, ChildIs
  <2> QED
      BY <2>1, <2>2, <2>3, TallyKept
<1>15. Calendar(ps)'
    BY <1>2, <1>4, <1>6 DEF InPhase, Calendar
<1>16. InPhase(ps)'
    BY <1>5, <1>11, <1>13, <1>14, <1>15 DEF InPhase, Tree
<1> QED
    BY <1>4, <1>12, <1>16 DEF ps

\* The steps that move no message.
LEMMA QuietStep ==
    ASSUME Orderly, TypeOK, Plumbing, NEW ph, InPhase(ph),
           \/ \E a \in Actors : Listen(a) \/ ListenLate(a)
           \/ Run \/ WaitForIdle \/ WaitForStop \/ StopPriority
           \/ UNCHANGED vars
    PROVE  Plumbing' /\ InPhase(ph)'
<1>1. /\ UNCHANGED <<stopOn, state, childrenCnfCount, message, left, outbox, inbox>>
      /\ listening = Actors => listening' = Actors
    BY DEF Listen, ListenLate, Run, WaitForIdle, WaitForStop, StopPriority, vars, actor, ports, TypeOK
<1>2. \/ UNCHANGED <<running, mpc>>
      \/ mpc = "init" /\ mpc' = "waitForIdle" /\ running' = TRUE
      \/ mpc = "waitForIdle" /\ mpc' = "request" /\ running' = running /\ listening = Actors
      \/ mpc = "wait" /\ mpc' = "stop" /\ running' = running /\ ~running
      \/ mpc = "stop" /\ mpc' = "returned" /\ running' = running
    BY DEF Listen, ListenLate, Run, WaitForIdle, AllListening, WaitForStop, StopPriority, vars, core
<1>3. Mail(ph)'
  <2>1. Stopper' = Stopper
      BY <1>1 DEF Stopper
  <2>2. \A m, s, r : Copies(m, s, r)' = Copies(m, s, r)
      BY <1>1 DEF Copies
  <2>3. Mail(ph)
      BY DEF InPhase
  <2>4. \A b \in Actors :
            /\ StartReqs(b)' = StartReqs(b)
            /\ StopReqs(b)' = StopReqs(b)
            /\ StartConfirms(b)' = StartConfirms(b)
            /\ StopConfirms(b)' = StopConfirms(b)
      BY <2>2 DEF StartReqs, StopReqs, StartConfirms, StopConfirms
  <2>5. News' = News /\ Stops' = Stops
      BY <1>1, <2>1 DEF News, Stops, Copies
  <2> QED
      BY <1>1, <2>3, <2>4, <2>5 DEF Mail
<1>4. Plumbing'
  <2>1. /\ (\A a \in Actors : \A i \in DOMAIN outbox[a] : Sends(a, outbox[a][i]))'
        /\ (\A a \in Actors : \A i \in DOMAIN inbox[a] : Hears(a, inbox[a][i]))'
        /\ (\A a \in Actors : left[a] # 0 => left[a] = 1 /\ Hears(a, message[a]))'
      BY <1>1 DEF Plumbing, Sends, Hears
  <2>2. /\ mpc' \in {"init", "waitForIdle", "request"} =>
               \A a \in Actors : outbox'[a] = <<>> /\ inbox'[a] = <<>> /\ left'[a] = 0
        /\ mpc' \notin {"init", "waitForIdle"} => listening' = Actors
      BY <1>1, <1>2 DEF Plumbing
  <2> QED
      BY <2>1, <2>2 DEF Plumbing
<1>5. Tracks(ph)' /\ Tally(ph)'
    BY <1>1 DEF InPhase, Tracks, Tally, TallyOf
<1>6. Calendar(ph)'
    BY <1>2 DEF InPhase, Calendar
<1> QED
    BY <1>3, <1>4, <1>5, <1>6 DEF InPhase, Tree

\* The port of an actor takes a message or passes one on.
LEMMA PortStep ==
    ASSUME Orderly, TypeOK, Plumbing, NEW ph, InPhase(ph),
           NEW a \in Actors, Take(a) \/ PublishNext(a)
    PROVE  Plumbing' /\ InPhase(ph)'
<1>1. UNCHANGED <<stopOn, state, childrenCnfCount, running, mpc>>
    BY DEF Take, PublishNext, core
<1>2. /\ \A b \in Actors :
             /\ StartReqs(b)' = StartReqs(b)
             /\ StopReqs(b)' = StopReqs(b)
             /\ b # Root => StartConfirms(b)' = StartConfirms(b)
             /\ StopConfirms(b)' = StopConfirms(b)
      /\ News' = News
      /\ Stops' = Stops
    BY PortEffect
<1>3. Mail(ph)'
    BY <1>1, <1>2 DEF InPhase, Mail
<1>4. Tracks(ph)' /\ Tally(ph)' /\ Calendar(ph)'
    BY <1>1 DEF InPhase, Tracks, Tally, TallyOf, Calendar
<1> QED
    BY <1>3, <1>4, PortPlumbing DEF InPhase, Tree

\* How far an actor is with its start.
Stage(x) ==
    IF x \in {"fresh", "startAsked"} THEN "waits"
    ELSE IF x = "starting" THEN "starts" ELSE "through"

\* Only the request to start and the confirmations of the children take an
\* actor further.
Progress(kind, a, ph, ps) ==
    /\ \A b \in Actors \ {a} : Stage(ps[b]) = Stage(ph[b])
    /\ kind = "StartReq" /\ Children[a] # {} =>
           Stage(ph[a]) = "waits" /\ Stage(ps[a]) = "starts"
    /\ kind = "PrivStartCnf" => Stage(ph[a]) = "starts" /\ Stage(ps[a]) # "waits"
    /\ kind \in {"StopReq", "PrivStopCnf"} => Stage(ps[a]) = Stage(ph[a])

LEMMA ForwardProgress ==
    ASSUME Orderly, TypeOK, Plumbing, NEW ph, InPhase(ph), NEW a \in Actors, NEW kind,
           Calls(a, kind), NEW x, NEW y,
           \/ kind = "StartReq" /\ x = "starting" /\ y = "startAsked"
           \/ kind = "StopReq" /\ x = "stopping" /\ y = "stopAsked"
    PROVE  Progress(kind, a, ph, AskingPhases(ph, a, x, y))
<1> DEFINE ps == AskingPhases(ph, a, x, y)
<1>1. /\ kind = "StartReq" => ph[a] = "startAsked"
      /\ kind = "StopReq" => ph[a] = "stopAsked"
    BY Expected
<1>2. ps[a] = x
    BY DEF AskingPhases
<1>3. ASSUME NEW b \in Actors \ {a}
      PROVE  Stage(ps[b]) = Stage(ph[b])
  <2>1. ps[b] = IF b \in Children[a] THEN y ELSE ph[b]
      BY <1>3 DEF AskingPhases
  <2>2. b \in Children[a] => InStep(ph[a], ph[b])
      BY DEF InPhase, Tree
  <2> QED
      BY <1>1, <2>1, <2>2 DEF InStep, Stage
<1> HIDE DEF ps
<1>4. Progress(kind, a, ph, ps)
    BY <1>1, <1>2, <1>3 DEF Progress, Stage
<1> QED
    BY <1>4 DEF ps

LEMMA CountingProgress ==
    ASSUME NEW ph, Tree(ph), NEW a \in Actors, NEW c \in Children[a], NEW kind, NEW x,
           NEW sent, NEW counted,
           \/ /\ kind = "PrivStartCnf" /\ sent = "startSent" /\ counted = "started"
              /\ x \in {"starting", Sent(a)}
           \/ /\ kind = "PrivStopCnf" /\ sent = "stopSent" /\ counted = "stopped"
              /\ x \in {"stopping", "stopSent"},
           ph[c] = sent,
           NEW ps, ps[a] = x, ps[c] = counted, \A b \in Actors \ {a, c} : ps[b] = ph[b]
    PROVE  Progress(kind, a, ph, ps)
<1>1. InStep(ph[a], ph[c]) /\ ph[a] \in Phases
    BY DEF Tree
<1>2. /\ kind = "PrivStartCnf" => ph[a] = "starting"
      /\ kind = "PrivStopCnf" => ph[a] = "stopping"
    BY <1>1 DEF InStep, AllStopped, Phases
<1>3. Stage(ps[c]) = Stage(ph[c])
    BY DEF Stage
<1>4. \A b \in Actors \ {a} : Stage(ps[b]) = Stage(ph[b])
    BY <1>3
<1> QED
    BY <1>2, <1>4 DEF Progress, Stage, Sent

\* The callback of a request.
LEMMA RequestedStep ==
    ASSUME Orderly, TypeOK, Plumbing, NEW ph, InPhase(ph),
           NEW a \in Actors, HandleStartReq(a) \/ HandleStopReq(a)
    PROVE  /\ Plumbing'
           /\ \E kind, ps : Calls(a, kind) /\ Progress(kind, a, ph, ps) /\ InPhase(ps)'
<1>1. UNCHANGED <<stopOn, childrenCnfCount, message, inbox, listening, running, mpc>>
    BY DEF HandleStartReq, HandleStopReq, ports, core
<1>2. ASSUME NEW kind, Calls(a, kind), NEW x, Children[a] = {},
             \/ kind = "StartReq" /\ Started(a) /\ x = Sent(a)
             \/ kind = "StopReq" /\ Stopped(a) /\ x = "stopSent"
      PROVE  Plumbing' /\ Progress(kind, a, ph, [ph EXCEPT ![a] = x])
                 /\ InPhase([ph EXCEPT ![a] = x])'
  <2>1. Plumbing' /\ InPhase([ph EXCEPT ![a] = x])'
      BY <1>1, <1>2, LeafStep
  <2>2. kind = "StopReq" => ph[a] = "stopAsked"
      BY <1>2, Expected
  <2>3. ph \in [Actors -> Phases]
      BY DEF InPhase, Tree
  <2>4. Progress(kind, a, ph, [ph EXCEPT ![a] = x])
      BY <1>2, <2>2, <2>3 DEF Progress, Stage
  <2> QED
      BY <2>1, <2>4
<1>3. ASSUME NEW kind, Calls(a, kind), Forward(a, kind), NEW x, NEW y,
             Children[a] # {}, UNCHANGED state,
             \/ kind = "StartReq" /\ x = "starting" /\ y = "startAsked"
             \/ kind = "StopReq" /\ x = "stopping" /\ y = "stopAsked"
      PROVE  Plumbing' /\ Progress(kind, a, ph, AskingPhases(ph, a, x, y))
                 /\ InPhase(AskingPhases(ph, a, x, y))'
  <2> DEFINE ps == AskingPhases(ph, a, x, y)
  <2>1. ps = [b \in Actors |-> IF b = a THEN x ELSE IF b \in Children[a] THEN y ELSE ph[b]]
      BY DEF AskingPhases
  <2>2. Progress(kind, a, ph, ps)
      BY <1>3, ForwardProgress
  <2> HIDE DEF ps
  <2>3. Plumbing' /\ InPhase(ps)'
      BY <1>1, <1>3, <2>1, ForwardStep
  <2> QED
      BY <2>2, <2>3 DEF ps
<1>4. CASE HandleStartReq(a) /\ Children[a] = {}
  <2>1. Calls(a, "StartReq") /\ Started(a)
      BY <1>4 DEF HandleStartReq
  <2> QED
      BY <1>2, <1>4, <2>1
<1>5. CASE HandleStopReq(a) /\ Children[a] = {}
  <2>1. Calls(a, "StopReq") /\ Stopped(a)
      BY <1>5 DEF HandleStopReq, NoChildren
  <2> QED
      BY <1>2, <1>5, <2>1
<1>6. CASE HandleStartReq(a) /\ Children[a] # {}
  <2>1. Calls(a, "StartReq") /\ Forward(a, "StartReq") /\ UNCHANGED state
      BY <1>6 DEF HandleStartReq
  <2> QED
      BY <1>3, <1>6, <2>1
<1>7. CASE HandleStopReq(a) /\ Children[a] # {}
  <2>1. Calls(a, "StopReq") /\ Forward(a, "StopReq") /\ UNCHANGED state
      BY <1>7 DEF HandleStopReq, NoChildren
  <2> QED
      BY <1>3, <1>7, <2>1
<1> QED
    BY <1>4, <1>5, <1>6, <1>7

\* The callback of a confirmation.
LEMMA ConfirmedStep ==
    ASSUME Orderly, TypeOK, Plumbing, NEW ph, InPhase(ph),
           NEW a \in Actors, HandlePrivStartCnf(a) \/ HandlePrivStopCnf(a)
    PROVE  /\ Plumbing'
           /\ \E kind, ps : Calls(a, kind) /\ Progress(kind, a, ph, ps) /\ InPhase(ps)'
<1>1. UNCHANGED <<stopOn, message, inbox, listening, running, mpc>> /\ Count(a)
    BY DEF HandlePrivStartCnf, HandlePrivStopCnf, ports, core
<1>2. Tree(ph) /\ ph \in [Actors -> Phases]
    BY DEF InPhase, Tree
<1>3. ASSUME NEW kind, Calls(a, kind), NEW sent, NEW counted, Counting(a),
             \/ kind = "PrivStartCnf" /\ sent = "startSent" /\ counted = "started"
             \/ kind = "PrivStopCnf" /\ sent = "stopSent" /\ counted = "stopped"
                /\ message[a].class # ClassOf[Root]
      PROVE  Plumbing' /\ \E ps : Progress(kind, a, ph, ps) /\ InPhase(ps)'
  <2>1. PICK c \in Children[a] : /\ ph[c] = sent
                                 /\ Plumbing'
                                 /\ InPhase([ph EXCEPT ![c] = counted])'
      BY <1>1, <1>3, CountingStep
  <2> DEFINE ps == [ph EXCEPT ![c] = counted]
  <2>2. c \in Actors /\ c # a /\ ph[a] \in Phases /\ InStep(ph[a], ph[c])
    <3>1. c \in Actors /\ InStep(ph[a], ph[c]) /\ ph[a] \in Phases
        BY <1>2, ChildIs DEF Tree
    <3>2. ~InStep(sent, sent)
        BY <1>3 DEF InStep, AllStopped
    <3> QED
        BY <2>1, <3>1, <3>2
  <2>3. ps[a] = ph[a] /\ ps[c] = counted /\ \A b \in Actors \ {a, c} : ps[b] = ph[b]
      BY <1>2, <2>2
  <2>4. ph[a] = IF kind = "PrivStartCnf" THEN "starting" ELSE "stopping"
      BY <1>3, <2>1, <2>2 DEF InStep, AllStopped, Phases
  <2> HIDE DEF ps
  <2>5. Progress(kind, a, ph, ps)
      BY <1>2, <1>3, <2>1, <2>3, <2>4, CountingProgress
  <2> QED
      BY <2>1, <2>5 DEF ps
<1>4. ASSUME NEW kind, Calls(a, kind), NEW sent, NEW counted, NEW x, AllConfirmed(a),
             \/ kind = "PrivStartCnf" /\ Started(a) /\ x = Sent(a)
                /\ sent = "startSent" /\ counted = "started"
             \/ kind = "PrivStopCnf" /\ Stopped(a) /\ x = "stopSent"
                /\ sent = "stopSent" /\ counted = "stopped"
                /\ message[a].class # ClassOf[Root]
      PROVE  Plumbing' /\ \E ps : Progress(kind, a, ph, ps) /\ InPhase(ps)'
  <2>1. PICK c \in Children[a] : /\ ph[c] = sent
                                 /\ Plumbing'
                                 /\ InPhase([[ph EXCEPT ![c] = counted] EXCEPT ![a] = x])'
      BY <1>1, <1>4, CountedStep
  <2> DEFINE ps == [[ph EXCEPT ![c] = counted] EXCEPT ![a] = x]
  <2>2. c \in Actors /\ c # a
    <3>1. c \in Actors /\ InStep(ph[a], ph[c])
        BY <1>2, ChildIs DEF Tree
    <3>2. ~InStep(sent, sent)
        BY <1>4 DEF InStep, AllStopped
    <3> QED
        BY <2>1, <3>1, <3>2
  <2>3. ps[a] = x /\ ps[c] = counted /\ \A b \in Actors \ {a, c} : ps[b] = ph[b]
      BY <1>2, <2>2
  <2> HIDE DEF ps
  <2>4. Progress(kind, a, ph, ps)
      BY <1>2, <1>4, <2>1, <2>3, CountingProgress
  <2> QED
      BY <2>1, <2>4 DEF ps
<1>5. CASE HandlePrivStartCnf(a)
  <2>1. Calls(a, "PrivStartCnf") /\ ((AllConfirmed(a) /\ Started(a)) \/ Counting(a))
      BY <1>5 DEF HandlePrivStartCnf
  <2> QED
      BY <1>3, <1>4, <2>1
<1>6. CASE HandlePrivStopCnf(a)
  <2>1. /\ Calls(a, "PrivStopCnf") /\ message[a].class # ClassOf[Root]
        /\ (AllConfirmed(a) /\ Stopped(a)) \/ Counting(a)
      BY <1>6 DEF HandlePrivStopCnf
  <2> QED
      BY <1>3, <1>4, <2>1
<1> QED
    BY <1>5, <1>6

-----------------------------------------------------------------------------
(***************************************************************************)
(* The inductive invariant.                                                *)
(***************************************************************************)

IInv == TypeOK /\ Counters /\ Plumbing /\ \E ph : InPhase(ph)

LEMMA InitIInv ==
    ASSUME Orderly, Init
    PROVE  IInv
<1> DEFINE ph == [a \in Actors |-> "fresh"]
<1>1. Root \in Actors
    BY LifeCycleAssumption
<1>2. TypeOK /\ Counters
    BY InitTyped
<1>3. Plumbing
    BY DEF Init, Plumbing
<1>4. ph \in [Actors -> Phases] /\ \A a \in Actors : ph[a] = "fresh"
    BY DEF Phases
<1> HIDE DEF ph
<1>5. Tree(ph)
    BY <1>1, <1>4, ChildIs DEF Tree, InStep, AllStopped
<1>6. Tracks(ph)
    BY <1>4 DEF Tracks, StateOf, NotStarted, Init
<1>7. Mail(ph)
  <2>1. ASSUME NEW m, NEW s \in Actors, NEW r \in Actors
        PROVE  Copies(m, s, r) = 0
    <3>1. outbox[s] = <<>> /\ inbox[r] = <<>> /\ left[r] = 0
        BY DEF Init
    <3>2. Waiting(<<>>, m) = 0
        BY WaitingEmpty
    <3> QED
        BY <3>1, <3>2 DEF Copies
  <2>2. ASSUME NEW b \in Actors
        PROVE  /\ StartReqs(b) = 0 /\ StopReqs(b) = 0
               /\ StartConfirms(b) = 0 /\ StopConfirms(b) = 0
      BY <2>1, ParentIs DEF StartReqs, StopReqs, StartConfirms, StopConfirms
  <2>3. News = 0 /\ Stops = 0
    <3>1. Stopper \in Actors
        BY <1>2, StopperIs
    <3> QED
        BY <1>1, <2>1, <3>1 DEF News, Stops
  <2> QED
      BY <1>1, <1>4, <2>2, <2>3 DEF Mail, One
<1>8. Tally(ph)
    BY <1>4 DEF Tally, TallyOf, Init
<1>9. Calendar(ph)
    BY <1>1, <1>4 DEF Calendar, Init
<1> QED
    BY <1>2, <1>3, <1>5, <1>6, <1>7, <1>8, <1>9 DEF IInv, InPhase

LEMMA NextIInv ==
    ASSUME Orderly, IInv, [Next]_vars
    PROVE  IInv'
<1>1. PICK ph : InPhase(ph)
    BY DEF IInv
<1>2. TypeOK /\ Counters /\ Plumbing
    BY DEF IInv
<1>3. TypeOK' /\ Counters'
    BY <1>2, NextTyped
<1>4. Plumbing' /\ \E ps : InPhase(ps)'
  <2>1. ASSUME NEW a \in Actors, Take(a) \/ PublishNext(a)
        PROVE  Plumbing' /\ \E ps : InPhase(ps)'
      BY <1>1, <1>2, <2>1, PortStep
  <2>2. ASSUME NEW a \in Actors, HandleStartReq(a) \/ HandleStopReq(a)
        PROVE  Plumbing' /\ \E ps : InPhase(ps)'
      BY <1>1, <1>2, <2>2, RequestedStep
  <2>3. ASSUME NEW a \in Actors, HandlePrivStartCnf(a) \/ HandlePrivStopCnf(a)
        PROVE  Plumbing' /\ \E ps : InPhase(ps)'
      BY <1>1, <1>2, <2>3, ConfirmedStep
  <2>4. ASSUME NEW a \in Actors, HandleStartCnf(a)
        PROVE  Plumbing' /\ \E ps : InPhase(ps)'
      BY <1>1, <1>2, <2>4, UserStep
  <2>5. ASSUME NEW a \in Actors, HearLate(a)
        PROVE  Plumbing' /\ \E ps : InPhase(ps)'
      BY <1>1, <1>2, <2>5, LateStep
  <2>6. ASSUME HandleStop
        PROVE  Plumbing' /\ \E ps : InPhase(ps)'
      BY <1>1, <1>2, <2>6, StopStep
  <2>7. ASSUME HandleRootStopCnf
        PROVE  Plumbing' /\ \E ps : InPhase(ps)'
      BY <1>1, <1>2, <2>7, RootStoppedStep
  <2>8. ASSUME SendStartReq
        PROVE  Plumbing' /\ \E ps : InPhase(ps)'
      BY <1>1, <1>2, <2>8, RequestStep
  <2>9. ASSUME \/ \E a \in Actors : Listen(a) \/ ListenLate(a)
               \/ Run \/ WaitForIdle \/ WaitForStop \/ StopPriority
               \/ UNCHANGED vars
        PROVE  Plumbing' /\ \E ps : InPhase(ps)'
      BY <1>1, <1>2, <2>9, QuietStep
  <2> QED
      BY <2>1, <2>2, <2>3, <2>4, <2>5, <2>6, <2>7, <2>8, <2>9
         DEF Next, Actor, RootOfCore, RunThread, Terminated
<1> QED
    BY <1>3, <1>4 DEF IInv

LEMMA Inductive ==
    ASSUME Orderly
    PROVE  Spec => []IInv
<1>1. Init => IInv
    BY InitIInv
<1>2. IInv /\ [Next]_vars => IInv'
    BY NextIInv
<1> QED
    BY <1>1, <1>2, PTL DEF Spec

-----------------------------------------------------------------------------
(***************************************************************************)
(* What it shows.  The hypothesis is on the constants: every actor has a   *)
(* class of its own and at most one user stops the system, when it hears   *)
(* that the root has started.                                              *)
(***************************************************************************)

\* The phases and the states.
LEMMA PhaseIs ==
    ASSUME NEW ph, Tree(ph), Tracks(ph), NEW a \in Actors
    PROVE  /\ state[a] = "CTOR_FINISHED" <=> ph[a] \in {"fresh", "startAsked", "starting"}
           /\ state[a] = "STARTED" <=> ph[a] \in {"startSent", "started", "stopAsked", "stopping"}
           /\ state[a] = "STOPPED" <=> ph[a] \in {"stopSent", "stopped"}
<1>1. state[a] = StateOf(ph[a]) /\ ph[a] \in Phases
    BY DEF Tree, Tracks
<1> QED
    BY <1>1 DEF StateOf, NotStarted, AllStopped, Phases

LEMMA TwoPhases ==
    ASSUME NEW p \in Actors, NEW ph, NEW x, NEW y, x # y
    PROVE  /\ Cardinality(In(p, ph, x) \cup In(p, ph, y))
                = Cardinality(In(p, ph, x)) + Cardinality(In(p, ph, y))
           /\ Cardinality(In(p, ph, x)) \in Nat
           /\ Cardinality(In(p, ph, y)) \in Nat
<1>1. In(p, ph, x) \in SUBSET Children[p] /\ In(p, ph, y) \in SUBSET Children[p]
    BY DEF In
<1>2. IsFiniteSet(In(p, ph, x)) /\ IsFiniteSet(In(p, ph, y))
    BY <1>1, ChildrenFinite, FS_Subset
<1>3. In(p, ph, x) \cap In(p, ph, y) = {}
    BY DEF In
<1>4. Cardinality(In(p, ph, x)) \in Nat /\ Cardinality(In(p, ph, y)) \in Nat
    BY <1>2, FS_CardinalityType
<1>5. Cardinality(In(p, ph, x) \cup In(p, ph, y))
          = Cardinality(In(p, ph, x)) + Cardinality(In(p, ph, y))
                - Cardinality(In(p, ph, x) \cap In(p, ph, y))
    BY <1>2, FS_Union
<1>6. Cardinality(In(p, ph, x) \cap In(p, ph, y)) = 0
    BY <1>3, FS_EmptySet
<1> QED
    BY <1>4, <1>5, <1>6

LEMMA InFlightIs ==
    ASSUME NEW ph, InPhase(ph), NEW p \in Actors, NEW c \in Children[p]
    PROVE  /\ InFlight("PrivStartCnf", c, p) = 1 <=> ph[c] = "startSent"
           /\ InFlight("PrivStopCnf", c, p) = 1 <=> ph[c] = "stopSent"
<1>1. c \in Actors /\ c # Root /\ Parent(c) = p
    BY ChildIs
<1>2. /\ InFlight("PrivStartCnf", c, p) = StartConfirms(c)
      /\ InFlight("PrivStopCnf", c, p) = StopConfirms(c)
    BY <1>1 DEF InFlight, StartConfirms, StopConfirms, Copies
<1> QED
    BY <1>1, <1>2 DEF InPhase, Mail, One

LEMMA AddUp ==
    ASSUME NEW ph, InPhase(ph)
    PROVE  ConfirmationsAddUp
<1> SUFFICES ASSUME NEW p \in Actors
             PROVE  LET Reached(s) == {c \in Children[p] : state[c] = s}
                        OnTheWay(kind, S) == {c \in S : InFlight(kind, c, p) = 1}
                    IN  /\ state[p] = "CTOR_FINISHED" =>
                               childrenCnfCount[p]
                                   + Cardinality(OnTheWay("PrivStartCnf", Reached("STARTED")))
                                   = Cardinality(Reached("STARTED"))
                        /\ state[p] = "STARTED" =>
                               childrenCnfCount[p]
                                   + Cardinality(OnTheWay("PrivStopCnf", Reached("STOPPED")))
                                   = Cardinality(Reached("STOPPED"))
    BY DEF ConfirmationsAddUp
<1> DEFINE Reached(s) == {c \in Children[p] : state[c] = s}
           OnTheWay(kind, S) == {c \in S : InFlight(kind, c, p) = 1}
<1>1. Tree(ph) /\ Tracks(ph) /\ TallyOf(p, ph)
    BY DEF InPhase, Tally
<1>2. ASSUME NEW c \in Children[p]
      PROVE  /\ InStep(ph[p], ph[c])
             /\ state[c] = "STARTED" <=> ph[c] \in {"startSent", "started", "stopAsked", "stopping"}
             /\ state[c] = "STOPPED" <=> ph[c] \in {"stopSent", "stopped"}
             /\ InFlight("PrivStartCnf", c, p) = 1 <=> ph[c] = "startSent"
             /\ InFlight("PrivStopCnf", c, p) = 1 <=> ph[c] = "stopSent"
  <2>1. c \in Actors
      BY ChildIs
  <2>2. InStep(ph[p], ph[c])
      BY <1>1 DEF Tree
  <2> QED
      BY <1>1, <2>1, <2>2, PhaseIs, InFlightIs
<1>3. Cardinality({}) = 0
    BY FS_EmptySet
<1>4. ASSUME state[p] = "CTOR_FINISHED"
      PROVE  childrenCnfCount[p] + Cardinality(OnTheWay("PrivStartCnf", Reached("STARTED")))
                 = Cardinality(Reached("STARTED"))
  <2>1. ph[p] \in {"fresh", "startAsked", "starting"}
      BY <1>1, <1>4, PhaseIs
  <2>2. CASE ph[p] = "starting"
    <3> DEFINE R == Reached("STARTED")
               W == OnTheWay("PrivStartCnf", R)
    <3>1. R = In(p, ph, "startSent") \cup In(p, ph, "started") /\ W = In(p, ph, "startSent")
        BY <1>2, <2>2 DEF InStep, In
    <3> HIDE DEF R, W
    <3>2. childrenCnfCount[p] = Cardinality(In(p, ph, "started"))
        BY <1>1, <2>2 DEF TallyOf
    <3>3. /\ Cardinality(In(p, ph, "startSent") \cup In(p, ph, "started"))
                = Cardinality(In(p, ph, "startSent")) + Cardinality(In(p, ph, "started"))
          /\ Cardinality(In(p, ph, "startSent")) \in Nat
          /\ Cardinality(In(p, ph, "started")) \in Nat
        BY TwoPhases
    <3>4. childrenCnfCount[p] + Cardinality(W) = Cardinality(R)
        BY <3>1, <3>2, <3>3
    <3> QED
        BY <3>4 DEF R, W
  <2>3. CASE ph[p] \in {"fresh", "startAsked"}
    <3>1. Reached("STARTED") = {} /\ OnTheWay("PrivStartCnf", Reached("STARTED")) = {}
        BY <1>2, <2>3 DEF InStep
    <3>2. childrenCnfCount[p] = 0
        BY <1>1, <2>3 DEF TallyOf
    <3> QED
        BY <1>3, <3>1, <3>2
  <2> QED
      BY <2>1, <2>2, <2>3
<1>5. ASSUME state[p] = "STARTED"
      PROVE  childrenCnfCount[p] + Cardinality(OnTheWay("PrivStopCnf", Reached("STOPPED")))
                 = Cardinality(Reached("STOPPED"))
  <2>1. ph[p] \in {"startSent", "started", "stopAsked", "stopping"}
      BY <1>1, <1>5, PhaseIs
  <2>2. CASE ph[p] = "stopping"
    <3> DEFINE R == Reached("STOPPED")
               W == OnTheWay("PrivStopCnf", R)
    <3>1. R = In(p, ph, "stopSent") \cup In(p, ph, "stopped") /\ W = In(p, ph, "stopSent")
        BY <1>2, <2>2 DEF InStep, In
    <3> HIDE DEF R, W
    <3>2. childrenCnfCount[p] = Cardinality(In(p, ph, "stopped"))
        BY <1>1, <2>2 DEF TallyOf
    <3>3. /\ Cardinality(In(p, ph, "stopSent") \cup In(p, ph, "stopped"))
                = Cardinality(In(p, ph, "stopSent")) + Cardinality(In(p, ph, "stopped"))
          /\ Cardinality(In(p, ph, "stopSent")) \in Nat
          /\ Cardinality(In(p, ph, "stopped")) \in Nat
        BY TwoPhases
    <3>4. childrenCnfCount[p] + Cardinality(W) = Cardinality(R)
        BY <3>1, <3>2, <3>3
    <3> QED
        BY <3>4 DEF R, W
  <2>3. CASE ph[p] \in {"startSent", "started", "stopAsked"}
    <3>1. Reached("STOPPED") = {} /\ OnTheWay("PrivStopCnf", Reached("STOPPED")) = {}
        BY <1>2, <2>3 DEF InStep
    <3>2. childrenCnfCount[p] = 0
        BY <1>1, <2>3 DEF TallyOf
    <3> QED
        BY <1>3, <3>1, <3>2
  <2> QED
      BY <2>1, <2>2, <2>3
<1> QED
    BY <1>4, <1>5

LEMMA FromTheLeaves ==
    ASSUME NEW ph, InPhase(ph)
    PROVE  StartedAfterChildren /\ StoppedAfterChildren
<1>1. Tree(ph) /\ Tracks(ph)
    BY DEF InPhase
<1>2. ASSUME NEW a \in Actors, NEW c \in Children[a]
      PROVE  /\ state[a] = "STARTED" => state[c] # "CTOR_FINISHED"
             /\ state[a] = "STOPPED" => state[c] = "STOPPED"
  <2>1. c \in Actors
      BY ChildIs
  <2>2. InStep(ph[a], ph[c])
      BY <1>1 DEF Tree
  <2>3. /\ state[a] = "STARTED" <=> ph[a] \in {"startSent", "started", "stopAsked", "stopping"}
        /\ state[a] = "STOPPED" <=> ph[a] \in {"stopSent", "stopped"}
      BY <1>1, PhaseIs
  <2>4. /\ state[c] = "CTOR_FINISHED" <=> ph[c] \in {"fresh", "startAsked", "starting"}
        /\ state[c] = "STOPPED" <=> ph[c] \in {"stopSent", "stopped"}
      BY <1>1, <2>1, PhaseIs
  <2> QED
      BY <2>2, <2>3, <2>4 DEF InStep, AllStopped
<1> QED
    BY <1>2 DEF StartedAfterChildren, StoppedAfterChildren

\* While somebody stops the root does.
LEMMA RootStops ==
    ASSUME NEW ph, Tree(ph), NEW a \in Actors, ph[a] \in {"stopAsked", "stopping"}
    PROVE  ph[Root] \in {"stopAsked", "stopping"}
<1> DEFINE S == {b \in Actors : ph[b] \in {"stopAsked", "stopping"}}
<1>1. PICK b \in S : Parents(b) \cap S = {}
  <2>1. S \in (SUBSET Actors) \ {{}}
      OBVIOUS
  <2> QED
      BY <2>1, LifeCycleAssumption
<1>2. CASE b = Root
    BY <1>2
<1>3. CASE b # Root
  <2>1. Parent(b) \in Actors /\ b \in Children[Parent(b)]
      BY <1>3, ParentIs
  <2>2. InStep(ph[Parent(b)], ph[b]) /\ ph[Parent(b)] \in Phases
      BY <2>1 DEF Tree
  <2>3. ph[Parent(b)] = "stopping"
      BY <2>2 DEF InStep, AllStopped, Phases
  <2>4. Parent(b) \in S /\ Parent(b) \in Parents(b)
      BY <2>1, <2>3 DEF Parents
  <2> QED
      BY <1>1, <2>4
<1> QED
    BY <1>2, <1>3

\* A step that confirms a start or a stop is one of the abstract steps.
LEMMA StartedStarts ==
    ASSUME Orderly, TypeOK, Plumbing, NEW ph, InPhase(ph), NEW a \in Actors, NEW kind,
           Calls(a, kind), Started(a), UNCHANGED mpc,
           \/ kind = "StartReq" /\ Children[a] = {}
           \/ kind = "PrivStartCnf" /\ AllConfirmed(a)
    PROVE  Promise!Start(a)
<1>1. Tree(ph) /\ Tracks(ph) /\ ph \in [Actors -> Phases]
    BY DEF InPhase, Tree
<1>2. /\ ph[a] \in {"startAsked", "starting"}
      /\ \A d \in Children[a] : ph[d] \in {"startSent", "started"}
  <2>1. CASE kind = "StartReq" /\ Children[a] = {}
      BY <2>1, Expected
  <2>2. CASE kind = "PrivStartCnf" /\ AllConfirmed(a)
    <3>1. PICK c \in Children[a] : Counted(kind, a, c, ph, "starting", "startSent", "started")
        BY <2>2, CountedIs
    <3>2. /\ ph[c] = "startSent" /\ ph[a] = "starting"
          /\ \A d \in Children[a] : [ph EXCEPT ![c] = "started"][d] = "started"
        BY <2>2, <3>1 DEF Counted
    <3>3. \A d \in Children[a] : d \in Actors
        BY ChildIs
    <3> QED
        BY <1>1, <3>2, <3>3
  <2> QED
      BY <2>1, <2>2
<1>3. state[a] = "CTOR_FINISHED"
    BY <1>1, <1>2, PhaseIs
<1>4. \A d \in Children[a] : state[d] = "STARTED"
    BY <1>1, <1>2, ChildIs, PhaseIs
<1> QED
    BY <1>3, <1>4 DEF Promise!Start, Started

LEMMA StoppedStops ==
    ASSUME Orderly, TypeOK, Plumbing, NEW ph, InPhase(ph), NEW a \in Actors, NEW kind,
           Calls(a, kind), Stopped(a), UNCHANGED mpc,
           \/ kind = "StopReq" /\ Children[a] = {}
           \/ kind = "PrivStopCnf" /\ AllConfirmed(a) /\ message[a].class # ClassOf[Root]
    PROVE  Promise!Stop(a)
<1>1. Tree(ph) /\ Tracks(ph) /\ ph \in [Actors -> Phases] /\ Root \in Actors
    BY LifeCycleAssumption DEF InPhase, Tree
<1>2. /\ ph[a] \in {"stopAsked", "stopping"}
      /\ \A d \in Children[a] : ph[d] \in {"stopSent", "stopped"}
  <2>1. CASE kind = "StopReq" /\ Children[a] = {}
      BY <2>1, Expected
  <2>2. CASE kind = "PrivStopCnf" /\ AllConfirmed(a) /\ message[a].class # ClassOf[Root]
    <3>1. PICK c \in Children[a] : Counted(kind, a, c, ph, "stopping", "stopSent", "stopped")
        BY <2>2, CountedIs
    <3>2. /\ ph[c] = "stopSent" /\ ph[a] = "stopping"
          /\ \A d \in Children[a] : [ph EXCEPT ![c] = "stopped"][d] = "stopped"
        BY <2>2, <3>1 DEF Counted
    <3>3. \A d \in Children[a] : d \in Actors
        BY ChildIs
    <3> QED
        BY <1>1, <3>2, <3>3
  <2> QED
      BY <2>1, <2>2
<1>3. ph[Root] \in {"stopAsked", "stopping"}
    BY <1>1, <1>2, RootStops
<1>4. state[a] = "STARTED" /\ state[Root] = "STARTED"
    BY <1>1, <1>2, <1>3, PhaseIs
<1>5. \A d \in Children[a] : state[d] = "STOPPED"
    BY <1>1, <1>2, ChildIs, PhaseIs
<1> QED
    BY <1>4, <1>5 DEF Promise!Stop, Stopped

LEMMA NextImplements ==
    ASSUME Orderly, IInv, [Next]_vars
    PROVE  [Promise!Next]_(Promise!vars)
<1>1. PICK ph : InPhase(ph)
    BY DEF IInv
<1>2. TypeOK /\ Plumbing
    BY DEF IInv
<1>3. ASSUME UNCHANGED <<state, mpc>>
      PROVE  [Promise!Next]_(Promise!vars)
    BY <1>3 DEF Promise!vars
<1>4. ASSUME NEW a \in Actors, HandleStartReq(a) \/ HandlePrivStartCnf(a)
      PROVE  [Promise!Next]_(Promise!vars)
  <2>1. UNCHANGED mpc
      BY <1>4 DEF HandleStartReq, HandlePrivStartCnf, core
  <2>2. CASE UNCHANGED state
      BY <1>3, <2>1, <2>2
  <2>3. CASE Calls(a, "StartReq") /\ Children[a] = {} /\ Started(a)
    <3>1. Promise!Start(a)
        BY <1>1, <1>2, <2>1, <2>3, StartedStarts
    <3> QED
        BY <3>1 DEF Promise!Next
  <2>4. CASE Calls(a, "PrivStartCnf") /\ AllConfirmed(a) /\ Started(a)
    <3>1. Promise!Start(a)
        BY <1>1, <1>2, <2>1, <2>4, StartedStarts
    <3> QED
        BY <3>1 DEF Promise!Next
  <2> QED
      BY <1>4, <2>2, <2>3, <2>4 DEF HandleStartReq, HandlePrivStartCnf, Counting
<1>5. ASSUME NEW a \in Actors, HandleStopReq(a) \/ HandlePrivStopCnf(a)
      PROVE  [Promise!Next]_(Promise!vars)
  <2>1. UNCHANGED mpc
      BY <1>5 DEF HandleStopReq, HandlePrivStopCnf, core
  <2>2. CASE UNCHANGED state
      BY <1>3, <2>1, <2>2
  <2>3. CASE Calls(a, "StopReq") /\ Children[a] = {} /\ Stopped(a)
    <3>1. Promise!Stop(a)
        BY <1>1, <1>2, <2>1, <2>3, StoppedStops
    <3> QED
        BY <3>1 DEF Promise!Next
  <2>4. CASE /\ Calls(a, "PrivStopCnf") /\ message[a].class # ClassOf[Root]
             /\ AllConfirmed(a) /\ Stopped(a)
    <3>1. Promise!Stop(a)
        BY <1>1, <1>2, <2>1, <2>4, StoppedStops
    <3> QED
        BY <3>1 DEF Promise!Next
  <2> QED
      BY <1>5, <2>2, <2>3, <2>4 DEF HandleStopReq, HandlePrivStopCnf, Counting, NoChildren
<1>6. ASSUME StopPriority
      PROVE  [Promise!Next]_(Promise!vars)
  <2>1. ph[Root] = "stopped" /\ Tree(ph) /\ Tracks(ph) /\ Root \in Actors
      BY <1>1, <1>6, LifeCycleAssumption DEF StopPriority, InPhase, Calendar
  <2>2. state[Root] = "STOPPED"
      BY <2>1, PhaseIs
  <2>3. UNCHANGED state /\ mpc' = "returned"
      BY <1>6 DEF StopPriority, actor
  <2> QED
      BY <2>2, <2>3 DEF Promise!Next, Promise!Return
<1>7. ASSUME \/ \E a \in Actors : \/ Listen(a) \/ ListenLate(a) \/ Take(a) \/ PublishNext(a)
                                  \/ HandleStartCnf(a) \/ HearLate(a)
             \/ HandleStop \/ HandleRootStopCnf
             \/ UNCHANGED vars
      PROVE  [Promise!Next]_(Promise!vars)
  <2>1. UNCHANGED <<state, mpc>>
      BY <1>7 DEF Listen, ListenLate, Take, PublishNext, HandleStartCnf, HearLate,
                  HandleStop, HandleRootStopCnf, vars, actor, core
  <2> QED
      BY <1>3, <2>1
<1>8. ASSUME Run \/ WaitForIdle \/ SendStartReq \/ WaitForStop
      PROVE  [Promise!Next]_(Promise!vars)
  <2>1. UNCHANGED state /\ (mpc = "returned")' = (mpc = "returned")
      BY <1>8 DEF Run, WaitForIdle, SendStartReq, WaitForStop, actor
  <2> QED
      BY <2>1 DEF Promise!vars
<1> QED
    BY <1>4, <1>5, <1>6, <1>7, <1>8 DEF Next, Actor, RootOfCore, RunThread, Terminated

-----------------------------------------------------------------------------
(***************************************************************************)
(* The late listens of the actors with children.  Such an actor asks for   *)
(* them with the request to start and has them before a child confirms.    *)
(***************************************************************************)

LateOfParents == {l \in Late : Children[l[1]] # {}}

\* How far a late listen has come when the actor is in stage x.
ListenIn(l, x) ==
    LET Calling(kind) == left[l[1]] > 0 /\ message[l[1]].kind = kind
    IN  /\ x = "waits" => listens[l] = IF Calling("StartReq") THEN "asked" ELSE "none"
        /\ x = "starts" => /\ listens[l] # "none"
                           /\ Calling("PrivStartCnf") => listens[l] = "inForce"
        /\ x = "through" => listens[l] = "inForce"

ListensIn(ph) == \A l \in LateOfParents : ListenIn(l, Stage(ph[l[1]]))

LEMMA LateIs ==
    ASSUME NEW l \in Late
    PROVE  /\ l = <<l[1], l[2]>>
           /\ l[1] \in Actors
           /\ l[2] \in Messages
           /\ l[2].kind \in {"StartCnf", "StopCnf"}
           /\ l[2] = Message(l[2].kind, l[2].class)
           /\ l[2].class # ClassOf[l[1]]
           /\ \A u \in Users : <<l[1], l[2].class>> \notin u
<1>1. l \in Actors \X [kind : {"StartCnf", "StopCnf"}, class : Classes]
    BY LifeCycleAssumption
<1>2. l[2].class # ClassOf[l[1]] /\ \A u \in Users : <<l[1], l[2].class>> \notin u
    BY LifeCycleAssumption
<1>3. l[2] \in Messages
    BY <1>1 DEF Messages, Kinds
<1> QED
    BY <1>1, <1>2, <1>3, MessageIs

LEMMA StagesAre ==
    ASSUME NEW x
    PROVE  Stage(x) \in {"waits", "starts", "through"}
BY DEF Stage

\* A callback that asks for nothing.
LEMMA ListensCalled ==
    ASSUME TypeOK, Plumbing, NEW ph, ListensIn(ph), NEW a \in Actors, NEW kind, Calls(a, kind),
           UNCHANGED <<listens, message>>,
           NEW ps,
           \A b \in Actors \ {a} : Stage(ps[b]) = Stage(ph[b]),
           \/ kind = "StartReq" /\ Children[a] = {}
           \/ kind = "StartReq" /\ Stage(ph[a]) = "waits" /\ Stage(ps[a]) = "starts"
           \/ kind = "PrivStartCnf" /\ Stage(ph[a]) = "starts" /\ Stage(ps[a]) # "waits"
           \/ kind \notin {"StartReq", "PrivStartCnf"} /\ Stage(ps[a]) = Stage(ph[a])
    PROVE  ListensIn(ps)'
<1>1. /\ left[a] > 0 /\ left[a] = 1
      /\ left' = [left EXCEPT ![a] = @ - 1]
      /\ message[a].kind = kind
    BY Called
<1>2. left'[a] = 0 /\ \A b \in Actors \ {a} : left'[b] = left[b]
    BY <1>1 DEF TypeOK
<1>3. ASSUME NEW l \in LateOfParents
      PROVE  ListenIn(l, Stage(ps[l[1]]))'
  <2>1. l \in Late /\ l[1] \in Actors /\ Children[l[1]] # {}
      BY LateIs DEF LateOfParents
  <2>2. ListenIn(l, Stage(ph[l[1]]))
      BY DEF ListensIn
  <2>3. CASE l[1] # a
      BY <1>2, <2>1, <2>2, <2>3 DEF ListenIn
  <2>4. CASE l[1] = a
    <3>1. ~(left'[l[1]] > 0)
        BY <1>2, <2>4
    <3> QED
        BY <1>1, <2>1, <2>2, <2>4, <3>1, StagesAre DEF ListenIn
  <2> QED
      BY <2>3, <2>4
<1> QED
    BY <1>3 DEF ListensIn, LateOfParents

\* The request to start comes to an actor that has not asked yet, and no
\* confirmation is taken before the listens are in force.
LEMMA ListensTaken ==
    ASSUME Orderly, TypeOK, Plumbing, NEW ph, InPhase(ph), ListensIn(ph),
           NEW a \in Actors, Take(a)
    PROVE  ListensIn(ph)'
<1> DEFINE h == Head(inbox[a])
<1>1. /\ inbox[a] \in Seq(Messages) /\ inbox[a] # <<>>
      /\ h \in Messages /\ h = inbox[a][1] /\ 1 \in DOMAIN inbox[a]
      /\ Tail(inbox[a]) \in Seq(Messages)
    BY DEF Take, TypeOK
<1>2. Hears(a, h)
    BY <1>1 DEF Plumbing
<1>3. /\ left[a] = 0 /\ Asked(a) = {}
      /\ left'[a] = Listeners(a, h) /\ message'[a] = h
      /\ \A b \in Actors \ {a} : left'[b] = left[b] /\ message'[b] = message[b]
      /\ listens' = ListensAfter(a, h)
    BY DEF Take, Idle, CommandsOf, TypeOK
<1>4. Waiting(inbox[a], h) = Waiting(Tail(inbox[a]), h) + One(h = h)
    BY <1>1, WaitingTail
<1>5. Waiting(Tail(inbox[a]), h) \in Nat
    BY <1>1, WaitingIs
<1> HIDE DEF h
<1>6. h.kind = "StartReq" => ph[a] = "startAsked" /\ left'[a] > 0
  <2> SUFFICES ASSUME h.kind = "StartReq"
               PROVE  ph[a] = "startAsked" /\ left'[a] > 0
      OBVIOUS
  <2>1. h.class = ClassOf[a] /\ h = Message("StartReq", ClassOf[a])
      BY <1>1, <1>2, MessageIs DEF Hears
  <2>2. Parent(a) \in Actors
      BY ParentIs
  <2>3. Waiting(outbox[Parent(a)], h) \in Nat
      BY <2>2, CopiesIs
  <2>4. StartReqs(a) = Waiting(outbox[Parent(a)], h) + Waiting(inbox[a], h)
                           + (IF message[a] = h THEN left[a] ELSE 0)
      BY <2>1 DEF StartReqs, Copies
  <2>5. StartReqs(a) # 0
      BY <1>3, <1>4, <1>5, <2>3, <2>4 DEF One
  <2>6. Listeners(a, h) = 1
      BY <1>1, <2>1, OneListener
  <2> QED
      BY <1>3, <2>5, <2>6 DEF InPhase, Mail, One
<1>7. ASSUME NEW l \in LateOfParents
      PROVE  ListenIn(l, Stage(ph[l[1]]))'
  <2>1. l \in Late /\ l[1] \in Actors
      BY LateIs DEF LateOfParents
  <2>2. ListenIn(l, Stage(ph[l[1]]))
      BY DEF ListensIn
  <2>3. listens'[l] = IF l[1] = a /\ h.kind = "StartReq" THEN "asked" ELSE listens[l]
      BY <1>3, <2>1 DEF ListensAfter
  <2>4. CASE l[1] # a
      BY <1>3, <2>1, <2>2, <2>3, <2>4 DEF ListenIn
  <2>5. CASE l[1] = a /\ h.kind = "StartReq"
    <3>1. Stage(ph[l[1]]) = "waits"
        BY <1>6, <2>5 DEF Stage
    <3>2. listens'[l] = "asked" /\ left'[l[1]] > 0 /\ message'[l[1]].kind = "StartReq"
        BY <1>3, <1>6, <2>3, <2>5
    <3> QED
        BY <3>1, <3>2 DEF ListenIn
  <2>6. CASE l[1] = a /\ h.kind # "StartReq"
    <3>1. listens'[l] = listens[l] /\ ~(left[l[1]] > 0) /\ message'[l[1]].kind # "StartReq"
        BY <1>3, <2>3, <2>6
    <3>2. listens[l] \in {"none", "inForce"}
        BY <1>3, <2>1, <2>6 DEF Asked, TypeOK
    <3> QED
        BY <2>2, <3>1, <3>2 DEF ListenIn
  <2> QED
      BY <2>4, <2>5, <2>6
<1> QED
    BY <1>7 DEF ListensIn, LateOfParents

\* A command is processed after the callback that has given it.
LEMMA ListensProcessed ==
    ASSUME TypeOK, NEW ph, ListensIn(ph), NEW a \in Actors, ListenLate(a)
    PROVE  ListensIn(ph)'
<1>1. PICK k \in Asked(a) : listens' = [listens EXCEPT ![k] = "inForce"]
    BY DEF ListenLate
<1>2. left[a] = 0 /\ UNCHANGED <<left, message>>
    BY DEF ListenLate, Idle, actor
<1>3. k \in Late /\ k[1] = a /\ listens[k] = "asked"
    BY DEF Asked
<1>4. ASSUME NEW l \in LateOfParents
      PROVE  ListenIn(l, Stage(ph[l[1]]))'
  <2>1. l \in Late
      BY DEF LateOfParents
  <2>2. ListenIn(l, Stage(ph[l[1]]))
      BY DEF ListensIn
  <2>3. CASE l = k
    <3>1. listens'[l] = "inForce"
        BY <1>1, <1>3, <2>3 DEF TypeOK
    <3>2. Stage(ph[l[1]]) # "waits"
        BY <1>2, <1>3, <2>2, <2>3 DEF ListenIn
    <3> QED
        BY <3>1, <3>2 DEF ListenIn
  <2>4. CASE l # k
    <3>1. listens'[l] = listens[l]
        BY <1>1, <2>1, <2>4 DEF TypeOK
    <3> QED
        BY <1>2, <2>2, <3>1 DEF ListenIn
  <2> QED
      BY <2>3, <2>4
<1> QED
    BY <1>4 DEF ListensIn, LateOfParents

LEMMA ListensKept ==
    ASSUME NEW ph, ListensIn(ph), UNCHANGED <<listens, left, message>>,
           NEW ps, \A b \in Actors : Stage(ps[b]) = Stage(ph[b])
    PROVE  ListensIn(ps)'
<1>1. ASSUME NEW l \in LateOfParents
      PROVE  ListenIn(l, Stage(ps[l[1]]))'
  <2>1. l[1] \in Actors
      BY LateIs DEF LateOfParents
  <2>2. ListenIn(l, Stage(ph[l[1]]))
      BY DEF ListensIn
  <2> QED
      BY <2>1, <2>2 DEF ListenIn
<1> QED
    BY <1>1 DEF ListensIn, LateOfParents

\* Once the root has started everybody has, and nobody stops before.
LEMMA StartedBelow ==
    ASSUME NEW ph, Tree(ph), Tracks(ph), NEW a \in Actors, state[a] = "CTOR_FINISHED"
    PROVE  /\ state[Root] = "CTOR_FINISHED"
           /\ \A b \in Actors : state[b] # "STOPPED"
<1>1. /\ Root \in Actors
      /\ ph[a] \in NotStarted
      /\ \A b \in Actors : ph[b] \in Phases
    BY LifeCycleAssumption, PhaseIs DEF Tree, NotStarted
<1>2. ASSUME NEW b \in Actors \ {Root}
      PROVE  Parent(b) \in Actors /\ InStep(ph[Parent(b)], ph[b])
  <2>1. Parent(b) \in Actors /\ b \in Children[Parent(b)]
      BY ParentIs
  <2> QED
      BY <2>1 DEF Tree
<1>3. ph[Root] \in NotStarted
  <2> SUFFICES ASSUME ph[Root] \notin NotStarted
               PROVE  FALSE
      OBVIOUS
  <2> DEFINE S == {b \in Actors : ph[b] \notin NotStarted}
  <2>1. \A b \in Actors \ {Root} : Parent(b) \in S => b \in S
      BY <1>1, <1>2 DEF InStep, NotStarted, AllStopped, Phases
  <2>2. S \in SUBSET Actors /\ Root \in S
      BY <1>1
  <2> HIDE DEF S
  <2>3. S = Actors
      BY <2>1, <2>2, Descent
  <2> QED
      BY <1>1, <2>3 DEF S
<1>4. \A b \in Actors : ph[b] \in NotStarted \cup {"startSent", "started"}
  <2> DEFINE S == {b \in Actors : ph[b] \in NotStarted \cup {"startSent", "started"}}
  <2>1. \A b \in Actors \ {Root} : Parent(b) \in S => b \in S
      BY <1>1, <1>2 DEF InStep, NotStarted, AllStopped, Phases
  <2>2. S \in SUBSET Actors /\ Root \in S
      BY <1>1, <1>3
  <2> HIDE DEF S
  <2>3. S = Actors
      BY <2>1, <2>2, Descent
  <2> QED
      BY <2>3 DEF S
<1> QED
    BY <1>1, <1>3, <1>4, PhaseIs DEF NotStarted

\* An actor of the class that a late listen names has said what it waits for.
Said(b, kind) ==
    IF kind = "StartCnf" THEN state[b] # "CTOR_FINISHED" ELSE state[b] = "STOPPED"

Speaks(b, l) == ClassOf[b] = l[2].class /\ (l[2].kind = "StartCnf" => b = Root)

\* What has been said has been heard once or is on its way, once.
HeardOnce ==
    \A l \in LateOfParents : \A b \in Actors : Speaks(b, l) =>
        heard[l] + Copies(l[2], b, l[1]) = One(Said(b, l[2].kind))

LEMMA SumIsNat ==
    ASSUME TypeOK, NEW l \in Late, NEW b \in Actors
    PROVE  heard[l] \in Nat /\ Copies(l[2], b, l[1]) \in Nat
<1>1. l[1] \in Actors
    BY LateIs
<1> QED
    BY <1>1, CopiesIs DEF TypeOK

\* Before a late listen is in force there is nothing to hear.
LEMMA NothingMissed ==
    ASSUME TypeOK, NEW ph, InPhase(ph), ListensIn(ph), HeardOnce,
           NEW l \in LateOfParents, NEW b \in Actors, Speaks(b, l), listens[l] # "inForce"
    PROVE  Copies(l[2], b, l[1]) = 0
<1>1. l \in Late /\ l[1] \in Actors /\ l[2].kind \in {"StartCnf", "StopCnf"}
    BY LateIs DEF LateOfParents
<1>2. Tree(ph) /\ Tracks(ph)
    BY DEF InPhase
<1>3. Stage(ph[l[1]]) # "through"
    BY DEF ListensIn, ListenIn
<1>4. state[l[1]] = "CTOR_FINISHED"
    BY <1>1, <1>2, <1>3, PhaseIs DEF Stage
<1>5. state[Root] = "CTOR_FINISHED" /\ state[b] # "STOPPED"
    BY <1>1, <1>2, <1>4, StartedBelow
<1>6. ~Said(b, l[2].kind)
    BY <1>1, <1>5 DEF Said, Speaks
<1>7. heard[l] + Copies(l[2], b, l[1]) = 0
    BY <1>6 DEF HeardOnce, One
<1> QED
    BY <1>1, <1>7, SumIsNat

LEMMA HeardPort ==
    ASSUME Orderly, TypeOK, Plumbing, NEW ph, InPhase(ph), ListensIn(ph), HeardOnce,
           NEW a \in Actors, Take(a) \/ PublishNext(a)
    PROVE  HeardOnce'
<1>1. UNCHANGED <<state, heard>>
    BY DEF Take, PublishNext, ports
<1>2. ASSUME NEW l \in LateOfParents, NEW b \in Actors, Speaks(b, l)
      PROVE  Copies(l[2], b, l[1])' = Copies(l[2], b, l[1])
  <2> DEFINE m == l[2]
             r == l[1]
  <2>1. /\ l \in Late /\ l = <<r, m>> /\ r \in Actors /\ m \in Messages
        /\ m.kind \in {"StartCnf", "StopCnf"}
      BY LateIs DEF LateOfParents
  <2>2. listens[l] = "inForce" => InForce(r, m)
      BY <2>1 DEF InForce
  <2>3. listens[l] # "inForce" => Copies(m, b, r) = 0
      BY <1>2, NothingMissed
  <2>4. Sends(a, m) => a = b
      BY <1>2, <2>1 DEF Sends, Speaks, Orderly
  <2> HIDE DEF m, r
  <2>5. Listeners(r, m) = 1 \/ Copies(m, b, r) = 0
      BY <2>1, <2>2, <2>3, OneListener
  <2>6. Copies(m, b, r)' = Copies(m, b, r)
      BY <2>1, <2>4, <2>5, CopiesTaken, CopiesPublished
  <2> QED
      BY <2>6 DEF m, r
<1>3. ASSUME NEW l \in LateOfParents, NEW b \in Actors, Speaks(b, l)
      PROVE  (heard[l] + Copies(l[2], b, l[1]) = One(Said(b, l[2].kind)))'
  <2>1. heard[l] + Copies(l[2], b, l[1]) = One(Said(b, l[2].kind))
      BY <1>3 DEF HeardOnce
  <2>2. Said(b, l[2].kind)' = Said(b, l[2].kind)
      BY <1>1 DEF Said
  <2> QED
      BY <1>1, <1>2, <1>3, <2>1, <2>2
<1> QED
    BY <1>3 DEF HeardOnce, LateOfParents, Speaks

\* A callback uses up what it hears and says what the actor has become.
LEMMA HeardCalled ==
    ASSUME TypeOK, HeardOnce, NEW a \in Actors, NEW out, Says(a, out),
           \A b \in Actors \ {a} : state'[b] = state[b],
           \A kind \in {"StartCnf", "StopCnf"} :
               One(Said(a, kind)') = One(Said(a, kind)) + Waiting(out, Message(kind, ClassOf[a])),
           \A l \in Late : heard'[l] = heard[l] + One(l[1] = a /\ message[a] = l[2])
    PROVE  HeardOnce'
<1>1. ASSUME NEW l \in LateOfParents, NEW b \in Actors, Speaks(b, l)
      PROVE  heard'[l] + Copies(l[2], b, l[1])' = One(Said(b, l[2].kind)')
  <2> DEFINE m == l[2]
             r == l[1]
             used == One(r = a /\ message[a] = m)
             said == IF b = a THEN Waiting(out, m) ELSE 0
  <2>1. /\ l \in Late /\ r \in Actors
        /\ m.kind \in {"StartCnf", "StopCnf"} /\ m = Message(m.kind, ClassOf[b])
      BY <1>1, LateIs DEF LateOfParents, Speaks
  <2>2. heard[l] + Copies(m, b, r) = One(Said(b, m.kind))
      BY <1>1 DEF HeardOnce
  <2>3. heard[l] \in Nat /\ Copies(m, b, r) \in Nat
      BY <2>1, SumIsNat
  <2>4. heard'[l] = heard[l] + used
      BY <2>1
  <2> HIDE DEF m, r
  <2>5. Copies(m, b, r)' = Copies(m, b, r) - One(r = a /\ message[a] = m) + said
      BY <2>1, CopiesSaid
  <2>6. said \in Nat /\ used \in Nat
      BY WaitingIs DEF Says, One
  <2>7. One(Said(b, m.kind)') = One(Said(b, m.kind)) + said
    <3>1. CASE b = a
        BY <2>1, <3>1
    <3>2. CASE b # a
      <4>1. Said(b, m.kind)' = Said(b, m.kind)
          BY <3>2 DEF Said
      <4>2. One(Said(b, m.kind)) \in Nat
          BY DEF One
      <4> QED
          BY <3>2, <4>1, <4>2
    <3> QED
        BY <3>1, <3>2
  <2>8. Copies(m, b, r)' = Copies(m, b, r) - used + said
      BY <2>5
  <2> HIDE DEF used, said
  <2>9. heard'[l] + Copies(m, b, r)' = One(Said(b, m.kind)')
      BY <2>2, <2>3, <2>4, <2>6, <2>7, <2>8
  <2> QED
      BY <2>9 DEF m, r
<1> QED
    BY <1>1 DEF HeardOnce, LateOfParents, Speaks, One

\* The callbacks, one by one.
LEMMA NoneHeard ==
    ASSUME TypeOK, NEW a \in Actors, UNCHANGED heard,
           \/ message[a].kind \notin {"StartCnf", "StopCnf"}
           \/ <<a, message[a].class>> \in stopOn
    PROVE  \A l \in Late : heard'[l] = heard[l] + One(l[1] = a /\ message[a] = l[2])
<1> SUFFICES ASSUME NEW l \in Late
             PROVE  heard'[l] = heard[l] + One(l[1] = a /\ message[a] = l[2])
    OBVIOUS
<1>1. heard[l] \in Nat /\ stopOn \in Users
    BY DEF TypeOK
<1>2. ~(l[1] = a /\ message[a] = l[2])
    BY <1>1, LateIs
<1> QED
    BY <1>1, <1>2 DEF One

LEMMA NothingConfirmed ==
    ASSUME NEW a \in Actors, NEW out,
           \A kind \in {"StartCnf", "StopCnf"} : Waiting(out, Message(kind, ClassOf[a])) = 0,
           UNCHANGED state
    PROVE  \A kind \in {"StartCnf", "StopCnf"} :
               One(Said(a, kind)') = One(Said(a, kind)) + Waiting(out, Message(kind, ClassOf[a]))
BY DEF Said, One

LEMMA HeardStarted ==
    ASSUME Orderly, TypeOK, Plumbing, HeardOnce, NEW ph, InPhase(ph), NEW a \in Actors, NEW kind,
           Calls(a, kind), Started(a), UNCHANGED <<stopOn, message, inbox, heard, mpc>>,
           \/ kind = "StartReq" /\ Children[a] = {}
           \/ kind = "PrivStartCnf" /\ AllConfirmed(a)
    PROVE  HeardOnce'
<1>1. PICK out \in Seq(Messages) :
          /\ outbox' = [outbox EXCEPT ![a] = out]
          /\ \A m : Waiting(out, m) =
                 One(\/ m = Message("StartCnf", ClassOf[a])
                     \/ m = Message("PrivStartCnf", ClassOf[a])
                     \/ m = StopMessage /\ <<a, ClassOf[a]>> \in stopOn)
    BY StartedSays
<1>2. Says(a, out) /\ message[a].kind = kind
    BY <1>1, Called DEF Says
<1>3. state[a] = "CTOR_FINISHED" /\ state' = [state EXCEPT ![a] = "STARTED"]
    BY StartedStarts DEF Promise!Start
<1>4. /\ Waiting(out, Message("StartCnf", ClassOf[a])) = 1
      /\ Waiting(out, Message("StopCnf", ClassOf[a])) = 0
    BY <1>1, MessageFields DEF One
<1>5. \A b \in Actors \ {a} : state'[b] = state[b]
    BY <1>3 DEF TypeOK
<1>6. state'[a] = "STARTED"
    BY <1>3 DEF TypeOK
<1>7. \A k \in {"StartCnf", "StopCnf"} :
          One(Said(a, k)') = One(Said(a, k)) + Waiting(out, Message(k, ClassOf[a]))
    BY <1>3, <1>4, <1>6 DEF Said, One
<1>8. \A l \in Late : heard'[l] = heard[l] + One(l[1] = a /\ message[a] = l[2])
    BY <1>2, NoneHeard
<1> QED
    BY <1>2, <1>5, <1>7, <1>8, HeardCalled

LEMMA HeardStopped ==
    ASSUME Orderly, TypeOK, Plumbing, HeardOnce, NEW ph, InPhase(ph), NEW a \in Actors, NEW kind,
           Calls(a, kind), Stopped(a), UNCHANGED <<stopOn, message, inbox, heard, mpc>>,
           \/ kind = "StopReq" /\ Children[a] = {}
           \/ kind = "PrivStopCnf" /\ AllConfirmed(a) /\ message[a].class # ClassOf[Root]
    PROVE  HeardOnce'
<1>1. PICK out \in Seq(Messages) :
          /\ outbox' = [outbox EXCEPT ![a] = out]
          /\ \A m : Waiting(out, m) =
                 One(\/ m = Message("StopCnf", ClassOf[a])
                     \/ m = Message("PrivStopCnf", ClassOf[a]))
    BY StoppedSays
<1>2. Says(a, out) /\ message[a].kind = kind
    BY <1>1, Called DEF Says
<1>3. state[a] = "STARTED" /\ state' = [state EXCEPT ![a] = "STOPPED"]
    BY StoppedStops DEF Promise!Stop
<1>4. /\ Waiting(out, Message("StartCnf", ClassOf[a])) = 0
      /\ Waiting(out, Message("StopCnf", ClassOf[a])) = 1
    BY <1>1, MessageFields DEF One
<1>5. \A b \in Actors \ {a} : state'[b] = state[b]
    BY <1>3 DEF TypeOK
<1>6. state'[a] = "STOPPED"
    BY <1>3 DEF TypeOK
<1>7. \A k \in {"StartCnf", "StopCnf"} :
          One(Said(a, k)') = One(Said(a, k)) + Waiting(out, Message(k, ClassOf[a]))
    BY <1>3, <1>4, <1>6 DEF Said, One
<1>8. \A l \in Late : heard'[l] = heard[l] + One(l[1] = a /\ message[a] = l[2])
    BY <1>2, NoneHeard
<1> QED
    BY <1>2, <1>5, <1>7, <1>8, HeardCalled

\* A callback that confirms nothing, and calls no late listen back.
LEMMA HeardSilent ==
    ASSUME Orderly, TypeOK, Plumbing, HeardOnce, NEW a \in Actors, NEW kind, Calls(a, kind),
           UNCHANGED <<stopOn, state, message, inbox, heard>>,
           \/ kind \in {"StartReq", "StopReq"} /\ Forward(a, kind)
           \/ kind \in {"PrivStartCnf", "PrivStopCnf"} /\ UNCHANGED outbox
           \/ kind = "Stop" /\ outbox' = [outbox EXCEPT ![a] = <<Message("StopReq", ClassOf[Root])>>]
           \/ /\ kind = "StartCnf" /\ outbox' = [outbox EXCEPT ![a] = <<StopMessage>>]
              /\ <<a, message[a].class>> \in stopOn
    PROVE  HeardOnce'
<1>1. outbox[a] = <<>> /\ message[a].kind = kind
    BY Called
<1>2. PICK out \in Seq(Messages) :
          /\ outbox' = [outbox EXCEPT ![a] = out]
          /\ \A m : m.kind \in {"StartCnf", "StopCnf"} => Waiting(out, m) = 0
  <2>1. CASE kind \in {"StartReq", "StopReq"} /\ Forward(a, kind)
    <3>1. kind \in Kinds
        BY <2>1 DEF Kinds
    <3>2. PICK out \in Seq(Messages) :
              /\ outbox' = [outbox EXCEPT ![a] = out]
              /\ \A m : Waiting(out, m) = One(\E c \in Children[a] : m = Message(kind, ClassOf[c]))
        BY <2>1, <3>1, ForwardSays
    <3>3. \A m : m.kind \in {"StartCnf", "StopCnf"} =>
                     ~ \E c \in Children[a] : m = Message(kind, ClassOf[c])
        BY <2>1, MessageFields
    <3>4. ASSUME NEW m, m.kind \in {"StartCnf", "StopCnf"}
          PROVE  Waiting(out, m) = 0
      <4>1. Waiting(out, m) = One(\E c \in Children[a] : m = Message(kind, ClassOf[c]))
          BY <3>2
      <4>2. ~ \E c \in Children[a] : m = Message(kind, ClassOf[c])
          BY <3>3, <3>4
      <4> QED
          BY <4>1, <4>2 DEF One
    <3> QED
        BY <3>2, <3>4
  <2>2. CASE UNCHANGED outbox
    <3>1. PICK out \in Seq(Messages) :
              outbox' = [outbox EXCEPT ![a] = out] /\ \A m : Waiting(out, m) = One(FALSE)
        BY <1>1, <2>2, NothingSaid
    <3> QED
        BY <3>1 DEF One
  <2>3. ASSUME NEW x \in Messages, outbox' = [outbox EXCEPT ![a] = <<x>>],
               x.kind \notin {"StartCnf", "StopCnf"}
        PROVE  \E out \in Seq(Messages) :
                   /\ outbox' = [outbox EXCEPT ![a] = out]
                   /\ \A m : m.kind \in {"StartCnf", "StopCnf"} => Waiting(out, m) = 0
    <3>1. PICK out \in Seq(Messages) : out = <<x>> /\ \A m : Waiting(out, m) = One(m = x)
        BY <2>3, OneSays
    <3> QED
        BY <2>3, <3>1 DEF One
  <2>4. /\ StopMessage \in Messages /\ StopMessage.kind = "Stop"
        /\ Message("StopReq", ClassOf[Root]) \in Messages
        /\ Message("StopReq", ClassOf[Root]).kind = "StopReq"
      BY StopIsMessage, ClassesOfMessages, MessageFields, LifeCycleAssumption DEF Kinds
  <2> QED
      BY <2>1, <2>2, <2>3, <2>4
<1>3. Says(a, out)
    BY <1>2, Called DEF Says
<1>4. \A k \in {"StartCnf", "StopCnf"} : Waiting(out, Message(k, ClassOf[a])) = 0
    BY <1>2, MessageFields
<1>5. \A k \in {"StartCnf", "StopCnf"} :
          One(Said(a, k)') = One(Said(a, k)) + Waiting(out, Message(k, ClassOf[a]))
    BY <1>4, NothingConfirmed
<1>6. \A l \in Late : heard'[l] = heard[l] + One(l[1] = a /\ message[a] = l[2])
    BY <1>1, NoneHeard
<1> QED
    BY <1>3, <1>5, <1>6, HeardCalled

\* A late listen is called back.
LEMMA HeardLate ==
    ASSUME Orderly, TypeOK, Plumbing, HeardOnce, NEW a \in Actors, HearLate(a)
    PROVE  HeardOnce'
<1>1. PICK kind \in {"StartCnf", "StopCnf"} : Calls(a, kind)
    BY DEF HearLate
<1>2. outbox[a] = <<>> /\ UNCHANGED outbox
    BY <1>1 DEF HearLate, Calls
<1>3. PICK out \in Seq(Messages) :
          outbox' = [outbox EXCEPT ![a] = out] /\ \A m : Waiting(out, m) = One(FALSE)
    BY <1>2, NothingSaid
<1>4. Says(a, out)
    BY <1>1, <1>3, Called DEF Says, HearLate
<1>5. \A k \in {"StartCnf", "StopCnf"} :
          One(Said(a, k)') = One(Said(a, k)) + Waiting(out, Message(k, ClassOf[a]))
  <2>1. \A m : Waiting(out, m) = 0
      BY <1>3 DEF One
  <2> QED
      BY <2>1, NothingConfirmed DEF HearLate
<1>6. ASSUME NEW l \in Late
      PROVE  heard'[l] = heard[l] + One(l[1] = a /\ message[a] = l[2])
  <2>1. heard[l] \in Nat /\ l = <<l[1], l[2]>>
      BY LateIs DEF TypeOK
  <2>2. l = <<a, message[a]>> <=> l[1] = a /\ message[a] = l[2]
      BY <2>1
  <2>3. heard'[l] = IF l = <<a, message[a]>> THEN heard[l] + 1 ELSE heard[l]
      BY DEF HearLate, TypeOK
  <2> QED
      BY <2>1, <2>2, <2>3 DEF One
<1> QED
    BY <1>4, <1>5, <1>6, HeardCalled DEF HearLate

\* When run() has returned nothing is on its way.
AtRest ==
    mpc = "returned" => \A a \in Actors : left[a] = 0 /\ outbox[a] = <<>> /\ inbox[a] = <<>>

LInv == IInv /\ HeardOnce /\ AtRest /\ \E ph : InPhase(ph) /\ ListensIn(ph)

LEMMA NextListens ==
    ASSUME Orderly, TypeOK, Plumbing, NEW ph, InPhase(ph), ListensIn(ph), [Next]_vars
    PROVE  \E ps : InPhase(ps)' /\ ListensIn(ps)'
<1>1. ASSUME NEW a \in Actors, Take(a)
      PROVE  InPhase(ph)' /\ ListensIn(ph)'
    BY <1>1, PortStep, ListensTaken
<1>2. ASSUME NEW a \in Actors, PublishNext(a)
      PROVE  InPhase(ph)' /\ ListensIn(ph)'
  <2>1. UNCHANGED <<listens, left, message>>
      BY <1>2 DEF PublishNext, ports
  <2> QED
      BY <1>2, <2>1, PortStep, ListensKept
<1>3. ASSUME NEW a \in Actors,
             \/ HandleStartReq(a) \/ HandleStopReq(a)
             \/ HandlePrivStartCnf(a) \/ HandlePrivStopCnf(a)
      PROVE  \E ps : InPhase(ps)' /\ ListensIn(ps)'
  <2>1. UNCHANGED <<listens, message>>
      BY <1>3 DEF HandleStartReq, HandleStopReq, HandlePrivStartCnf, HandlePrivStopCnf, ports
  <2>2. PICK kind, ps : Calls(a, kind) /\ Progress(kind, a, ph, ps) /\ InPhase(ps)'
      BY <1>3, RequestedStep, ConfirmedStep
  <2>3. kind \in {"StartReq", "StopReq", "PrivStartCnf", "PrivStopCnf"}
      BY <1>3, <2>2
      DEF HandleStartReq, HandleStopReq, HandlePrivStartCnf, HandlePrivStopCnf, Calls
  <2>4. ListensIn(ps)'
      BY <2>1, <2>2, <2>3, ListensCalled DEF Progress
  <2> QED
      BY <2>2, <2>4
<1>4. ASSUME NEW a \in Actors, HandleStartCnf(a) \/ HearLate(a)
      PROVE  InPhase(ph)' /\ ListensIn(ph)'
  <2>1. UNCHANGED <<listens, message>>
      BY <1>4 DEF HandleStartCnf, HearLate, ports
  <2>2. PICK kind \in {"StartCnf", "StopCnf"} : Calls(a, kind)
      BY <1>4 DEF HandleStartCnf, HearLate
  <2>3. ListensIn(ph)'
      BY <2>1, <2>2, ListensCalled
  <2> QED
      BY <1>4, <2>3, UserStep, LateStep
<1>5. ASSUME HandleStop \/ HandleRootStopCnf
      PROVE  \E ps : InPhase(ps)' /\ ListensIn(ps)'
  <2>1. UNCHANGED <<listens, message>> /\ Root \in Actors
      BY <1>5, LifeCycleAssumption DEF HandleStop, HandleRootStopCnf, ports
  <2>2. PICK kind \in {"Stop", "PrivStopCnf"} : Calls(Root, kind)
      BY <1>5 DEF HandleStop, HandleRootStopCnf
  <2>3. PICK x \in {"stopAsked", "stopped"} :
            /\ ph[Root] \in {"started", "stopSent"}
            /\ InPhase([ph EXCEPT ![Root] = x])'
      BY <1>5, StopStep, RootStoppedStep
  <2>4. ListensIn([ph EXCEPT ![Root] = x])'
    <3> DEFINE ps == [ph EXCEPT ![Root] = x]
    <3>1. \A b \in Actors : Stage(ps[b]) = Stage(ph[b])
        BY <2>3 DEF Stage, InPhase, Tree
    <3> HIDE DEF ps
    <3>2. ListensIn(ps)'
        BY <2>1, <2>2, <3>1, ListensCalled
    <3> QED
        BY <3>2 DEF ps
  <2> QED
      BY <2>3, <2>4
<1>6. ASSUME SendStartReq
      PROVE  \E ps : InPhase(ps)' /\ ListensIn(ps)'
  <2> DEFINE ps == [ph EXCEPT ![Root] = "startAsked"]
  <2>1. ph[Root] = "fresh" /\ InPhase(ps)'
      BY <1>6, RequestStep
  <2>2. \A b \in Actors : Stage(ps[b]) = Stage(ph[b])
      BY <2>1 DEF Stage, InPhase, Tree
  <2>3. UNCHANGED <<listens, left, message>>
      BY <1>6 DEF SendStartReq, actor, ports
  <2> HIDE DEF ps
  <2>4. ListensIn(ps)'
      BY <2>2, <2>3, ListensKept
  <2> QED
      BY <2>1, <2>4
<1>7. ASSUME NEW a \in Actors, ListenLate(a)
      PROVE  InPhase(ph)' /\ ListensIn(ph)'
    BY <1>7, QuietStep, ListensProcessed
<1>8. ASSUME \/ \E a \in Actors : Listen(a)
             \/ Run \/ WaitForIdle \/ WaitForStop \/ StopPriority
             \/ UNCHANGED vars
      PROVE  InPhase(ph)' /\ ListensIn(ph)'
  <2>1. UNCHANGED <<listens, left, message>>
      BY <1>8 DEF Listen, Run, WaitForIdle, WaitForStop, StopPriority, vars, actor, ports
  <2> QED
      BY <1>8, <2>1, QuietStep, ListensKept
<1> QED
    BY <1>1, <1>2, <1>3, <1>4, <1>5, <1>6, <1>7, <1>8
    DEF Next, Actor, RootOfCore, RunThread, Terminated

LEMMA NextHeard ==
    ASSUME Orderly, TypeOK, Plumbing, NEW ph, InPhase(ph), ListensIn(ph), HeardOnce, [Next]_vars
    PROVE  HeardOnce'
<1>1. ASSUME NEW a \in Actors, Take(a) \/ PublishNext(a)
      PROVE  HeardOnce'
    BY <1>1, HeardPort
<1>2. ASSUME NEW a \in Actors, HandleStartReq(a) \/ HandleStopReq(a)
      PROVE  HeardOnce'
  <2>1. UNCHANGED <<stopOn, message, inbox, heard, mpc>>
      BY <1>2 DEF HandleStartReq, HandleStopReq, ports, core
  <2>2. \/ Calls(a, "StartReq") /\ Children[a] = {} /\ Started(a)
        \/ Calls(a, "StartReq") /\ Forward(a, "StartReq") /\ UNCHANGED state
        \/ Calls(a, "StopReq") /\ Children[a] = {} /\ Stopped(a)
        \/ Calls(a, "StopReq") /\ Forward(a, "StopReq") /\ UNCHANGED state
      BY <1>2 DEF HandleStartReq, HandleStopReq, NoChildren
  <2> QED
      BY <2>1, <2>2, HeardStarted, HeardStopped, HeardSilent
<1>3. ASSUME NEW a \in Actors, HandlePrivStartCnf(a) \/ HandlePrivStopCnf(a)
      PROVE  HeardOnce'
  <2>1. UNCHANGED <<stopOn, message, inbox, heard, mpc>>
      BY <1>3 DEF HandlePrivStartCnf, HandlePrivStopCnf, ports, core
  <2>2. \/ Calls(a, "PrivStartCnf") /\ AllConfirmed(a) /\ Started(a)
        \/ Calls(a, "PrivStartCnf") /\ UNCHANGED <<state, outbox>>
        \/ /\ Calls(a, "PrivStopCnf") /\ message[a].class # ClassOf[Root]
           /\ AllConfirmed(a) /\ Stopped(a)
        \/ Calls(a, "PrivStopCnf") /\ UNCHANGED <<state, outbox>>
      BY <1>3 DEF HandlePrivStartCnf, HandlePrivStopCnf, Counting
  <2> QED
      BY <2>1, <2>2, HeardStarted, HeardStopped, HeardSilent
<1>4. ASSUME NEW a \in Actors, HandleStartCnf(a)
      PROVE  HeardOnce'
    BY <1>4, HeardSilent DEF HandleStartCnf, ports
<1>5. ASSUME NEW a \in Actors, HearLate(a)
      PROVE  HeardOnce'
    BY <1>5, HeardLate
<1>6. ASSUME HandleStop \/ HandleRootStopCnf
      PROVE  HeardOnce'
  <2>1. /\ Root \in Actors
        /\ UNCHANGED <<stopOn, state, message, inbox, heard>>
        /\ \/ /\ Calls(Root, "Stop")
              /\ outbox' = [outbox EXCEPT ![Root] = <<Message("StopReq", ClassOf[Root])>>]
           \/ Calls(Root, "PrivStopCnf") /\ UNCHANGED outbox
      BY <1>6, LifeCycleAssumption DEF HandleStop, HandleRootStopCnf, ports
  <2> QED
      BY <2>1, HeardSilent
<1>7. ASSUME SendStartReq
      PROVE  HeardOnce'
  <2>1. /\ UNCHANGED <<state, heard, outbox, left, message>>
        /\ Publish(Message("StartReq", ClassOf[Root]))
      BY <1>7 DEF SendStartReq, actor, ports
  <2>2. ASSUME NEW l \in LateOfParents, NEW b \in Actors, Speaks(b, l)
        PROVE  (heard[l] + Copies(l[2], b, l[1]) = One(Said(b, l[2].kind)))'
    <3> DEFINE q == Message("StartReq", ClassOf[Root])
    <3>1. /\ l \in Late /\ l[1] \in Actors /\ l[2].kind \in {"StartCnf", "StopCnf"}
        BY LateIs DEF LateOfParents
    <3>2. inbox[l[1]] \in Seq(Messages) /\ Waiting(inbox[l[1]], l[2]) \in Nat
        BY <3>1, WaitingIs DEF TypeOK
    <3>3. q \in Messages /\ q # l[2]
        BY <3>1, ClassesOfMessages, LifeCycleAssumption, MessageFields DEF Kinds
    <3>4. inbox'[l[1]] = inbox[l[1]] \/ inbox'[l[1]] = Append(inbox[l[1]], q)
        BY <2>1, <3>1 DEF Publish
    <3> HIDE DEF q
    <3>5. Waiting(Append(inbox[l[1]], q), l[2]) = Waiting(inbox[l[1]], l[2]) + One(q = l[2])
        BY <3>2, <3>3, WaitingAppend
    <3>6. Waiting(inbox'[l[1]], l[2]) = Waiting(inbox[l[1]], l[2])
      <4>1. One(q = l[2]) = 0
          BY <3>3 DEF One
      <4>2. Waiting(Append(inbox[l[1]], q), l[2]) = Waiting(inbox[l[1]], l[2])
          BY <3>2, <3>5, <4>1
      <4> QED
          BY <3>4, <4>2
    <3>7. Copies(l[2], b, l[1])' = Copies(l[2], b, l[1])
        BY <2>1, <3>6 DEF Copies
    <3>8. Said(b, l[2].kind)' = Said(b, l[2].kind)
        BY <2>1 DEF Said
    <3>9. heard[l] + Copies(l[2], b, l[1]) = One(Said(b, l[2].kind))
        BY <2>2 DEF HeardOnce
    <3> QED
        BY <2>1, <3>7, <3>8, <3>9
  <2> QED
      BY <2>2 DEF HeardOnce, LateOfParents, Speaks
<1>8. ASSUME \/ \E a \in Actors : Listen(a) \/ ListenLate(a)
             \/ Run \/ WaitForIdle \/ WaitForStop \/ StopPriority
             \/ UNCHANGED vars
      PROVE  HeardOnce'
  <2>1. UNCHANGED <<state, heard, outbox, inbox, left, message>>
      BY <1>8 DEF Listen, ListenLate, Run, WaitForIdle, WaitForStop, StopPriority, vars, actor, ports
  <2> QED
      BY <2>1 DEF HeardOnce, LateOfParents, Speaks, Said, Copies
<1> QED
    BY <1>1, <1>2, <1>3, <1>4, <1>5, <1>6, <1>7, <1>8
    DEF Next, Actor, RootOfCore, RunThread, Terminated

LEMMA NextAtRest ==
    ASSUME TypeOK, AtRest, [Next]_vars
    PROVE  AtRest'
<1>1. CASE mpc # "returned" /\ ~StopPriority
  <2>1. mpc' # "returned"
      BY <1>1 DEF Next, Actor, RootOfCore, RunThread, Terminated, Listen, Take, PublishNext,
         HandleStartReq, HandleStopReq, HandlePrivStartCnf, HandlePrivStopCnf, HandleStartCnf,
         ListenLate, HearLate, HandleStop, HandleRootStopCnf, Run, WaitForIdle, SendStartReq,
         WaitForStop, vars, core
  <2> QED
      BY <2>1 DEF AtRest
<1>2. CASE StopPriority
    BY <1>2 DEF StopPriority, AtRest, Idle, actor
<1>3. CASE mpc = "returned" /\ ~StopPriority
  <2>1. \A a \in Actors : ~(left[a] > 0) /\ outbox[a] = <<>> /\ inbox[a] = <<>>
      BY <1>3 DEF AtRest
  <2>2. Root \in Actors
      BY LifeCycleAssumption
  <2>3. \A a \in Actors : \A kind : ~Calls(a, kind)
      BY <2>1 DEF Calls
  <2>4. ~RunThread /\ ~RootOfCore
      BY <1>3, <2>2, <2>3 DEF RunThread, RootOfCore, Run, WaitForIdle, SendStartReq, WaitForStop,
                              HandleStop, HandleRootStopCnf
  <2>5. \A a \in Actors : Actor(a) => Listen(a) \/ ListenLate(a)
      BY <2>1, <2>3 DEF Actor, Take, PublishNext, HandleStartReq, HandleStopReq,
                        HandlePrivStartCnf, HandlePrivStopCnf, HandleStartCnf, HearLate
  <2>6. UNCHANGED <<left, outbox, inbox>>
      BY <2>4, <2>5 DEF Next, Terminated, Listen, ListenLate, vars, actor
  <2> QED
      BY <1>3, <2>6 DEF AtRest
<1> QED
    BY <1>1, <1>2, <1>3

LEMMA InitLInv ==
    ASSUME Orderly, Init
    PROVE  LInv
<1>1. IInv
    BY InitIInv
<1>2. PICK ph : InPhase(ph)
    BY <1>1 DEF IInv
<1>3. ph[Root] = "fresh" /\ Tree(ph) /\ Root \in Actors
    BY <1>2, LifeCycleAssumption DEF InPhase, Calendar, Init
<1>4. \A a \in Actors : ph[a] = "fresh"
  <2> DEFINE S == {a \in Actors : ph[a] = "fresh"}
  <2>1. \A a \in Actors \ {Root} : Parent(a) \in S => a \in S
      BY <1>3, ParentIs DEF Tree, InStep
  <2>2. S \in SUBSET Actors /\ Root \in S
      BY <1>3
  <2> HIDE DEF S
  <2>3. S = Actors
      BY <2>1, <2>2, Descent
  <2> QED
      BY <2>3 DEF S
<1>5. ListensIn(ph)
  <2> SUFFICES ASSUME NEW l \in LateOfParents
               PROVE  ListenIn(l, Stage(ph[l[1]]))
      BY DEF ListensIn
  <2>1. l \in Late /\ l[1] \in Actors
      BY LateIs DEF LateOfParents
  <2>2. listens[l] = "none" /\ ~(left[l[1]] > 0)
      BY <2>1 DEF Init
  <2>3. Stage(ph[l[1]]) = "waits"
      BY <1>4, <2>1 DEF Stage
  <2> QED
      BY <2>2, <2>3 DEF ListenIn
<1>6. HeardOnce
  <2> SUFFICES ASSUME NEW l \in LateOfParents, NEW b \in Actors
               PROVE  heard[l] + Copies(l[2], b, l[1]) = One(Said(b, l[2].kind))
      BY DEF HeardOnce
  <2>1. l \in Late /\ l[1] \in Actors
      BY LateIs DEF LateOfParents
  <2>2. /\ heard[l] = 0 /\ outbox[b] = <<>> /\ inbox[l[1]] = <<>> /\ left[l[1]] = 0
        /\ state[b] = "CTOR_FINISHED"
      BY <2>1 DEF Init
  <2>3. Waiting(<<>>, l[2]) = 0
      BY WaitingEmpty
  <2>4. Copies(l[2], b, l[1]) = 0
      BY <2>2, <2>3 DEF Copies
  <2> QED
      BY <2>2, <2>4 DEF Said, One
<1>7. AtRest
    BY DEF AtRest, Init
<1> QED
    BY <1>1, <1>2, <1>5, <1>6, <1>7 DEF LInv

LEMMA LInductive ==
    ASSUME Orderly
    PROVE  Spec => []LInv
<1>1. Init => LInv
    BY InitLInv
<1>2. LInv /\ [Next]_vars => LInv'
  <2> SUFFICES ASSUME LInv, [Next]_vars
               PROVE  LInv'
      OBVIOUS
  <2>1. IInv /\ TypeOK /\ Plumbing /\ HeardOnce /\ AtRest
      BY DEF LInv, IInv
  <2>2. PICK ph : InPhase(ph) /\ ListensIn(ph)
      BY DEF LInv
  <2>3. IInv'
      BY <2>1, NextIInv
  <2>4. \E ps : InPhase(ps)' /\ ListensIn(ps)'
      BY <2>1, <2>2, NextListens
  <2>5. HeardOnce'
      BY <2>1, <2>2, NextHeard
  <2>6. AtRest'
      BY <2>1, NextAtRest
  <2> QED
      BY <2>3, <2>4, <2>5, <2>6 DEF LInv
<1> QED
    BY <1>1, <1>2, PTL DEF Spec

\* At the end everybody has stopped, so everything has been said and heard.
LEMMA AllHeard ==
    ASSUME Orderly, LInv, \A l \in Late : \E b \in Actors : ClassOf[b] = l[2].class
    PROVE  LateListensHear
<1> SUFFICES ASSUME mpc = "returned", NEW l \in Late, Children[l[1]] # {},
                    ~(l[2].kind = "StartCnf" /\ l[2].class # ClassOf[Root])
             PROVE  heard[l] = 1
    BY DEF LateListensHear
<1>1. PICK ph : InPhase(ph)
    BY DEF LInv
<1>2. TypeOK /\ HeardOnce /\ AtRest
    BY DEF LInv, IInv
<1>3. Tree(ph) /\ Tracks(ph) /\ ph[Root] = "stopped" /\ Root \in Actors
    BY <1>1, LifeCycleAssumption DEF InPhase, Calendar
<1>4. \A a \in Actors : state[a] = "STOPPED"
  <2> DEFINE S == {a \in Actors : ph[a] = "stopped"}
  <2>1. ASSUME NEW a \in Actors \ {Root}, Parent(a) \in S
        PROVE  a \in S
    <3>1. Parent(a) \in Actors /\ a \in Children[Parent(a)]
        BY ParentIs
    <3>2. InStep(ph[Parent(a)], ph[a])
        BY <1>3, <3>1 DEF Tree
    <3> QED
        BY <2>1, <3>2 DEF InStep, AllStopped
  <2>2. S \in SUBSET Actors /\ Root \in S
      BY <1>3
  <2> HIDE DEF S
  <2>3. S = Actors
      BY <2>1, <2>2, Descent
  <2> QED
      BY <1>3, <2>3, PhaseIs DEF S
<1>5. PICK b \in Actors : Speaks(b, l)
  <2>1. PICK c \in Actors : ClassOf[c] = l[2].class
      OBVIOUS
  <2> QED
      BY <1>3, <2>1 DEF Speaks
<1>6. l[1] \in Actors
    BY LateIs
<1>7. Said(b, l[2].kind)
    BY <1>4 DEF Said
<1>8. heard[l] + Copies(l[2], b, l[1]) = 1
    BY <1>2, <1>5, <1>7 DEF HeardOnce, LateOfParents, One
<1>9. Copies(l[2], b, l[1]) = 0
  <2>1. outbox[b] = <<>> /\ inbox[l[1]] = <<>> /\ left[l[1]] = 0
      BY <1>2, <1>6 DEF AtRest
  <2>2. Waiting(<<>>, l[2]) = 0
      BY WaitingEmpty
  <2> QED
      BY <2>1, <2>2 DEF Copies
<1> QED
    BY <1>2, <1>8, <1>9, SumIsNat

(* No confirmation is lost or counted twice, for every tree of actors with  *)
(* different classes and whoever stops the system once the root has started *)
(* (ActorLifeCycle::handlePrivStartCnf and handlePrivStopCnf).              *)
THEOREM NoneLost ==
    ASSUME Orderly
    PROVE  Spec => []ConfirmationsAddUp
<1>1. IInv => ConfirmationsAddUp
    BY AddUp DEF IInv
<1> QED
    BY <1>1, Inductive, PTL

(* Under the same hypothesis no actor has started or stopped before its    *)
(* children: what actor.hpp:299 and actor_life_cycle.hpp:13 say, and what  *)
(* two children of one class, or a Stop before the root has started, break.*)
THEOREM LeavesFirst ==
    ASSUME Orderly
    PROVE  Spec => [](StartedAfterChildren /\ StoppedAfterChildren)
<1>1. IInv => StartedAfterChildren /\ StoppedAfterChildren
    BY FromTheLeaves DEF IInv
<1> QED
    BY <1>1, Inductive, PTL

(* Under the same hypothesis an actor with children misses nothing to which *)
(* it listens in its callback of StartReq: when Core::run has returned it   *)
(* has heard the start of the root and each stop once, whatever the commands*)
(* and the events of its port have waited for (start_stop.cpp:131 listens  *)
(* so).  Whatever is listened to is of the class of an actor.              *)
THEOREM NothingIsMissed ==
    ASSUME Orderly, \A l \in Late : \E b \in Actors : ClassOf[b] = l[2].class
    PROVE  Spec => []LateListensHear
<1>1. LInv => LateListensHear
    BY AllHeard
<1> QED
    BY <1>1, LInductive, PTL

(* Under the same hypothesis the life cycle does what it promises: every   *)
(* actor starts once, after its children, and stops once, after its        *)
(* children and not before the root has started, and Core::run returns     *)
(* when the root has stopped.                                              *)
THEOREM Implements ==
    ASSUME Orderly
    PROVE  Spec => ImplementsStartStop
<1>1. Init => Promise!Init
    BY DEF Init, Promise!Init
<1>2. IInv /\ [Next]_vars => [Promise!Next]_(Promise!vars)
    BY NextImplements
<1> QED
    BY <1>1, <1>2, Inductive, PTL DEF Spec, ImplementsStartStop, Promise!Spec

=============================================================================
