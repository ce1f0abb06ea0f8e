-------------------------- MODULE MessagingProofs --------------------------
(***************************************************************************)
(* Theorems about Messaging, for any ports, types and messages, and any    *)
(* handles of which the constructors use finitely many.                    *)
(***************************************************************************)
EXTENDS Messaging, FiniteSetTheorems, SequenceTheorems, TLAPS

-----------------------------------------------------------------------------
(* Sequences. *)

\* A finite set as a sequence: every element once, nothing else.
LEMMA SetAsSequence ==
    ASSUME NEW S, IsFiniteSet(S)
    PROVE  /\ SetToSeq(S) \in Seq(S)
           /\ Len(SetToSeq(S)) = Cardinality(S)
           /\ \A i, j \in 1..Len(SetToSeq(S)) : SetToSeq(S)[i] = SetToSeq(S)[j] => i = j
           /\ \A x \in S : \E i \in 1..Len(SetToSeq(S)) : SetToSeq(S)[i] = x
           /\ S = {} => SetToSeq(S) = <<>>
<1> DEFINE n == Cardinality(S)
<1>1. n \in Nat /\ ExistsBijection(1..n, S)
    BY FS_CardinalityType
<1>2. \E f \in [1..n -> S] : IsInjective(f)
    BY <1>1 DEF ExistsBijection, Bijection, Injection
<1>3. SetToSeq(S) \in [1..n -> S] /\ IsInjective(SetToSeq(S))
    BY <1>2 DEF SetToSeq
<1>4. SetToSeq(S) \in Seq(S) /\ Len(SetToSeq(S)) = n
    BY <1>1, <1>3, SeqDef
<1>5. \A i, j \in 1..n : SetToSeq(S)[i] = SetToSeq(S)[j] => i = j
    BY <1>3 DEF IsInjective
<1>6. \A x \in S : \E i \in 1..n : SetToSeq(S)[i] = x
  <2>1. Cardinality(1..n) = n
      BY <1>1, FS_Interval
  <2>2. SetToSeq(S) \in Injection(1..n, S)
      BY <1>3 DEF Injection
  <2>3. SetToSeq(S) \in Surjection(1..n, S)
      BY <2>1, <2>2, FS_Injection
  <2> QED
      BY <2>3 DEF Surjection
<1>7. S = {} => SetToSeq(S) = <<>>
    BY <1>4, FS_EmptySet, EmptySeq
<1> QED
    BY <1>1, <1>4, <1>5, <1>6, <1>7

\* Moving the first element of t to the end of s does not change s \o t.
LEMMA MoveHead ==
    ASSUME NEW S, NEW s \in Seq(S), NEW t \in Seq(S), t # <<>>
    PROVE  Append(s, Head(t)) \o Tail(t) = s \o t
<1> DEFINE a == Append(s, Head(t)) \o Tail(t)
           b == s \o t
<1>1. Head(t) = t[1] /\ Head(t) \in S /\ Tail(t) \in Seq(S) /\ Len(t) \in Nat \ {0}
    BY EmptySeq, HeadTailProperties
<1>2. Len(Tail(t)) = Len(t) - 1 /\ \A i \in 1..(Len(t) - 1) : Tail(t)[i] = t[i + 1]
    BY HeadTailProperties
<1>3. /\ Append(s, Head(t)) \in Seq(S)
      /\ Len(Append(s, Head(t))) = Len(s) + 1
      /\ \A i \in 1..Len(s) : Append(s, Head(t))[i] = s[i]
      /\ Append(s, Head(t))[Len(s) + 1] = t[1]
    BY <1>1, AppendProperties
<1>4. a \in Seq(S) /\ b \in Seq(S) /\ Len(a) = Len(s) + Len(t) /\ Len(b) = Len(s) + Len(t)
    BY <1>1, <1>2, <1>3, ConcatProperties
<1>5. ASSUME NEW i \in 1..(Len(s) + Len(t))
      PROVE  a[i] = b[i]
  <2>1. Len(s) \in Nat /\ i \in Int
      BY LenProperties
  <2>2. b[i] = IF i <= Len(s) THEN s[i] ELSE t[i - Len(s)]
      BY ConcatProperties
  <2>3. a[i] = IF i <= Len(s) + 1 THEN Append(s, Head(t))[i] ELSE Tail(t)[i - (Len(s) + 1)]
      BY <1>1, <1>2, <1>3, <2>1, ConcatProperties
  <2>4. CASE i <= Len(s)
      BY <1>3, <2>1, <2>2, <2>3, <2>4
  <2>5. CASE i = Len(s) + 1
      BY <1>3, <2>1, <2>2, <2>3, <2>5
  <2>6. CASE i > Len(s) + 1
    <3>1. i - (Len(s) + 1) \in 1..(Len(t) - 1) /\ i - (Len(s) + 1) + 1 = i - Len(s)
        BY <1>1, <2>1, <2>6
    <3> QED
        BY <1>2, <2>1, <2>2, <2>3, <2>6, <3>1
  <2> QED
      BY <2>1, <2>4, <2>5, <2>6
<1> HIDE DEF a, b
<1>6. a = b
    BY <1>4, <1>5, SeqEqual
<1> QED
    BY <1>6 DEF a, b

LEMMA AppendAssociates ==
    ASSUME NEW S, NEW s \in Seq(S), NEW t \in Seq(S), NEW e \in S
    PROVE  s \o Append(t, e) = Append(s \o t, e)
<1>1. Append(t, e) = t \o <<e>> /\ Append(s \o t, e) = (s \o t) \o <<e>>
    BY AppendIsConcat, ConcatProperties
<1>2. <<e>> \in Seq(S)
    OBVIOUS
<1> QED
    BY <1>1, <1>2, ConcatAssociative

-----------------------------------------------------------------------------
(***************************************************************************)
(* The inductive invariant.                                                *)
(***************************************************************************)

\* scheduled_ stands for the one consume() that will look at the queues: it
\* is in the actor's queue or running.
Attended(p) ==
    /\ scheduled[p] <=> queued[p] = 1 \/ pc[p] # "idle"
    /\ queued[p] = 1 => pc[p] = "idle"
    /\ ~scheduled[p] => eventQueue[p] = <<>> /\ commandsQueue[p] = <<>>

\* What consume() knows where it is.
Consuming(p) ==
    /\ pc[p] = "register" => current[p] \in Of(Handles, p) /\ FirstOfType(current[p])
    /\ pc[p] \in {"pop", "finish"} => commandsQueue[p] = <<>>
    /\ pc[p] = "pop" => eventQueue[p] # <<>>
    /\ calls[p] \subseteq Of(Handles, p)

\* One thread is inside publish at most, and it serves registered ports.
Publishing ==
    /\ \A t, u \in Threads : sending[t] # NoMessage /\ sending[u] # NoMessage => t = u
    /\ \A t \in Threads : sending[t] = NoMessage => todo[t] = {}
    /\ \A t \in Threads : todo[t] \subseteq {h \in registered : TypeOf[h] = TypeOf[sending[t]]}
    /\ \A g, h \in registered : PortOf[g] = PortOf[h] /\ TypeOf[g] = TypeOf[h] => g = h

IInv ==
    /\ TypeOK
    /\ \A p \in Ports : Attended(p)
    /\ \A p \in Ports : Consuming(p)
    /\ \A p \in Ports : \A i \in DOMAIN commandsQueue[p] :
           PortOf[commandsQueue[p][i].handle] = p
    /\ Publishing

LEMMA InitIInv ==
    ASSUME Init
    PROVE  IInv
<1> DEFINE Commands == [op : {"listen", "unlisten"}, handle : Handles]
           Ctor(p) == {Command("listen", h) : h \in Of(CtorHandles, p)}
<1>1. ASSUME NEW p \in Ports
      PROVE  /\ IsFiniteSet(Ctor(p))
             /\ commandsQueue[p] \in Seq(Commands)
             /\ \A i \in DOMAIN commandsQueue[p] : PortOf[commandsQueue[p][i].handle] = p
             /\ Of(CtorHandles, p) = {} => commandsQueue[p] = <<>>
  <2>1. IsFiniteSet(Of(CtorHandles, p))
      BY MessagingAssumption, FS_Subset DEF Of
  <2>2. IsFiniteSet(Ctor(p))
    <3> DEFINE f == [h \in Of(CtorHandles, p) |-> Command("listen", h)]
    <3>1. f \in Surjection(Of(CtorHandles, p), Ctor(p))
        BY DEF Surjection
    <3> QED
        BY <2>1, <3>1, FS_Surjection
  <2>3. Ctor(p) \subseteq Commands /\ \A c \in Ctor(p) : PortOf[c.handle] = p
      BY MessagingAssumption DEF Of, Command
  <2>4. Of(CtorHandles, p) = {} => Ctor(p) = {}
      OBVIOUS
  <2>5. commandsQueue[p] = SetToSeq(Ctor(p))
      BY DEF Init
  <2>6. commandsQueue[p] \in Seq(Ctor(p))
      BY <2>2, <2>5, SetAsSequence
  <2>7. commandsQueue[p] \in Seq(Commands)
      BY <2>3, <2>6, SeqMonotonic
  <2>8. \A i \in DOMAIN commandsQueue[p] : commandsQueue[p][i] \in Ctor(p)
      BY <2>6, LenProperties, ElementOfSeq
  <2> QED
      BY <2>2, <2>3, <2>4, <2>5, <2>7, <2>8, SetAsSequence
<1>2. TypeOK
  <2>1. commandsQueue \in [Ports -> Seq(Commands)]
      BY <1>1 DEF Init
  <2>2. scheduled \in [Ports -> BOOLEAN] /\ queued \in [Ports -> {0, 1}]
      BY DEF Init
  <2>3. eventQueue \in [Ports -> Seq(Messages)] /\ handled \in [Ports -> Seq(Messages)]
      BY DEF Init
  <2> QED
      BY <2>1, <2>2, <2>3 DEF Init, TypeOK
<1>3. ASSUME NEW p \in Ports
      PROVE  Attended(p) /\ Consuming(p)
  <2>1. scheduled[p] <=> Of(CtorHandles, p) # {}
      BY DEF Init
  <2>2. queued[p] = 1 <=> Of(CtorHandles, p) # {}
      BY DEF Init
  <2>3. eventQueue[p] = <<>> /\ pc[p] = "idle" /\ calls[p] = {}
      BY DEF Init
  <2> QED
      BY <1>1, <2>1, <2>2, <2>3 DEF Attended, Consuming
<1>4. Publishing
    BY DEF Init, Publishing
<1> QED
    BY <1>1, <1>2, <1>3, <1>4 DEF IInv

-----------------------------------------------------------------------------

\* Something is put into a queue of port p and the port scheduled.
LEMMA ScheduleAttends ==
    ASSUME IInv, NEW p \in Ports, ScheduleOnOwner(p), UNCHANGED pc,
           \A q \in Ports \ {p} : UNCHANGED <<eventQueue[q], commandsQueue[q]>>
    PROVE  /\ scheduled' \in [Ports -> BOOLEAN]
           /\ queued' \in [Ports -> {0, 1}]
           /\ \A q \in Ports : Attended(q)'
<1>1. scheduled \in [Ports -> BOOLEAN] /\ queued \in [Ports -> {0, 1}] /\ \A q \in Ports : Attended(q)
    BY DEF IInv, TypeOK
<1>2. scheduled' \in [Ports -> BOOLEAN] /\ scheduled'[p]
    BY <1>1 DEF ScheduleOnOwner
<1>3. CASE scheduled[p]
  <2>1. UNCHANGED queued
      BY <1>1, <1>3 DEF ScheduleOnOwner, NotScheduled
  <2> QED
      BY <1>1, <1>2, <1>3, <2>1 DEF ScheduleOnOwner, Attended
<1>4. CASE ~scheduled[p]
  <2>1. queued[p] = 0 /\ pc[p] = "idle"
      BY <1>1, <1>4 DEF Attended
  <2>2. queued' = [queued EXCEPT ![p] = 1]
      BY <1>1, <1>4, <2>1 DEF ScheduleOnOwner, NotScheduled
  <2> QED
      BY <1>1, <1>2, <2>1, <2>2 DEF ScheduleOnOwner, Attended
<1> QED
    BY <1>3, <1>4

\* Network::publish.
LEMMA PublishStep ==
    ASSUME IInv, NEW t \in Threads,
           (\E m \in Messages : BeginPublish(t, m)) \/ Push(t) \/ EndPublish(t)
    PROVE  IInv'
<1> USE DEF IInv
<1>1. ASSUME NEW m \in Messages, BeginPublish(t, m)
      PROVE  IInv'
  <2>1. TypeOK'
      BY <1>1 DEF BeginPublish, TypeOK, Receivers, network, queues, consumer
  <2>2. \A p \in Ports : Attended(p)' /\ Consuming(p)'
      BY <1>1 DEF BeginPublish, Attended, Consuming, FirstOfType, queues, consumer
  <2>3. Publishing'
    <3>1. /\ sending' = [sending EXCEPT ![t] = m]
          /\ todo' = [todo EXCEPT ![t] = {h \in registered : TypeOf[h] = TypeOf[m]}]
          /\ UNCHANGED registered
          /\ \A u \in Threads : sending[u] = NoMessage
        BY <1>1 DEF BeginPublish, NetworkFree, Receivers
    <3>2. \A u \in Threads : todo[u] = {}
        BY <3>1 DEF Publishing
    <3>3. \A u \in Threads : sending'[u] # NoMessage => u = t
        BY <3>1 DEF TypeOK
    <3>4. \A u \in Threads \ {t} : todo'[u] = {}
        BY <3>1, <3>2 DEF TypeOK
    <3>5. sending'[t] = m /\ todo'[t] = {h \in registered' : TypeOf[h] = TypeOf[m]} /\ m # NoMessage
        BY <3>1, MessagingAssumption DEF TypeOK
    <3> QED
        BY <3>1, <3>3, <3>4, <3>5 DEF Publishing
  <2>4. UNCHANGED commandsQueue
      BY <1>1 DEF BeginPublish, queues
  <2> QED
      BY <2>1, <2>2, <2>3, <2>4
<1>2. CASE Push(t)
  <2>1. PICK h \in todo[t] :
            /\ eventQueue' = [eventQueue EXCEPT ![PortOf[h]] = Append(@, sending[t])]
            /\ ScheduleOnOwner(PortOf[h])
            /\ todo' = [todo EXCEPT ![t] = @ \ {h}]
            /\ UNCHANGED <<registered, published, sending, commandsQueue, consumer, asked>>
      BY <1>2 DEF Push
  <2>2. h \in registered /\ h \in Handles /\ PortOf[h] \in Ports /\ sending[t] \in Messages
      BY MessagingAssumption, <2>1 DEF Publishing, TypeOK
  <2>3. eventQueue' \in [Ports -> Seq(Messages)]
      BY <2>1, <2>2 DEF TypeOK
  <2>4. UNCHANGED pc /\ \A q \in Ports \ {PortOf[h]} : UNCHANGED <<eventQueue[q], commandsQueue[q]>>
      BY <2>1, <2>2 DEF consumer, TypeOK
  <2>5. /\ scheduled' \in [Ports -> BOOLEAN] /\ queued' \in [Ports -> {0, 1}]
        /\ \A q \in Ports : Attended(q)'
      BY <2>1, <2>2, <2>4, ScheduleAttends
  <2>6. TypeOK'
      BY <2>1, <2>3, <2>5 DEF TypeOK, consumer
  <2>7. ASSUME NEW q \in Ports
        PROVE  Consuming(q)'
    <3>1. eventQueue[q] # <<>> => eventQueue'[q] # <<>>
      <4>1. CASE q = PortOf[h]
        <5>1. eventQueue \in [Ports -> Seq(Messages)]
            BY DEF TypeOK
        <5>2. eventQueue'[q] = Append(eventQueue[q], sending[t])
            BY <2>1, <4>1, <5>1
        <5> QED
            BY <2>2, <5>1, <5>2, AppendProperties
      <4>2. CASE q # PortOf[h]
          BY <2>4, <4>2
      <4> QED
          BY <4>1, <4>2
    <3> QED
        BY <2>1, <3>1 DEF Consuming, FirstOfType, consumer
  <2>8. Publishing'
      BY <2>1 DEF Publishing, TypeOK
  <2> QED
      BY <2>1, <2>5, <2>6, <2>7, <2>8
<1>3. CASE EndPublish(t)
  <2>1. TypeOK'
      BY <1>3 DEF EndPublish, TypeOK, queues, consumer
  <2>2. \A p \in Ports : Attended(p)' /\ Consuming(p)'
      BY <1>3 DEF EndPublish, Attended, Consuming, FirstOfType, queues, consumer
  <2>3. Publishing'
      BY <1>3 DEF EndPublish, Publishing, TypeOK
  <2>4. UNCHANGED commandsQueue
      BY <1>3 DEF EndPublish, queues
  <2> QED
      BY <2>1, <2>2, <2>3, <2>4
<1> QED
    BY <1>1, <1>2, <1>3

\* What the code of a callback asks for.
LEMMA AskStep ==
    ASSUME IInv, NEW p \in Ports, NEW h \in Handles,
           Listen(p, h) \/ Unlisten(p, h) \/ UnlistenAll(p, h)
    PROVE  IInv'
<1> USE DEF IInv
<1>1. PortOf[h] = p /\ pc[p] = "event" /\ UNCHANGED <<network, eventQueue, consumer>>
    BY DEF Listen, Unlisten, UnlistenAll, InCallback
<1>2. PICK op \in {"listen", "unlisten"} :
          commandsQueue' = [commandsQueue EXCEPT ![p] = Append(@, Command(op, h))]
    BY DEF Listen, Unlisten, UnlistenAll
<1>3. asked' \in [Handles -> {"nothing", "listen", "unlisten"}]
    BY DEF Listen, Unlisten, UnlistenAll, TypeOK
<1> DEFINE C == [op : {"listen", "unlisten"}, handle : Handles]
<1>4. Command(op, h) \in C /\ Command(op, h).handle = h
    BY DEF Command
<1>5. commandsQueue' \in [Ports -> Seq(C)]
  <2>1. commandsQueue \in [Ports -> Seq(C)]
      BY DEF TypeOK
  <2>2. Append(commandsQueue[p], Command(op, h)) \in Seq(C)
      BY <1>4, <2>1, AppendProperties
  <2> QED
      BY <1>2, <2>1, <2>2
<1>6. \A q \in Ports \ {p} : UNCHANGED <<eventQueue[q], commandsQueue[q]>>
    BY <1>1, <1>2 DEF TypeOK
<1>7. /\ scheduled' \in [Ports -> BOOLEAN] /\ queued' \in [Ports -> {0, 1}]
      /\ \A q \in Ports : Attended(q)'
  <2>1. CASE ScheduleOnOwner(p)
      BY <1>1, <1>6, <2>1, ScheduleAttends DEF consumer
  <2>2. CASE UNCHANGED <<scheduled, queued>>
    <3>1. \A q \in Ports : scheduled[q] <=> scheduled'[q]
        BY <2>2
    <3> QED
        BY <1>1, <1>6, <2>2, <3>1 DEF Attended, TypeOK, consumer
  <2> QED
      BY <2>1, <2>2 DEF Listen, Unlisten, UnlistenAll
<1>8. TypeOK'
    BY <1>1, <1>3, <1>5, <1>7 DEF TypeOK, network, consumer
<1>9. \A q \in Ports : Consuming(q)'
    BY <1>1, <1>6 DEF Consuming, FirstOfType, network, consumer
<1>10. Publishing'
    BY <1>1 DEF Publishing, network
<1>11. ASSUME NEW q \in Ports, NEW i \in DOMAIN commandsQueue'[q]
       PROVE  PortOf[commandsQueue'[q][i].handle] = q
  <2>1. CASE q # p
      BY <1>2, <2>1, <1>11 DEF TypeOK
  <2>2. CASE q = p
    <3>1. commandsQueue[p] \in Seq(C) /\ commandsQueue'[p] = Append(commandsQueue[p], Command(op, h))
        BY <1>2 DEF TypeOK
    <3>2. i \in 1..(Len(commandsQueue[p]) + 1)
        BY <1>4, <1>11, <2>2, <3>1, AppendProperties, LenProperties
    <3>3. CASE i = Len(commandsQueue[p]) + 1
        BY <1>1, <1>4, <2>2, <3>1, <3>3, AppendProperties
    <3>4. CASE i # Len(commandsQueue[p]) + 1
      <4>1. i \in DOMAIN commandsQueue[p]
          BY <3>1, <3>2, <3>4, LenProperties
      <4>2. commandsQueue'[p][i] = commandsQueue[p][i]
          BY <1>4, <3>1, <4>1, LenProperties, AppendProperties
      <4> QED
          BY <2>2, <4>1, <4>2
    <3> QED
        BY <3>3, <3>4
  <2> QED
      BY <2>1, <2>2
<1> QED
    BY <1>7, <1>8, <1>9, <1>10, <1>11

\* Port::consume.
LEMMA ConsumeStep ==
    ASSUME IInv, NEW p \in Ports, Consume(p)
    PROVE  IInv'
<1> USE DEF IInv
<1> DEFINE C == [op : {"listen", "unlisten"}, handle : Handles]
<1>1. CASE Take(p)
  <2>1. TypeOK'
    <3>1. queued' = [queued EXCEPT ![p] = 0]
      <4>1. queued[p] = 1 /\ queued[p] - 1 = 0
          BY <1>1 DEF Take, TypeOK
      <4> QED
          BY <1>1, <4>1 DEF Take
    <3> QED
        BY <1>1, <3>1 DEF Take, TypeOK, network
  <2>2. \A q \in Ports : Attended(q)' /\ Consuming(q)'
      BY <1>1 DEF Take, TypeOK, Attended, Consuming, FirstOfType, network
  <2>3. Publishing' /\ UNCHANGED commandsQueue
      BY <1>1 DEF Take, Publishing, network
  <2> QED
      BY <2>1, <2>2, <2>3
<1>2. CASE RunCommand(p)
  <2> DEFINE c == Head(commandsQueue[p])
  <2>1. /\ commandsQueue \in [Ports -> Seq(C)] /\ commandsQueue[p] # <<>>
        /\ c \in C /\ c = commandsQueue[p][1] /\ Tail(commandsQueue[p]) \in Seq(C)
        /\ 1 \in DOMAIN commandsQueue[p]
    <3>1. commandsQueue \in [Ports -> Seq(C)] /\ commandsQueue[p] # <<>>
        BY <1>2 DEF RunCommand, CommandsWait, TypeOK
    <3>2. Len(commandsQueue[p]) \in Nat \ {0} /\ DOMAIN commandsQueue[p] = 1..Len(commandsQueue[p])
        BY <3>1, EmptySeq, LenProperties
    <3>3. c \in C /\ Tail(commandsQueue[p]) \in Seq(C)
        BY <3>1, HeadTailProperties
    <3>4. c = commandsQueue[p][1]
        BY <3>1
    <3> QED
        BY <3>1, <3>2, <3>3, <3>4
  <2>2. PortOf[c.handle] = p /\ c.handle \in Handles
      BY <2>1
  <2>3. /\ commandsQueue' = [commandsQueue EXCEPT ![p] = Tail(@)]
        /\ UNCHANGED <<network, eventQueue, scheduled, queued, calls, handled, asked>>
        /\ pc[p] = "commands"
      BY <1>2 DEF RunCommand
  <2>4. \/ /\ FirstOfType(c.handle)
           /\ pc' = [pc EXCEPT ![p] = "register"]
           /\ current' = [current EXCEPT ![p] = c.handle]
           /\ UNCHANGED callbacks
        \/ /\ UNCHANGED <<pc, current>>
           /\ callbacks' \in {callbacks \cup {c.handle}, callbacks \ {c.handle}}
      BY <1>2 DEF RunCommand
  <2>5. commandsQueue' \in [Ports -> Seq(C)]
      BY <2>1, <2>3
  <2>6. TypeOK'
      BY <2>2, <2>3, <2>4, <2>5 DEF TypeOK, network
  <2>7. ASSUME NEW q \in Ports
        PROVE  Attended(q)'
    <3>1. commandsQueue[q] = <<>> => commandsQueue'[q] = <<>>
        BY <2>1, <2>3
    <3>2. pc[q] = "idle" <=> pc'[q] = "idle"
        BY <2>3, <2>4 DEF TypeOK
    <3> QED
        BY <2>3, <3>1, <3>2 DEF Attended
  <2>8. ASSUME NEW q \in Ports
        PROVE  Consuming(q)'
    <3>1. \A h : FirstOfType(h) => FirstOfType(h)'
        BY <2>3 DEF FirstOfType, network
    <3>2. CASE q # p
        BY <2>1, <2>3, <2>4, <3>1, <3>2 DEF Consuming, TypeOK
    <3>3. CASE q = p
        BY <2>2, <2>3, <2>4, <3>1, <3>3 DEF Consuming, TypeOK, Of
    <3> QED
        BY <3>2, <3>3
  <2>9. ASSUME NEW q \in Ports, NEW i \in DOMAIN commandsQueue'[q]
        PROVE  PortOf[commandsQueue'[q][i].handle] = q
    <3>1. CASE q # p
        BY <2>1, <2>3, <2>9, <3>1
    <3>2. CASE q = p
      <4>1. commandsQueue'[p] = Tail(commandsQueue[p])
          BY <2>1, <2>3
      <4>2. i + 1 \in DOMAIN commandsQueue[p] /\ commandsQueue'[p][i] = commandsQueue[p][i + 1]
          BY <2>1, <2>9, <3>2, <4>1, HeadTailProperties, LenProperties
      <4> QED
          BY <3>2, <4>2
    <3> QED
        BY <3>1, <3>2
  <2>10. Publishing'
      BY <2>3 DEF Publishing, network
  <2> QED
      BY <2>6, <2>7, <2>8, <2>9, <2>10
<1>3. CASE Register(p)
  <2>1. current[p] \in Of(Handles, p) /\ FirstOfType(current[p])
      BY <1>3 DEF Register, Consuming
  <2>2. TypeOK'
      BY <1>3, <2>1 DEF Register, TypeOK, Of, queues
  <2>3. \A q \in Ports : Attended(q)'
      BY <1>3 DEF Register, Attended, TypeOK, queues
  <2>4. ASSUME NEW q \in Ports
        PROVE  Consuming(q)'
    <3>1. ASSUME NEW h \in Of(Handles, q), q # p, FirstOfType(h)
          PROVE  FirstOfType(h)'
        BY <1>3, <2>1, <3>1 DEF Register, FirstOfType, Of
    <3> QED
        BY <1>3, <3>1 DEF Register, Consuming, TypeOK, queues
  <2>5. Publishing'
    <3>1. \A t \in Threads : sending[t] = NoMessage /\ todo[t] = {}
        BY <1>3 DEF Register, NetworkFree, Publishing
    <3>2. \A g \in registered : PortOf[g] = p => TypeOf[g] # TypeOf[current[p]]
        BY <2>1 DEF FirstOfType, Of
    <3>3. PortOf[current[p]] = p
        BY <2>1 DEF Of
    <3> QED
        BY <1>3, <3>1, <3>2, <3>3 DEF Register, Publishing
  <2>6. UNCHANGED commandsQueue
      BY <1>3 DEF Register, queues
  <2> QED
      BY <2>2, <2>3, <2>4, <2>5, <2>6
<1>4. CASE CountEvents(p)
  <2>1. TypeOK'
      BY <1>4 DEF CountEvents, TypeOK, network, queues
  <2>2. \A q \in Ports : Attended(q)' /\ Consuming(q)'
      BY <1>4 DEF CountEvents, CommandsWait, TypeOK, Attended, Consuming, FirstOfType, network, queues
  <2>3. Publishing' /\ UNCHANGED commandsQueue
      BY <1>4 DEF CountEvents, Publishing, network, queues
  <2> QED
      BY <2>1, <2>2, <2>3
<1>5. CASE PopEvent(p)
  <2>1. eventQueue \in [Ports -> Seq(Messages)] /\ handled \in [Ports -> Seq(Messages)]
      BY DEF TypeOK
  <2>2. eventQueue[p] # <<>>
      BY <1>5 DEF PopEvent, Consuming
  <2>3. Head(eventQueue[p]) \in Messages /\ Tail(eventQueue[p]) \in Seq(Messages)
      BY <2>1, <2>2, HeadTailProperties
  <2>4. /\ eventQueue' \in [Ports -> Seq(Messages)]
        /\ handled' \in [Ports -> Seq(Messages)]
    <3>1. Append(handled[p], Head(eventQueue[p])) \in Seq(Messages)
        BY <2>1, <2>3, AppendProperties
    <3> QED
        BY <1>5, <2>1, <2>3, <3>1 DEF PopEvent
  <2>5. calls' \in [Ports -> SUBSET Handles] /\ calls'[p] \subseteq Of(Handles, p)
      BY <1>5 DEF PopEvent, TypeOK, Of
  <2>6. TypeOK'
      BY <1>5, <2>4, <2>5 DEF PopEvent, TypeOK, network
  <2>7. ASSUME NEW q \in Ports
        PROVE  Attended(q)' /\ Consuming(q)'
    <3>1. CASE q = p
        BY <1>5, <2>5, <3>1 DEF PopEvent, TypeOK, Attended, Consuming
    <3>2. CASE q # p
        BY <1>5, <3>2 DEF PopEvent, TypeOK, Attended, Consuming, FirstOfType, network
    <3> QED
        BY <3>1, <3>2
  <2>8. Publishing' /\ UNCHANGED commandsQueue
      BY <1>5 DEF PopEvent, Publishing, network
  <2> QED
      BY <2>6, <2>7, <2>8
<1>6. CASE CallBack(p)
  <2>1. PICK h \in calls[p] : /\ current' = [current EXCEPT ![p] = h]
                              /\ calls' = [calls EXCEPT ![p] = @ \ {h}]
      BY <1>6 DEF CallBack
  <2>2. TypeOK'
      BY <1>6, <2>1 DEF CallBack, TypeOK, network, queues
  <2>3. \A q \in Ports : Attended(q)' /\ Consuming(q)'
    <3>1. \A q \in Ports : Attended(q)'
        BY <1>6 DEF CallBack, Attended, queues
    <3>2. pc[p] = "event" /\ calls'[p] \subseteq calls[p]
        BY <1>6, <2>1 DEF CallBack, TypeOK
    <3>3. \A q \in Ports \ {p} : calls'[q] = calls[q] /\ current'[q] = current[q]
        BY <2>1 DEF TypeOK
    <3>4. \A q \in Ports : Consuming(q)'
        BY <1>6, <3>2, <3>3 DEF CallBack, Consuming, FirstOfType, network, queues
    <3> QED
        BY <3>1, <3>4, Zenon
  <2>4. Publishing' /\ UNCHANGED commandsQueue
      BY <1>6 DEF CallBack, Publishing, network, queues
  <2> QED
      BY <2>2, <2>3, <2>4
<1>7. CASE EventDone(p)
  <2>1. TypeOK'
      BY <1>7 DEF EventDone, TypeOK, network, queues
  <2>2. \A q \in Ports : Attended(q)' /\ Consuming(q)'
    <3>1. \A q \in Ports : pc'[q] = IF q = p THEN "commands" ELSE pc[q]
        BY <1>7 DEF EventDone, TypeOK
    <3>2. \A q \in Ports : Attended(q)'
        BY <1>7, <3>1 DEF EventDone, Attended, queues
    <3>3. \A q \in Ports \ {p} : current'[q] = current[q]
        BY <1>7 DEF EventDone, TypeOK
    <3>4. \A q \in Ports : Consuming(q)'
        BY <1>7, <3>1, <3>3 DEF EventDone, Consuming, FirstOfType, network, queues
    <3> QED
        BY <3>2, <3>4, Zenon
  <2>3. Publishing' /\ UNCHANGED commandsQueue
      BY <1>7 DEF EventDone, Publishing, network, queues
  <2> QED
      BY <2>1, <2>2, <2>3
<1>8. CASE Finish(p)
  <2>1. /\ pc[p] = "finish" /\ queued[p] = 0 /\ WorkArrived(p) \in BOOLEAN
        /\ UNCHANGED <<network, commandsQueue, eventQueue, callbacks, current, calls, handled, asked>>
        /\ pc' = [pc EXCEPT ![p] = "idle"]
        /\ scheduled' = [scheduled EXCEPT ![p] = WorkArrived(p)]
        /\ queued' = [queued EXCEPT ![p] = IF WorkArrived(p) THEN 1 ELSE 0]
    <3>1. pc[p] = "finish" /\ queued[p] = 0 /\ WorkArrived(p) \in BOOLEAN
        BY <1>8 DEF Finish, WorkArrived, Attended, TypeOK
    <3>2. queued' = [queued EXCEPT ![p] = IF WorkArrived(p) THEN 1 ELSE 0]
        BY <1>8, <3>1 DEF Finish
    <3> QED
        BY <1>8, <3>1, <3>2 DEF Finish
  <2>2. TypeOK'
      BY <2>1 DEF TypeOK, network
  <2>3. ASSUME NEW q \in Ports
        PROVE  Attended(q)' /\ Consuming(q)'
    <3>1. CASE q = p
        BY <2>1, <3>1 DEF WorkArrived, TypeOK, Attended, Consuming
    <3>2. CASE q # p
        BY <2>1, <3>2 DEF TypeOK, Attended, Consuming, FirstOfType, network
    <3> QED
        BY <3>1, <3>2
  <2>4. Publishing'
      BY <2>1 DEF Publishing, network
  <2> QED
      BY <2>1, <2>2, <2>3, <2>4
<1> QED
    BY <1>1, <1>2, <1>3, <1>4, <1>5, <1>6, <1>7, <1>8 DEF Consume

LEMMA NextIInv ==
    ASSUME IInv, [Next]_vars
    PROVE  IInv'
<1>1. CASE UNCHANGED vars
    BY <1>1 DEF vars, network, queues, consumer, IInv, TypeOK, Attended, Consuming, FirstOfType, Publishing
<1> QED
    BY <1>1, PublishStep, AskStep, ConsumeStep DEF Next, Quiet

(* The variables of the network and of the ports keep their types; the     *)
(* actor never has two consume() of one port in its queue.                 *)
THEOREM Typing == Spec => []TypeOK
<1>1. Init => IInv
    BY InitIInv
<1>2. IInv => TypeOK
    BY DEF IInv
<1> QED
    BY <1>1, <1>2, NextIInv, PTL DEF Spec

(* port.hpp:192: a port with work is in the actor's queue, or its          *)
(* consume() is running and will look at the queues again.                 *)
THEOREM Attendance == Spec => []PortAttended
<1>1. Init => IInv
    BY InitIInv
<1>2. IInv => PortAttended
    BY DEF IInv, TypeOK, Attended, PortAttended
<1> QED
    BY <1>1, <1>2, NextIInv, PTL DEF Spec

-----------------------------------------------------------------------------
(***************************************************************************)
(* What became of each listen and unlisten: it waits as a command, or it   *)
(* is in force, and the commands of a handle keep their order.             *)
(***************************************************************************)

Pending(op, h) ==
    \E i \in DOMAIN commandsQueue[PortOf[h]] : commandsQueue[PortOf[h]][i] = Command(op, h)

Registering(h) == pc[PortOf[h]] = "register" /\ current[PortOf[h]] = h

InForce(h) == h \in callbacks \/ Pending("listen", h) \/ Registering(h)

InOrder(h) ==
    \A i, j \in DOMAIN commandsQueue[PortOf[h]] :
        /\ commandsQueue[PortOf[h]][i] = Command("listen", h)
        /\ commandsQueue[PortOf[h]][j] = Command("unlisten", h)
        => i < j

Kept(h) ==
    /\ asked[h] = "nothing" => ~InForce(h) /\ ~Pending("unlisten", h)
    /\ asked[h] = "listen" => InForce(h) /\ ~Pending("unlisten", h)
    /\ asked[h] = "unlisten" => ~InForce(h) \/ Pending("unlisten", h)
    /\ InOrder(h)

LEMMA CommandIs ==
    ASSUME NEW op, NEW h, NEW o, NEW g
    PROVE  Command(op, h) = Command(o, g) <=> op = o /\ h = g
<1>1. Command(op, h).op = op /\ Command(op, h).handle = h
    BY DEF Command
<1>2. Command(o, g).op = o /\ Command(o, g).handle = g
    BY DEF Command
<1> QED
    BY <1>1, <1>2

LEMMA InitKept ==
    ASSUME Init, NEW h \in Handles
    PROVE  Kept(h)
<1> DEFINE p == PortOf[h]
           Ctor == {Command("listen", g) : g \in Of(CtorHandles, p)}
<1>1. p \in Ports /\ IsFiniteSet(Ctor)
  <2>1. IsFiniteSet(Of(CtorHandles, p))
      BY MessagingAssumption, FS_Subset DEF Of
  <2> DEFINE f == [g \in Of(CtorHandles, p) |-> Command("listen", g)]
  <2>2. f \in Surjection(Of(CtorHandles, p), Ctor)
      BY DEF Surjection
  <2> QED
      BY <2>1, <2>2, FS_Surjection, MessagingAssumption
<1>2. commandsQueue[p] = SetToSeq(Ctor)
    BY <1>1 DEF Init
<1>3. /\ \A i \in DOMAIN commandsQueue[p] : commandsQueue[p][i] \in Ctor
      /\ \A c \in Ctor : \E i \in DOMAIN commandsQueue[p] : commandsQueue[p][i] = c
  <2> HIDE DEF Ctor, p
  <2>1. commandsQueue[p] \in Seq(Ctor)
      BY <1>1, <1>2, SetAsSequence
  <2>2. DOMAIN commandsQueue[p] = 1..Len(commandsQueue[p])
      BY <2>1, LenProperties
  <2>3. \A i \in DOMAIN commandsQueue[p] : commandsQueue[p][i] \in Ctor
      BY <2>1, <2>2, ElementOfSeq
  <2>4. \A c \in Ctor : \E i \in 1..Len(commandsQueue[p]) : commandsQueue[p][i] = c
      BY <1>1, <1>2, SetAsSequence
  <2> QED
      BY <2>2, <2>3, <2>4
<1>4. ~Pending("unlisten", h)
    BY <1>3, CommandIs DEF Pending
<1>5. Pending("listen", h) <=> h \in CtorHandles
  <2>1. Command("listen", h) \in Ctor <=> h \in CtorHandles
      BY CommandIs DEF Of
  <2> QED
      BY <1>3, <2>1 DEF Pending
<1>6. InOrder(h)
    BY <1>4 DEF Pending, InOrder
<1>7. h \notin callbacks /\ ~Registering(h) /\ asked[h] = IF h \in CtorHandles THEN "listen" ELSE "nothing"
    BY <1>1 DEF Init, Registering
<1> QED
    BY <1>4, <1>5, <1>6, <1>7 DEF Kept, InForce

\* The first command of the queue of h's port is executed.
LEMMA CommandKept ==
    ASSUME IInv, NEW h \in Handles, Kept(h), RunCommand(PortOf[h])
    PROVE  Kept(h)'
<1> DEFINE p == PortOf[h]
           q == commandsQueue[p]
           C == [op : {"listen", "unlisten"}, handle : Handles]
<1>1. p \in Ports /\ pc[p] = "commands" /\ pc \in [Ports -> {"idle", "commands", "register", "pop", "event", "finish"}]
    BY MessagingAssumption DEF RunCommand, IInv, TypeOK
<1>2. commandsQueue \in [Ports -> Seq(C)] /\ q \in Seq(C) /\ q # <<>>
    BY <1>1 DEF RunCommand, CommandsWait, IInv, TypeOK
<1>3. commandsQueue'[p] = Tail(q) /\ UNCHANGED asked
    BY <1>1, <1>2 DEF RunCommand
<1>4. Len(q) \in Nat \ {0} /\ DOMAIN q = 1..Len(q) /\ Head(q) = q[1]
    BY <1>2, EmptySeq, LenProperties
<1>5. DOMAIN Tail(q) = 1..(Len(q) - 1) /\ \A i \in 1..(Len(q) - 1) : Tail(q)[i] = q[i + 1]
    BY <1>2, <1>4, HeadTailProperties, LenProperties
<1>6. ASSUME NEW op
      PROVE  /\ Pending(op, h)' => Pending(op, h)
             /\ Pending(op, h) => Pending(op, h)' \/ Head(q) = Command(op, h)
  <2>1. ASSUME Pending(op, h)'
        PROVE  Pending(op, h)
    <3>1. PICK i \in 1..(Len(q) - 1) : q[i + 1] = Command(op, h)
        BY <1>3, <1>5, <2>1 DEF Pending, Command
    <3>2. i + 1 \in DOMAIN q
        BY <1>4
    <3> QED
        BY <3>1, <3>2 DEF Pending
  <2>2. ASSUME Pending(op, h), Head(q) # Command(op, h)
        PROVE  Pending(op, h)'
    <3>1. PICK i \in DOMAIN q : q[i] = Command(op, h)
        BY <2>2 DEF Pending
    <3>2. i - 1 \in 1..(Len(q) - 1) /\ (i - 1) + 1 = i
        BY <1>4, <2>2, <3>1
    <3>3. Tail(q)[i - 1] = Command(op, h)
        BY <1>5, <3>1, <3>2
    <3> QED
        BY <1>3, <1>5, <3>2, <3>3 DEF Pending, Command
  <2> QED
      BY <2>1, <2>2
<1>7. InOrder(h)'
  <2> SUFFICES ASSUME NEW i \in 1..(Len(q) - 1), NEW j \in 1..(Len(q) - 1),
                      q[i + 1] = Command("listen", h), q[j + 1] = Command("unlisten", h)
               PROVE  i < j
      BY <1>3, <1>5 DEF InOrder, Command
  <2>1. i + 1 \in DOMAIN q /\ j + 1 \in DOMAIN q
      BY <1>4
  <2>2. i + 1 < j + 1
      BY <2>1 DEF Kept, InOrder
  <2> QED
      BY <1>4, <2>2
<1>8. Head(q) \in C
    BY <1>2, HeadTailProperties
<1>9. ~Registering(h)
    BY <1>1 DEF Registering
<1>10. CASE Head(q) = Command("listen", h)
  <2>1. Head(q).op = "listen" /\ Head(q).handle = h
      BY <1>10 DEF Command
  <2>2. h \in callbacks' \/ Registering(h)'
      BY <1>1, <2>1 DEF RunCommand, Registering, IInv, TypeOK
  <2>3. InForce(h)' /\ InForce(h)
      BY <1>4, <1>10, <2>2 DEF InForce, Pending
  <2>4. Pending("unlisten", h)' <=> Pending("unlisten", h)
      BY <1>6, <1>10, CommandIs
  <2> QED
      BY <1>3, <1>7, <2>3, <2>4 DEF Kept
<1>11. CASE Head(q) = Command("unlisten", h)
  <2>1. Head(q).op = "unlisten" /\ Head(q).handle = h
      BY <1>11 DEF Command
  <2>2. h \notin callbacks' /\ UNCHANGED <<pc, current>>
      BY <2>1 DEF RunCommand
  <2>3. ~Registering(h)'
      BY <1>9, <2>2 DEF Registering
  <2>4. ~Pending("listen", h)
    <3>1. ASSUME NEW i \in DOMAIN q, q[i] = Command("listen", h)
          PROVE  FALSE
        BY <1>4, <1>11, <3>1 DEF Kept, InOrder
    <3> QED
        BY <3>1 DEF Pending
  <2>5. ~InForce(h)'
      BY <1>6, <2>2, <2>3, <2>4 DEF InForce
  <2>6. Pending("unlisten", h)
      BY <1>4, <1>11 DEF Pending
  <2>7. asked[h] = "unlisten"
      BY <2>6 DEF Kept, IInv, TypeOK
  <2> QED
      BY <1>3, <1>7, <2>5, <2>7 DEF Kept
<1>12. CASE Head(q).handle # h
  <2>1. \A op : Head(q) # Command(op, h)
      BY <1>12 DEF Command
  <2>2. \A op : Pending(op, h)' <=> Pending(op, h)
      BY <1>6, <2>1
  <2>3. h \in callbacks' <=> h \in callbacks
      BY <1>12 DEF RunCommand
  <2>4. ~Registering(h)'
      BY <1>1, <1>12 DEF RunCommand, Registering, IInv, TypeOK
  <2> QED
      BY <1>3, <1>7, <1>9, <2>2, <2>3, <2>4 DEF Kept, InForce
<1>13. Head(q) = Command("listen", h) \/ Head(q) = Command("unlisten", h) \/ Head(q).handle # h
  <2>1. Head(q) = [op |-> Head(q).op, handle |-> Head(q).handle] /\ Head(q).op \in {"listen", "unlisten"}
      BY <1>8
  <2> QED
      BY <2>1 DEF Command
<1> QED
    BY <1>10, <1>11, <1>12, <1>13

\* What Kept(h) is about has not changed.
LEMMA SameKept ==
    ASSUME NEW h \in Handles, Kept(h), UNCHANGED asked,
           UNCHANGED commandsQueue[PortOf[h]],
           h \in callbacks' <=> h \in callbacks,
           Registering(h)' <=> Registering(h)
    PROVE  Kept(h)'
<1>1. \A op : Pending(op, h)' <=> Pending(op, h)
    BY DEF Pending, Command
<1>2. InForce(h)' <=> InForce(h)
    BY <1>1 DEF InForce
<1>3. InOrder(h)'
    BY DEF Kept, InOrder, Command
<1> QED
    BY <1>1, <1>2, <1>3 DEF Kept

\* A callback asks for something: a command enters the queue.
LEMMA AskKept ==
    ASSUME IInv, NEW p \in Ports, NEW g \in Handles, NEW h \in Handles, Kept(h),
           Listen(p, g) \/ Unlisten(p, g) \/ UnlistenAll(p, g)
    PROVE  Kept(h)'
<1> DEFINE C == [op : {"listen", "unlisten"}, handle : Handles]
           q == commandsQueue[p]
<1>1. PICK o \in {"listen", "unlisten"} :
          /\ commandsQueue' = [commandsQueue EXCEPT ![p] = Append(@, Command(o, g))]
          /\ asked' = [asked EXCEPT ![g] = o]
          /\ o = "listen" => asked[g] = "nothing"
          /\ o = "unlisten" => asked[g] = "listen"
    BY DEF Listen, Unlisten, UnlistenAll
<1>2. PortOf[g] = p /\ UNCHANGED <<callbacks, pc, current>>
    BY DEF Listen, Unlisten, UnlistenAll, consumer
<1>3. commandsQueue \in [Ports -> Seq(C)] /\ asked \in [Handles -> {"nothing", "listen", "unlisten"}]
    BY DEF IInv, TypeOK
<1>4. Command(o, g) \in C
    BY DEF Command
<1>5. /\ q \in Seq(C) /\ DOMAIN q = 1..Len(q) /\ Len(q) \in Nat
      /\ commandsQueue'[p] = Append(q, Command(o, g))
    BY <1>1, <1>3, LenProperties
<1>6. /\ DOMAIN Append(q, Command(o, g)) = 1..(Len(q) + 1)
      /\ Append(q, Command(o, g))[Len(q) + 1] = Command(o, g)
      /\ \A i \in 1..Len(q) : Append(q, Command(o, g))[i] = q[i]
  <2> HIDE DEF C, q
  <2> QED
      BY <1>4, <1>5, AppendProperties, LenProperties
<1>7. Registering(h)' <=> Registering(h)
    BY <1>2 DEF Registering
<1>8. CASE PortOf[h] # p
  <2>1. UNCHANGED commandsQueue[PortOf[h]]
      BY <1>1, <1>3, <1>8, MessagingAssumption
  <2>2. h # g /\ asked'[h] = asked[h]
      BY <1>1, <1>2, <1>3, <1>8
  <2>3. \A op : Pending(op, h)' <=> Pending(op, h)
      BY <2>1 DEF Pending, Command
  <2>4. InForce(h)' <=> InForce(h)
      BY <1>2, <1>7, <2>3 DEF InForce
  <2>5. InOrder(h)'
      BY <2>1 DEF Kept, InOrder, Command
  <2> QED
      BY <2>2, <2>3, <2>4, <2>5 DEF Kept
<1>9. CASE PortOf[h] = p
  <2> HIDE DEF C, q
  <2>1. \A op : Pending(op, h)' <=> Pending(op, h) \/ (op = o /\ h = g)
    <3> TAKE op
    <3>1. Pending(op, h) <=> \E i \in 1..Len(q) : q[i] = Command(op, h)
        BY <1>5, <1>9 DEF Pending, q
    <3>2. Pending(op, h)' <=> \E i \in 1..(Len(q) + 1) : Append(q, Command(o, g))[i] = Command(op, h)
        BY <1>5, <1>6, <1>9 DEF Pending, Command
    <3>3. Command(o, g) = Command(op, h) <=> op = o /\ h = g
        BY CommandIs
    <3>4. \A i \in 1..(Len(q) + 1) : i \in 1..Len(q) \/ i = Len(q) + 1
        BY <1>5
    <3>5. \A i \in 1..Len(q) : i \in 1..(Len(q) + 1)
        BY <1>5
    <3>6. Len(q) + 1 \in 1..(Len(q) + 1)
        BY <1>5
    <3> QED
        BY <1>6, <3>1, <3>2, <3>3, <3>4, <3>5, <3>6
  <2>2. InForce(h)' <=> InForce(h) \/ (o = "listen" /\ h = g)
      BY <1>2, <1>7, <2>1 DEF InForce
  <2>3. InOrder(h)'
    <3> SUFFICES ASSUME NEW i \in 1..(Len(q) + 1), NEW j \in 1..(Len(q) + 1),
                        Append(q, Command(o, g))[i] = Command("listen", h),
                        Append(q, Command(o, g))[j] = Command("unlisten", h)
                 PROVE  i < j
        BY <1>5, <1>6, <1>9 DEF InOrder, Command
    <3>1. CASE j = Len(q) + 1
      <4>1. i # j
          BY <3>1, CommandIs
      <4> QED
          BY <1>5, <3>1, <4>1
    <3>2. CASE j # Len(q) + 1
      <4>1. j \in 1..Len(q) /\ q[j] = Command("unlisten", h)
          BY <1>5, <1>6, <3>2
      <4>2. Pending("unlisten", h)
          BY <1>5, <1>9, <4>1 DEF Pending, q
      <4>3. ~(o = "listen" /\ g = h)
          BY <1>1, <4>2 DEF Kept
      <4>4. i # Len(q) + 1
          BY <1>6, <4>3, CommandIs
      <4>5. i \in 1..Len(q) /\ q[i] = Command("listen", h)
          BY <1>5, <1>6, <4>4
      <4> QED
          BY <1>5, <1>9, <4>1, <4>5 DEF Kept, InOrder, q
    <3> QED
        BY <3>1, <3>2
  <2>4. CASE h # g
    <3>1. asked'[h] = asked[h]
        BY <1>1, <1>3, <2>4
    <3> QED
        BY <2>1, <2>2, <2>3, <2>4, <3>1 DEF Kept
  <2>5. CASE h = g
    <3>1. asked'[h] = o
        BY <1>1, <1>3, <2>5
    <3> QED
        BY <1>1, <2>1, <2>2, <2>3, <2>5, <3>1 DEF Kept
  <2> QED
      BY <2>4, <2>5
<1> QED
    BY <1>8, <1>9

LEMMA NextKept ==
    ASSUME IInv, [Next]_vars, NEW h \in Handles, Kept(h)
    PROVE  Kept(h)'
<1> DEFINE same == /\ UNCHANGED <<asked, commandsQueue>>
                   /\ h \in callbacks' <=> h \in callbacks
                   /\ Registering(h)' <=> Registering(h)
<1>1. same => Kept(h)'
    BY SameKept
<1>2. PortOf[h] \in Ports /\ pc \in [Ports -> {"idle", "commands", "register", "pop", "event", "finish"}]
    BY MessagingAssumption DEF IInv, TypeOK
<1>3. ASSUME NEW t \in Threads, NEW m \in Messages, BeginPublish(t, m)
      PROVE  same
    BY <1>3 DEF BeginPublish, Registering, queues, consumer
<1>4. ASSUME NEW t \in Threads, Push(t)
      PROVE  same
    BY <1>4 DEF Push, Registering, consumer
<1>5. ASSUME NEW t \in Threads, EndPublish(t)
      PROVE  same
    BY <1>5 DEF EndPublish, Registering, queues, consumer
<1>6. ASSUME NEW p \in Ports, Take(p) \/ CountEvents(p) \/ PopEvent(p) \/ Finish(p)
      PROVE  same
  <2>1. UNCHANGED <<asked, commandsQueue, callbacks, current>>
      BY <1>6 DEF Take, CountEvents, PopEvent, Finish, queues, network
  <2>2. pc[p] # "register" /\ pc'[p] # "register" /\ \A r \in Ports \ {p} : pc'[r] = pc[r]
      BY <1>2, <1>6 DEF Take, CountEvents, PopEvent, Finish
  <2> QED
      BY <1>2, <2>1, <2>2 DEF Registering
<1>7. ASSUME NEW p \in Ports, CallBack(p) \/ EventDone(p)
      PROVE  same
  <2>1. UNCHANGED <<asked, commandsQueue, callbacks>>
      BY <1>7 DEF CallBack, EventDone, queues
  <2>2. pc[p] # "register" /\ pc'[p] # "register" /\ \A r \in Ports \ {p} : pc'[r] = pc[r]
      BY <1>2, <1>7 DEF CallBack, EventDone
  <2>3. \A r \in Ports \ {p} : current'[r] = current[r]
      BY <1>7 DEF CallBack, EventDone, IInv, TypeOK
  <2> QED
      BY <1>2, <2>1, <2>2, <2>3 DEF Registering
<1>8. ASSUME NEW p \in Ports, Register(p)
      PROVE  Kept(h)'
  <2>1. /\ UNCHANGED <<asked, commandsQueue>>
        /\ callbacks' = callbacks \cup {current[p]}
        /\ pc[p] = "register" /\ pc'[p] = "commands" /\ \A r \in Ports \ {p} : pc'[r] = pc[r]
        /\ \A r \in Ports \ {p} : current'[r] = current[r]
        /\ current[p] \in Of(Handles, p)
      BY <1>2, <1>8 DEF Register, IInv, TypeOK, queues, Consuming
  <2>2. CASE h = current[p]
    <3>1. PortOf[h] = p
        BY <2>1, <2>2 DEF Of
    <3>2. InForce(h) /\ InForce(h)'
        BY <2>1, <2>2, <3>1 DEF InForce, Registering
    <3>3. \A op : Pending(op, h)' <=> Pending(op, h)
        BY <2>1 DEF Pending, Command
    <3>4. InOrder(h)'
        BY <2>1 DEF Kept, InOrder, Command
    <3> QED
        BY <2>1, <3>2, <3>3, <3>4 DEF Kept
  <2>3. CASE h # current[p]
    <3>1. Registering(h)' <=> Registering(h)
        BY <1>2, <2>1, <2>3 DEF Registering
    <3> QED
        BY <1>1, <2>1, <2>3, <3>1
  <2> QED
      BY <2>2, <2>3
<1>9. ASSUME NEW p \in Ports, RunCommand(p)
      PROVE  Kept(h)'
  <2>1. CASE p = PortOf[h]
      BY <1>9, <2>1, CommandKept
  <2>2. CASE p # PortOf[h]
    <3> DEFINE C == [op : {"listen", "unlisten"}, handle : Handles]
               c == Head(commandsQueue[p])
    <3>1. PortOf[c.handle] = p
      <4>1. commandsQueue[p] \in Seq(C) /\ commandsQueue[p] # <<>>
          BY <1>9 DEF RunCommand, CommandsWait, IInv, TypeOK
      <4>2. 1 \in DOMAIN commandsQueue[p] /\ c = commandsQueue[p][1]
          BY <4>1, EmptySeq, LenProperties
      <4> QED
          BY <4>2 DEF IInv
    <3>2. UNCHANGED <<asked, commandsQueue[PortOf[h]]>>
        BY <1>2, <1>9, <2>2 DEF RunCommand, IInv, TypeOK
    <3>3. h \in callbacks' <=> h \in callbacks
        BY <1>9, <2>2, <3>1 DEF RunCommand
    <3>4. \A r \in Ports \ {p} : pc'[r] = pc[r] /\ current'[r] = current[r]
        BY <1>9 DEF RunCommand, IInv, TypeOK
    <3>5. Registering(h)' <=> Registering(h)
        BY <1>2, <2>2, <3>4 DEF Registering
    <3> QED
        BY <3>2, <3>3, <3>5, SameKept
  <2> QED
      BY <2>1, <2>2
<1>10. CASE UNCHANGED vars
    BY <1>1, <1>10 DEF vars, queues, consumer, Registering
<1> HIDE DEF same
<1> QED
    BY <1>1, <1>3, <1>4, <1>5, <1>6, <1>7, <1>8, <1>9, <1>10, AskKept DEF Next, Consume, Quiet

(* port.hpp:184: a message meets exactly the callbacks its actor has asked *)
(* for so far, in its constructor or in an earlier callback.               *)
THEOREM Effect == Spec => []ListenTakesEffect
<1> DEFINE AllKept == \A h \in Handles : Kept(h)
<1>1. Init => IInv /\ AllKept
    BY InitIInv, InitKept
<1>2. IInv /\ AllKept /\ [Next]_vars => IInv' /\ AllKept'
    BY NextIInv, NextKept
<1>3. IInv /\ AllKept => ListenTakesEffect
  <2> SUFFICES ASSUME IInv, AllKept, NEW p \in Ports, pc[p] = "pop",
                      NEW h \in Handles, PortOf[h] = p
               PROVE  h \in callbacks <=> asked[h] = "listen"
      BY DEF ListenTakesEffect, Of, IInv, TypeOK
  <2>1. commandsQueue[p] = <<>> /\ ~Registering(h)
      BY DEF IInv, Consuming, Registering
  <2>2. \A op : ~Pending(op, h)
      BY <2>1 DEF Pending
  <2>3. asked[h] \in {"nothing", "listen", "unlisten"}
      BY DEF IInv, TypeOK
  <2> QED
      BY <2>1, <2>2, <2>3 DEF Kept, InForce
<1> HIDE DEF AllKept
<1> QED
    BY <1>1, <1>2, <1>3, PTL DEF Spec

-----------------------------------------------------------------------------
(***************************************************************************)
(* The order in which the ports receive the messages: a message that is    *)
(* being pushed is the last of every port that has it, and it comes to a   *)
(* port once.                                                              *)
(***************************************************************************)

OnlyPublished ==
    /\ \A p \in Ports : \A i \in DOMAIN Received(p) : Received(p)[i] \in published
    /\ \A t \in Threads : sending[t] # NoMessage => sending[t] \in published

ReceivedOnce ==
    \A p \in Ports : \A i, j \in DOMAIN Received(p) :
        Received(p)[i] = Received(p)[j] => i = j

SentIsLast ==
    \A t \in Threads, p \in Ports : \A i \in DOMAIN Received(p) :
        Received(p)[i] = sending[t] => i = Len(Received(p))

StillToCome ==
    \A t \in Threads : \A h \in todo[t] : \A i \in DOMAIN Received(PortOf[h]) :
        Received(PortOf[h])[i] # sending[t]

Ordered == OnlyPublished /\ ReceivedOnce /\ SentIsLast /\ StillToCome /\ TotalOrder

LEMMA ReceivedType ==
    ASSUME TypeOK, NEW p \in Ports
    PROVE  /\ Received(p) \in Seq(Messages)
           /\ DOMAIN Received(p) = 1..Len(Received(p))
           /\ Len(Received(p)) \in Nat
<1>1. Received(p) \in Seq(Messages)
    BY ConcatProperties DEF Received, TypeOK
<1> QED
    BY <1>1, LenProperties

LEMMA InitOrdered ==
    ASSUME Init
    PROVE  Ordered
<1>1. ASSUME NEW p \in Ports
      PROVE  DOMAIN Received(p) = {}
  <2>1. Received(p) = <<>> \o <<>>
      BY DEF Init, Received
  <2> QED
      BY <2>1
<1> QED
    BY <1>1 DEF Init, Ordered, OnlyPublished, ReceivedOnce, SentIsLast, StillToCome,
                TotalOrder, Before

\* A port gets the message its publisher is pushing.
LEMMA PushOrdered ==
    ASSUME IInv, IInv', Ordered, NEW t \in Threads, Push(t)
    PROVE  Ordered'
<1>1. PICK h \in todo[t] :
          /\ eventQueue' = [eventQueue EXCEPT ![PortOf[h]] = Append(@, sending[t])]
          /\ todo' = [todo EXCEPT ![t] = @ \ {h}]
          /\ UNCHANGED <<published, sending, handled>>
    BY DEF Push, consumer
<1> DEFINE p == PortOf[h]
           m == sending[t]
<1>2. /\ h \in registered /\ h \in Handles /\ p \in Ports /\ m \in Messages /\ m # NoMessage
      /\ \A u \in Threads \ {t} : sending[u] = NoMessage /\ todo[u] = {}
    BY MessagingAssumption DEF IInv, Publishing, TypeOK
<1>3. \A u \in Threads : todo'[u] \subseteq todo[u] /\ h \notin todo'[t]
    BY <1>1 DEF IInv, TypeOK
<1>4. \A g \in todo'[t] : PortOf[g] # p /\ PortOf[g] \in Ports
    BY <1>1, <1>3, MessagingAssumption DEF IInv, Publishing, TypeOK
<1>5. \A q \in Ports \ {p} : Received(q)' = Received(q)
    BY <1>1 DEF IInv, TypeOK, Received
<1> HIDE DEF p, m
<1>6. Received(p)' = Append(Received(p), m)
  <2>1. eventQueue'[p] = Append(eventQueue[p], m) /\ eventQueue[p] \in Seq(Messages) /\ handled[p] \in Seq(Messages)
      BY <1>1, <1>2 DEF IInv, TypeOK, p, m
  <2>2. \A s, r \in Seq(Messages), e \in Messages : s \o Append(r, e) = Append(s \o r, e)
      BY AppendAssociates
  <2>3. handled[p] \o Append(eventQueue[p], m) = Append(handled[p] \o eventQueue[p], m)
      BY <1>2, <2>1, <2>2
  <2> QED
      BY <1>1, <2>1, <2>3 DEF Received, p
<1>7. /\ Received(p) \in Seq(Messages) /\ Len(Received(p)) \in Nat
      /\ DOMAIN Received(p) = 1..Len(Received(p))
    BY <1>2, ReceivedType DEF IInv
<1>8. /\ Len(Received(p)') = Len(Received(p)) + 1
      /\ DOMAIN Received(p)' = 1..(Len(Received(p)) + 1)
      /\ Received(p)'[Len(Received(p)) + 1] = m
      /\ \A i \in DOMAIN Received(p) : Received(p)'[i] = Received(p)[i]
    BY <1>2, <1>6, <1>7, AppendProperties, LenProperties
<1>9. \A q \in Ports : /\ Received(q)' \in Seq(Messages) /\ Len(Received(q)') \in Nat
                        /\ DOMAIN Received(q)' = 1..Len(Received(q)')
  <2>1. Append(Received(p), m) \in Seq(Messages)
      BY <1>2, <1>7, AppendProperties
  <2>2. \A q \in Ports \ {p} : Received(q)' \in Seq(Messages)
      BY <1>5, ReceivedType DEF IInv
  <2>3. \A q \in Ports : Received(q)' \in Seq(Messages)
      BY <1>6, <2>1, <2>2
  <2> QED
      BY <2>3, LenProperties
<1>10. \A i \in DOMAIN Received(p) : Received(p)[i] # m
    BY <1>1 DEF Ordered, StillToCome, p, m
<1>11. \A i \in DOMAIN Received(p)' : i \in DOMAIN Received(p) \/ i = Len(Received(p)) + 1
    BY <1>7, <1>8
<1>12. OnlyPublished'
  <2>1. m \in published
      BY <1>2 DEF Ordered, OnlyPublished, m
  <2>2. ASSUME NEW q \in Ports, NEW i \in DOMAIN Received(q)'
        PROVE  Received(q)'[i] \in published'
    <3>1. CASE q = p
        BY <1>1, <1>8, <1>11, <2>1, <2>2, <3>1 DEF Ordered, OnlyPublished
    <3>2. CASE q # p
        BY <1>1, <1>5, <2>2, <3>2 DEF Ordered, OnlyPublished
    <3> QED
        BY <3>1, <3>2
  <2>3. \A u \in Threads : sending'[u] # NoMessage => sending'[u] \in published'
      BY <1>1 DEF Ordered, OnlyPublished
  <2> QED
      BY <2>2, <2>3 DEF OnlyPublished
<1>13. ReceivedOnce'
  <2> SUFFICES ASSUME NEW q \in Ports, NEW i \in DOMAIN Received(q)', NEW j \in DOMAIN Received(q)',
                      Received(q)'[i] = Received(q)'[j]
               PROVE  i = j
      BY DEF ReceivedOnce
  <2>1. CASE q = p
      BY <1>8, <1>11, <1>10, <2>1 DEF Ordered, ReceivedOnce
  <2>2. CASE q # p
      BY <1>5, <2>2 DEF Ordered, ReceivedOnce
  <2> QED
      BY <2>1, <2>2
<1>14. SentIsLast'
  <2> SUFFICES ASSUME NEW u \in Threads, NEW q \in Ports, NEW i \in DOMAIN Received(q)',
                      Received(q)'[i] = sending'[u]
               PROVE  i = Len(Received(q)')
      BY DEF SentIsLast
  <2>1. CASE q # p
      BY <1>1, <1>5, <2>1 DEF Ordered, SentIsLast
  <2>2. CASE q = p
    <3>1. Received(p)'[i] \in Messages
        BY <1>9, <2>2, ElementOfSeq
    <3>2. u = t
        BY <1>1, <1>2, <2>2, <3>1, MessagingAssumption
    <3> QED
        BY <1>1, <1>8, <1>11, <1>10, <2>2, <3>2 DEF m
  <2> QED
      BY <2>1, <2>2
<1>15. StillToCome'
  <2> SUFFICES ASSUME NEW u \in Threads, NEW g \in todo'[u], NEW i \in DOMAIN Received(PortOf[g])'
               PROVE  Received(PortOf[g])'[i] # sending'[u]
      BY DEF StillToCome
  <2>1. u = t
      BY <1>2, <1>3
  <2>2. Received(PortOf[g])' = Received(PortOf[g]) /\ g \in todo[t]
      BY <1>3, <1>4, <1>5, <2>1
  <2> QED
      BY <1>1, <2>1, <2>2 DEF Ordered, StillToCome
<1>16. TotalOrder'
  <2> SUFFICES ASSUME NEW q \in Ports, NEW r \in Ports, NEW k \in Messages, NEW n \in Messages,
                      Before(q, k, n)', Before(r, n, k)'
               PROVE  FALSE
      BY DEF TotalOrder
  <2>1. ASSUME NEW s \in Ports, NEW x, NEW y, Before(s, x, y)'
        PROVE  x # m /\ (y # m => Before(s, x, y))
    <3>1. PICK i \in DOMAIN Received(s)', j \in DOMAIN Received(s)' :
              i < j /\ Received(s)'[i] = x /\ Received(s)'[j] = y
        BY <2>1 DEF Before
    <3>2. DOMAIN Received(s)' = 1..Len(Received(s)') /\ Len(Received(s)') \in Nat
        BY <1>9
    <3>3. x # m
        BY <1>1, <1>14, <3>1, <3>2 DEF SentIsLast, m
    <3>4. CASE s # p
        BY <1>5, <3>1, <3>3, <3>4 DEF Before
    <3>5. CASE s = p
        BY <1>8, <1>11, <3>1, <3>3, <3>5 DEF Before
    <3> QED
        BY <3>4, <3>5
  <2>2. Before(q, k, n) /\ Before(r, n, k)
      BY <2>1
  <2> QED
      BY <2>2 DEF Ordered, TotalOrder
<1> QED
    BY <1>12, <1>13, <1>14, <1>15, <1>16 DEF Ordered

LEMMA NextOrdered ==
    ASSUME IInv, IInv', Ordered, [Next]_vars
    PROVE  Ordered'
<1> DEFINE same == UNCHANGED <<published, sending, todo>> /\ \A p \in Ports : Received(p)' = Received(p)
<1>1. same => Ordered'
  <2> SUFFICES ASSUME same
               PROVE  Ordered'
      OBVIOUS
  <2>1. OnlyPublished' /\ ReceivedOnce' /\ SentIsLast' /\ TotalOrder'
      BY DEF Ordered, OnlyPublished, ReceivedOnce, SentIsLast, TotalOrder, Before
  <2>2. \A t \in Threads : \A h \in todo[t] : PortOf[h] \in Ports
      BY MessagingAssumption DEF IInv, TypeOK
  <2>3. StillToCome'
      BY <2>2 DEF Ordered, StillToCome
  <2> QED
      BY <2>1, <2>3 DEF Ordered
<1>2. UNCHANGED <<published, sending, todo, handled, eventQueue>> => same
    BY DEF Received
<1>3. ASSUME NEW t \in Threads, NEW m \in Messages, BeginPublish(t, m)
      PROVE  Ordered'
  <2>1. /\ m \notin published /\ published' = published \cup {m}
        /\ sending' = [sending EXCEPT ![t] = m]
        /\ UNCHANGED <<handled, eventQueue>>
      BY <1>3 DEF BeginPublish, queues, consumer
  <2>2. \A p \in Ports : Received(p)' = Received(p)
      BY <2>1 DEF Received
  <2>3. ASSUME NEW u \in Threads
        PROVE  \/ sending'[u] = m
               \/ sending'[u] = NoMessage /\ todo'[u] = {}
    <3>1. sending[u] = NoMessage
        BY <1>3 DEF BeginPublish, NetworkFree
    <3>2. CASE u = t
        BY <2>1, <3>2 DEF IInv, TypeOK
    <3>3. CASE u # t
        BY <1>3, <2>1, <3>1, <3>3 DEF BeginPublish, IInv, TypeOK, Publishing
    <3> QED
        BY <3>2, <3>3
  <2>4. \A p \in Ports : \A i \in DOMAIN Received(p) : Received(p)[i] # m /\ Received(p)[i] # NoMessage
    <3> SUFFICES ASSUME NEW p \in Ports, NEW i \in DOMAIN Received(p)
                 PROVE  Received(p)[i] # m /\ Received(p)[i] # NoMessage
        OBVIOUS
    <3>1. Received(p)[i] \in Messages
        BY ReceivedType, ElementOfSeq DEF IInv
    <3> QED
        BY <2>1, <3>1, MessagingAssumption DEF Ordered, OnlyPublished
  <2>5. OnlyPublished'
      BY <2>1, <2>2, <2>3 DEF Ordered, OnlyPublished
  <2>6. ReceivedOnce' /\ TotalOrder'
      BY <2>2 DEF Ordered, ReceivedOnce, TotalOrder, Before
  <2>7. SentIsLast'
      BY <2>2, <2>3, <2>4 DEF SentIsLast
  <2>8. StillToCome'
    <3>1. \A u \in Threads : \A h \in todo'[u] : PortOf[h] \in Ports
        BY MessagingAssumption DEF IInv, TypeOK
    <3> QED
        BY <2>2, <2>3, <2>4, <3>1 DEF StillToCome
  <2> QED
      BY <2>5, <2>6, <2>7, <2>8 DEF Ordered
<1>4. ASSUME NEW t \in Threads, EndPublish(t)
      PROVE  Ordered'
  <2>1. /\ UNCHANGED <<published, todo>> /\ \A p \in Ports : Received(p)' = Received(p)
        /\ \A u \in Threads : sending'[u] = sending[u] \/ (sending'[u] = NoMessage /\ todo'[u] = {})
      BY <1>4 DEF EndPublish, IInv, TypeOK, Received, queues, consumer
  <2>2. \A p \in Ports : \A i \in DOMAIN Received(p) : Received(p)[i] # NoMessage
    <3> SUFFICES ASSUME NEW p \in Ports, NEW i \in DOMAIN Received(p)
                 PROVE  Received(p)[i] # NoMessage
        OBVIOUS
    <3>1. Received(p)[i] \in Messages
        BY ReceivedType, ElementOfSeq DEF IInv
    <3> QED
        BY <3>1, MessagingAssumption
  <2>3. OnlyPublished' /\ ReceivedOnce' /\ TotalOrder'
      BY <2>1 DEF Ordered, OnlyPublished, ReceivedOnce, TotalOrder, Before
  <2>4. SentIsLast'
      BY <2>1, <2>2 DEF Ordered, SentIsLast
  <2>5. StillToCome'
    <3>1. \A u \in Threads : \A h \in todo[u] : PortOf[h] \in Ports
        BY MessagingAssumption DEF IInv, TypeOK
    <3> QED
        BY <2>1, <3>1 DEF Ordered, StillToCome
  <2> QED
      BY <2>3, <2>4, <2>5 DEF Ordered
<1>5. ASSUME NEW p \in Ports, PopEvent(p)
      PROVE  same
  <2>1. /\ UNCHANGED <<published, sending, todo>>
        /\ eventQueue' = [eventQueue EXCEPT ![p] = Tail(@)]
        /\ handled' = [handled EXCEPT ![p] = Append(@, Head(eventQueue[p]))]
        /\ eventQueue[p] # <<>>
      BY <1>5 DEF PopEvent, network, IInv, Consuming
  <2>2. eventQueue \in [Ports -> Seq(Messages)] /\ handled \in [Ports -> Seq(Messages)]
      BY DEF IInv, TypeOK
  <2>3. Received(p)' = Received(p)
    <3>1. eventQueue'[p] = Tail(eventQueue[p]) /\ handled'[p] = Append(handled[p], Head(eventQueue[p]))
        BY <2>1, <2>2
    <3> QED
        BY <2>1, <2>2, <3>1, MoveHead DEF Received
  <2>4. \A q \in Ports \ {p} : Received(q)' = Received(q)
      BY <2>1, <2>2 DEF Received
  <2> QED
      BY <2>1, <2>3, <2>4
<1>6. ASSUME NEW p \in Ports, Consume(p), ~PopEvent(p)
      PROVE  same
  <2>1. UNCHANGED <<published, sending, todo, handled, eventQueue>>
      BY <1>6 DEF Consume, Take, RunCommand, Register, CountEvents, CallBack, EventDone, Finish,
                  network, queues
  <2> QED
      BY <1>2, <2>1
<1>7. ASSUME NEW p \in Ports, NEW h \in Handles, Listen(p, h) \/ Unlisten(p, h) \/ UnlistenAll(p, h)
      PROVE  same
    BY <1>2, <1>7 DEF Listen, Unlisten, UnlistenAll, network, consumer
<1>8. CASE UNCHANGED vars
    BY <1>1, <1>2, <1>8 DEF vars, network, queues, consumer
<1> HIDE DEF same
<1>9. ASSUME NEW t \in Threads, Push(t)
      PROVE  Ordered'
    BY <1>9, PushOrdered
<1>10. ASSUME NEW p \in Ports, Consume(p)
       PROVE  Ordered'
  <2>1. CASE PopEvent(p)
      BY <1>1, <1>5, <2>1
  <2>2. CASE ~PopEvent(p)
      BY <1>1, <1>6, <1>10, <2>2
  <2> QED
      BY <2>1, <2>2
<1>11. ASSUME NEW p \in Ports, NEW h \in Handles, Listen(p, h) \/ Unlisten(p, h) \/ UnlistenAll(p, h)
       PROVE  Ordered'
    BY <1>1, <1>7, <1>11
<1> QED
    BY <1>1, <1>3, <1>4, <1>8, <1>9, <1>10, <1>11 DEF Next, Quiet

(* Two ports never see the same two messages in opposite orders, whichever *)
(* threads published them (Network::publish, network.hpp).                 *)
THEOREM Ordering == Spec => []TotalOrder
<1>1. Init => IInv /\ Ordered
    BY InitIInv, InitOrdered
<1>2. IInv /\ Ordered /\ [Next]_vars => IInv' /\ Ordered'
    BY NextIInv, NextOrdered
<1>3. Ordered => TotalOrder
    BY DEF Ordered
<1> QED
    BY <1>1, <1>2, <1>3, PTL DEF Spec

-----------------------------------------------------------------------------
(***************************************************************************)
(* Messaging implements Broadcast.  A message counts as in the inbox of    *)
(* every port its publisher has still to push it to, so BeginPublish is    *)
(* the publish, PopEvent the delivery, Register the subscription, and the  *)
(* other steps change nothing that Broadcast speaks of.                    *)
(***************************************************************************)

LEMMA HeadOfConcat ==
    ASSUME NEW S, NEW s \in Seq(S), NEW t \in Seq(S), s # <<>>
    PROVE  /\ s \o t # <<>>
           /\ Head(s \o t) = Head(s)
           /\ Tail(s \o t) = Tail(s) \o t
<1> DEFINE c == s \o t
           a == Tail(s) \o t
           b == Tail(c)
<1>1. Len(s) \in Nat \ {0} /\ Len(t) \in Nat /\ Head(s) = s[1] /\ Tail(s) \in Seq(S)
    BY EmptySeq, LenProperties, HeadTailProperties
<1>2. /\ c \in Seq(S) /\ Len(c) = Len(s) + Len(t)
      /\ \A i \in 1..(Len(s) + Len(t)) : c[i] = IF i <= Len(s) THEN s[i] ELSE t[i - Len(s)]
    BY ConcatProperties
<1>3. c # <<>>
    BY <1>1, <1>2, EmptySeq
<1>4. c[1] = s[1]
    BY <1>1, <1>2
<1>5. Len(Tail(s)) = Len(s) - 1 /\ \A i \in 1..(Len(s) - 1) : Tail(s)[i] = s[i + 1]
    BY HeadTailProperties
<1>6. a \in Seq(S) /\ Len(a) = Len(s) - 1 + Len(t)
    BY <1>1, <1>5, ConcatProperties
<1>7. \A i \in 1..(Len(s) - 1 + Len(t)) :
          a[i] = IF i <= Len(s) - 1 THEN Tail(s)[i] ELSE t[i - (Len(s) - 1)]
    BY <1>1, <1>5, ConcatProperties
<1> HIDE DEF c
<1>8. b \in Seq(S) /\ Len(b) = Len(s) + Len(t) - 1 /\ \A i \in 1..(Len(s) + Len(t) - 1) : b[i] = c[i + 1]
    BY <1>2, <1>3, HeadTailProperties
<1>9. Head(c) = c[1]
    BY <1>2, <1>3
<1> HIDE DEF a, b
<1>10. ASSUME NEW i \in 1..(Len(s) - 1 + Len(t))
       PROVE  a[i] = b[i]
  <2>1. b[i] = c[i + 1] /\ i + 1 \in 1..(Len(s) + Len(t)) /\ i \in Int
      BY <1>1, <1>8
  <2>2. CASE i <= Len(s) - 1
      BY <1>1, <1>2, <1>5, <1>7, <2>1, <2>2
  <2>3. CASE i > Len(s) - 1
    <3>1. i - (Len(s) - 1) = i + 1 - Len(s)
        BY <1>1, <2>1
    <3> QED
        BY <1>1, <1>2, <1>7, <2>1, <2>3, <3>1
  <2> QED
      BY <1>1, <2>1, <2>2, <2>3
<1>11. a = b
    BY <1>1, <1>6, <1>8, <1>10, SeqEqual
<1> QED
    BY <1>1, <1>3, <1>4, <1>9, <1>11 DEF a, b, c

\* OnItsWay of the states where the threads send `sent` and have `left` to do.
Pushed(sent, left, p) ==
    LET senders == {t \in Threads : Of(left[t], p) # {}}
    IN  IF senders = {} THEN <<>>
        ELSE <<sent[CHOOSE t \in senders : TRUE]>>

LEMMA PushedIs ==
    ASSUME NEW sent, NEW left, NEW p, NEW t \in Threads,
           \A u \in Threads \ {t} : left[u] = {}
    PROVE  /\ Of(left[t], p) = {} => Pushed(sent, left, p) = <<>>
           /\ Of(left[t], p) # {} => Pushed(sent, left, p) = <<sent[t]>>
<1> DEFINE senders == {u \in Threads : Of(left[u], p) # {}}
<1>1. \A u \in senders : u = t
    BY DEF Of
<1>2. CASE Of(left[t], p) = {}
  <2>1. senders = {}
      BY <1>1, <1>2
  <2> QED
      BY <1>2, <2>1 DEF Pushed
<1>3. CASE Of(left[t], p) # {}
  <2>1. senders # {} /\ (CHOOSE u \in senders : TRUE) = t
      BY <1>1, <1>3
  <2> QED
      BY <1>3, <2>1 DEF Pushed
<1> QED
    BY <1>2, <1>3

LEMMA OnItsWayType ==
    ASSUME IInv, NEW p \in Ports
    PROVE  /\ OnItsWay(p) \in Seq(Messages)
           /\ (\A t \in Threads : todo[t] = {}) => OnItsWay(p) = <<>>
<1>1. OnItsWay(p) = Pushed(sending, todo, p)
    BY DEF OnItsWay, Pushed
<1>2. PICK t \in Threads : \A u \in Threads \ {t} : todo[u] = {}
  <2>1. CASE \A u \in Threads : sending[u] = NoMessage
      BY <2>1 DEF IInv, Publishing, Threads
  <2>2. CASE \E t \in Threads : sending[t] # NoMessage
      BY <2>2 DEF IInv, Publishing
  <2> QED
      BY <2>1, <2>2
<1>3. /\ Of(todo[t], p) = {} => OnItsWay(p) = <<>>
      /\ Of(todo[t], p) # {} => OnItsWay(p) = <<sending[t]>>
    BY <1>1, <1>2, PushedIs
<1>4. Of(todo[t], p) # {} => sending[t] \in Messages
    BY DEF IInv, Publishing, TypeOK, Of
<1>5. OnItsWay(p) \in Seq(Messages)
  <2>1. CASE Of(todo[t], p) = {}
      BY <1>3, <2>1, EmptySeq
  <2>2. CASE Of(todo[t], p) # {}
    <3>1. <<sending[t]>> \in Seq(Messages)
        BY <1>4, <2>2
    <3> QED
        BY <1>3, <2>2, <3>1
  <2> QED
      BY <2>1, <2>2
<1>6. todo[t] = {} => OnItsWay(p) = <<>>
    BY <1>3 DEF Of
<1> QED
    BY <1>5, <1>6

\* Each step of Messaging is one of Broadcast or changes nothing there.
LEMMA PublishIsAtomic ==
    ASSUME IInv, NEW t \in Threads, NEW m \in Messages, BeginPublish(t, m)
    PROVE  Atomic!Publish(m)
<1>1. /\ m \notin published /\ published' = published \cup {m}
      /\ sending' = [sending EXCEPT ![t] = m]
      /\ todo' = [todo EXCEPT ![t] = Receivers(t, m)]
      /\ UNCHANGED <<registered, eventQueue, handled>>
    BY DEF BeginPublish, queues, consumer
<1>2. \A u \in Threads : todo[u] = {}
    BY DEF BeginPublish, NetworkFree, IInv, Publishing
<1>3. /\ sending'[t] = m /\ todo'[t] = Receivers(t, m)
      /\ \A u \in Threads \ {t} : todo'[u] = {}
    BY <1>1, <1>2 DEF IInv, TypeOK
<1>4. ASSUME NEW p \in Ports
      PROVE  eventQueue'[p] \o OnItsWay(p)' =
                 IF p \in {PortOf[h] : h \in {g \in registered : TypeOf[g] = TypeOf[m]}}
                 THEN Append(eventQueue[p] \o OnItsWay(p), m)
                 ELSE eventQueue[p] \o OnItsWay(p)
  <2>1. OnItsWay(p)' = Pushed(sending', todo', p)
      BY DEF OnItsWay, Pushed
  <2>2. /\ Of(Receivers(t, m), p) = {} => OnItsWay(p)' = <<>>
        /\ Of(Receivers(t, m), p) # {} => OnItsWay(p)' = <<m>>
      BY <1>3, <2>1, PushedIs
  <2>3. Of(Receivers(t, m), p) # {} <=>
            p \in {PortOf[h] : h \in {g \in registered : TypeOf[g] = TypeOf[m]}}
      BY DEF Of, Receivers
  <2>4. eventQueue[p] \in Seq(Messages) /\ eventQueue[p] \o OnItsWay(p) = eventQueue[p]
    <3>1. eventQueue[p] \in Seq(Messages)
        BY DEF IInv, TypeOK
    <3>2. OnItsWay(p) = <<>>
        BY <1>2, OnItsWayType
    <3> QED
        BY <3>1, <3>2, ConcatEmptySeq
  <2>5. eventQueue[p] \o <<m>> = Append(eventQueue[p], m)
      BY <2>4, AppendIsConcat
  <2> QED
      BY <1>1, <2>2, <2>3, <2>4, <2>5, ConcatEmptySeq
<1>5. TypeOf[m] \in Types
    BY MessagingAssumption
<1> QED
    BY <1>1, <1>4, <1>5 DEF Atomic!Publish

LEMMA PushIsHidden ==
    ASSUME IInv, NEW t \in Threads, Push(t)
    PROVE  UNCHANGED Atomic!vars
<1>1. PICK h \in todo[t] :
          /\ eventQueue' = [eventQueue EXCEPT ![PortOf[h]] = Append(@, sending[t])]
          /\ todo' = [todo EXCEPT ![t] = @ \ {h}]
          /\ UNCHANGED <<registered, published, sending, handled>>
    BY DEF Push, consumer
<1>2. /\ h \in registered /\ PortOf[h] \in Ports /\ sending[t] \in Messages
      /\ \A u \in Threads \ {t} : todo[u] = {} /\ todo'[u] = {}
      /\ todo'[t] = todo[t] \ {h}
    BY <1>1, MessagingAssumption DEF IInv, Publishing, TypeOK
<1>3. \A g \in todo[t] : PortOf[g] = PortOf[h] => g = h
    BY <1>1, <1>2 DEF IInv, Publishing
<1>4. ASSUME NEW p \in Ports
      PROVE  eventQueue'[p] \o OnItsWay(p)' = eventQueue[p] \o OnItsWay(p)
  <2>1. OnItsWay(p) = Pushed(sending, todo, p) /\ OnItsWay(p)' = Pushed(sending', todo', p)
      BY DEF OnItsWay, Pushed
  <2>2. /\ Of(todo[t], p) = {} => OnItsWay(p) = <<>>
        /\ Of(todo[t], p) # {} => OnItsWay(p) = <<sending[t]>>
      BY <1>2, <2>1, PushedIs
  <2>3. /\ Of(todo[t] \ {h}, p) = {} => OnItsWay(p)' = <<>>
        /\ Of(todo[t] \ {h}, p) # {} => OnItsWay(p)' = <<sending[t]>>
      BY <1>1, <1>2, <2>1, PushedIs
  <2>4. eventQueue \in [Ports -> Seq(Messages)]
      BY DEF IInv, TypeOK
  <2>5. CASE p = PortOf[h]
    <3>1. Of(todo[t], p) # {} /\ Of(todo[t] \ {h}, p) = {}
        BY <1>3, <2>5 DEF Of
    <3>2. eventQueue'[p] = Append(eventQueue[p], sending[t])
        BY <1>1, <1>2, <2>4, <2>5
    <3>3. eventQueue'[p] = eventQueue[p] \o <<sending[t]>> /\ eventQueue'[p] \in Seq(Messages)
        BY <1>2, <2>4, <3>2, AppendIsConcat, AppendProperties
    <3> QED
        BY <2>2, <2>3, <3>1, <3>3, ConcatEmptySeq
  <2>6. CASE p # PortOf[h]
    <3>1. Of(todo[t], p) = Of(todo[t] \ {h}, p)
        BY <2>6 DEF Of
    <3> QED
        BY <1>1, <2>2, <2>3, <2>4, <2>6, <3>1
  <2> QED
      BY <2>5, <2>6
<1> QED
    BY <1>1, <1>4 DEF Atomic!vars

LEMMA EndPublishIsHidden ==
    ASSUME IInv, NEW t \in Threads, EndPublish(t)
    PROVE  UNCHANGED Atomic!vars
<1>1. UNCHANGED <<registered, published, todo, eventQueue, handled>>
    BY DEF EndPublish, queues, consumer
<1>2. \A u \in Threads : todo[u] = {}
    BY DEF EndPublish, IInv, Publishing
<1>3. ASSUME NEW p \in Ports
      PROVE  OnItsWay(p)' = OnItsWay(p)
  <2>1. OnItsWay(p) = Pushed(sending, todo, p) /\ OnItsWay(p)' = Pushed(sending', todo', p)
      BY DEF OnItsWay, Pushed
  <2>2. OnItsWay(p) = <<>> /\ OnItsWay(p)' = <<>>
    <3>1. Main \in Threads /\ Of({}, p) = {}
        BY DEF Threads, Of
    <3> QED
        BY <1>1, <1>2, <2>1, <3>1, PushedIs
  <2> QED
      BY <2>2
<1> QED
    BY <1>1, <1>3 DEF Atomic!vars

LEMMA PopIsDeliver ==
    ASSUME IInv, NEW p \in Ports, PopEvent(p)
    PROVE  Atomic!Deliver(p)
<1> DEFINE box(q) == eventQueue[q] \o OnItsWay(q)
<1>1. /\ eventQueue' = [eventQueue EXCEPT ![p] = Tail(@)]
      /\ handled' = [handled EXCEPT ![p] = Append(@, Head(eventQueue[p]))]
      /\ UNCHANGED <<registered, published, sending, todo>>
      /\ eventQueue[p] # <<>>
    BY DEF PopEvent, network, IInv, Consuming
<1>2. \A q \in Ports : OnItsWay(q)' = OnItsWay(q)
    BY <1>1 DEF OnItsWay
<1>3. eventQueue \in [Ports -> Seq(Messages)] /\ OnItsWay(p) \in Seq(Messages)
    BY OnItsWayType DEF IInv, TypeOK
<1>4. box(p) # <<>> /\ Head(box(p)) = Head(eventQueue[p]) /\ Tail(box(p)) = Tail(eventQueue[p]) \o OnItsWay(p)
  <2>1. eventQueue[p] \in Seq(Messages)
      BY <1>3
  <2> QED
      BY <1>1, <1>3, <2>1, HeadOfConcat
<1>5. \A q \in Ports : box(q)' = IF q = p THEN Tail(box(p)) ELSE box(q)
    BY <1>1, <1>2, <1>3, <1>4
<1>6. [q \in Ports |-> box(q)]' = [[q \in Ports |-> box(q)] EXCEPT ![p] = Tail(@)]
    BY <1>5
<1>7. handled' = [handled EXCEPT ![p] = Append(@, Head(box(p)))]
    BY <1>1, <1>4
<1> QED
    BY <1>1, <1>4, <1>6, <1>7 DEF Atomic!Deliver

LEMMA RegisterIsSubscribe ==
    ASSUME IInv, NEW p \in Ports, Register(p)
    PROVE  \E t \in Types : Atomic!Subscribe(p, t)
<1> DEFINE sub(t) == {PortOf[h] : h \in {g \in registered : TypeOf[g] = t}}
<1>1. current[p] \in Handles /\ PortOf[current[p]] = p /\ FirstOfType(current[p])
    BY DEF Register, IInv, Consuming, Of
<1>2. PICK T \in Types : T = TypeOf[current[p]]
    BY <1>1, MessagingAssumption
<1>3. /\ registered' = registered \cup {current[p]}
      /\ UNCHANGED <<published, sending, todo, eventQueue, handled>>
    BY DEF Register, queues
<1>4. p \notin sub(T)
    BY <1>1, <1>2 DEF FirstOfType, Of
<1>5. \A t \in Types : sub(t)' = IF t = T THEN sub(T) \cup {p} ELSE sub(t)
  <2> TAKE t \in Types
  <2>1. sub(t)' = {PortOf[h] : h \in {g \in registered \cup {current[p]} : TypeOf[g] = t}}
      BY <1>3
  <2>2. CASE t = T
      BY <1>1, <1>2, <2>1, <2>2
  <2>3. CASE t # T
      BY <1>1, <1>2, <2>1, <2>3
  <2> QED
      BY <2>2, <2>3
<1>6. [t \in Types |-> sub(t)]' = [[t \in Types |-> sub(t)] EXCEPT ![T] = @ \cup {p}]
    BY <1>5
<1>7. \A q \in Ports : (eventQueue[q] \o OnItsWay(q))' = eventQueue[q] \o OnItsWay(q)
    BY <1>3 DEF OnItsWay
<1>8. Atomic!Subscribe(p, T)
    BY <1>3, <1>4, <1>6, <1>7 DEF Atomic!Subscribe
<1> QED
    BY <1>8

LEMMA StepImplements ==
    ASSUME IInv, [Next]_vars
    PROVE  [Atomic!Next]_(Atomic!vars)
<1>1. UNCHANGED <<registered, published, sending, todo, eventQueue, handled>> => UNCHANGED Atomic!vars
  <2> SUFFICES ASSUME UNCHANGED <<registered, published, sending, todo, eventQueue, handled>>
               PROVE  UNCHANGED Atomic!vars
      OBVIOUS
  <2>1. \A p \in Ports : OnItsWay(p)' = OnItsWay(p)
      BY DEF OnItsWay
  <2> QED
      BY <2>1 DEF Atomic!vars
<1>2. ASSUME NEW t \in Threads, NEW m \in Messages, BeginPublish(t, m)
      PROVE  Atomic!Next
    BY <1>2, PublishIsAtomic DEF Atomic!Next
<1>3. ASSUME NEW t \in Threads, Push(t) \/ EndPublish(t)
      PROVE  UNCHANGED Atomic!vars
    BY <1>3, PushIsHidden, EndPublishIsHidden
<1>4. ASSUME NEW p \in Ports, PopEvent(p)
      PROVE  Atomic!Next
    BY <1>4, PopIsDeliver DEF Atomic!Next
<1>5. ASSUME NEW p \in Ports, Register(p)
      PROVE  Atomic!Next
  <2>1. \E t \in Types : Atomic!Subscribe(p, t)
      BY <1>5, RegisterIsSubscribe
  <2> QED
      BY <2>1 DEF Atomic!Next
<1>6. ASSUME NEW p \in Ports, Consume(p), ~PopEvent(p), ~Register(p)
      PROVE  UNCHANGED Atomic!vars
  <2>1. UNCHANGED <<registered, published, sending, todo, handled, eventQueue>>
      BY <1>6 DEF Consume, Take, RunCommand, CountEvents, CallBack, EventDone, Finish, network, queues
  <2> QED
      BY <1>1, <2>1
<1>7. ASSUME NEW p \in Ports, NEW h \in Handles, Listen(p, h) \/ Unlisten(p, h) \/ UnlistenAll(p, h)
      PROVE  UNCHANGED Atomic!vars
    BY <1>1, <1>7 DEF Listen, Unlisten, UnlistenAll, network, consumer
<1>8. CASE UNCHANGED vars
    BY <1>1, <1>8 DEF vars, network, queues, consumer
<1>9. ASSUME NEW p \in Ports, Consume(p)
      PROVE  Atomic!Next \/ UNCHANGED Atomic!vars
    BY <1>4, <1>5, <1>6, <1>9
<1> QED
    BY <1>2, <1>3, <1>7, <1>8, <1>9 DEF Next, Quiet

(* Whatever threads publish and whenever ports register, the network and   *)
(* the ports together behave like an atomic broadcast.                     *)
THEOREM Implementation == Spec => ImplementsBroadcast
<1>1. Init => IInv
    BY InitIInv
<1>2. Init => Atomic!Init
  <2> SUFFICES ASSUME Init
               PROVE  Atomic!Init
      OBVIOUS
  <2>1. IInv /\ registered = {} /\ published = {} /\ handled = [p \in Ports |-> <<>>]
      BY InitIInv DEF Init
  <2>2. \A p \in Ports : eventQueue[p] = <<>> /\ OnItsWay(p) = <<>>
      BY <2>1, OnItsWayType DEF Init
  <2>3. \A p \in Ports : eventQueue[p] \o OnItsWay(p) = <<>>
      BY <2>2
  <2> QED
      BY <2>1, <2>3 DEF Atomic!Init
<1>3. IInv /\ [Next]_vars => [Atomic!Next]_(Atomic!vars)
    BY StepImplements
<1> QED
    BY <1>1, <1>2, <1>3, NextIInv, PTL DEF Spec, ImplementsBroadcast, Atomic!Spec

=============================================================================
