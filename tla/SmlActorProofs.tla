--------------------------- MODULE SmlActorProofs ---------------------------
(* Theorems about SmlActor: an actor that listens, and the machine that is  *)
(* told what it listens to.                                                 *)
EXTENDS SmlActor, ListenProofs

(***************************************************************************)
(* The invariant.                                                          *)
(***************************************************************************)

Events == DOMAIN SelfMessage \cup {"initial"}

\* The table is visited in the constructor, and there are handles for the rest.
TableFits ==
    /\ table \in Seq(Events)
    /\ table # <<>> => state = "INIT"
    /\ Len(kind) + Among(table, DOMAIN SelfMessage) <= MaxHandles

\* What the machine was told: own confirmations once per handle, in the walk;
\* requests that were published and have left the queue.
CalledForwards == {h \in forwards : calls[h] = 1}
ToldOnce == Among(processed, Own) = Cardinality(CalledForwards)
ToldOf(k) ==
    /\ k \in Own => k \in confirmed \/ walk = k
    /\ k \in Requests => k \in sent /\ Waiting(events, k) = 0
Seen == {k \in UserKinds : ToldOf(k)}
Told ==
    /\ processed \in Seq(Seen)
    /\ forwards \subseteq Used
    /\ ToldOnce

OrderedTold ==
    /\ \A a \in {"StartReq", "StartCnf"}, b \in {"StopReq", "StopCnf"} : InOrder(a, b)
    /\ children > 0 => InOrder("StartReq", "StartCnf") /\ InOrder("StopReq", "StopCnf")

Inv == LifeInv /\ Taken /\ TableFits /\ Told /\ OrderedTold

LEMMA EventsAre ==
    /\ \A e \in DOMAIN SelfMessage : SelfMessage[e] \in UserKinds
    /\ "initial" \notin DOMAIN SelfMessage
BY DEF SelfMessage, UserKinds, Confirmations, Own, Requests

LEMMA InvTyped ==
    ASSUME Inv
    PROVE  /\ KInv /\ ListenTypeOK /\ Used \subseteq Handles /\ Len(kind) \in Nat
           /\ calls \in [Handles -> Nat] /\ IsFiniteSet(Handles)
           /\ IsFiniteSet(forwards) /\ IsFiniteSet(CalledForwards)
           /\ Cardinality(CalledForwards) \in Nat
<1>1. KInv /\ ListenTypeOK
    BY DEF Inv, LifeInv, AskedInv, KInv
<1>2. Used \subseteq Handles /\ Len(kind) \in Nat /\ calls \in [Handles -> Nat]
    BY <1>1, UsedTyped DEF ListenTypeOK
<1>3. IsFiniteSet(Handles)
    BY NumbersTyped, FS_Interval DEF Handles
<1>4. IsFiniteSet(forwards)
    BY <1>2, <1>3, FS_Subset DEF Inv, Told
<1>5. IsFiniteSet(CalledForwards)
    BY <1>4, FS_Subset DEF CalledForwards
<1> QED
    BY <1>1, <1>2, <1>3, <1>4, <1>5, FS_CardinalityType

(***************************************************************************)
(* The steps.                                                              *)
(***************************************************************************)

\* A step of the actor under the machine.
ListenStep == ListenNext /\ ProcessEvent /\ UNCHANGED <<table, forwards>>

LEMMA ToldOfKept ==
    ASSUME KInv, ListenNext \/ (\E k \in UserKinds : ListensNew(k)) \/ UNCHANGED listenVars,
           NEW CONSTANT k \in UserKinds, ToldOf(k)
    PROVE  ToldOf(k)'
<1>1. k \in Requests => k \in sent' /\ Waiting(events, k)' = 0
    BY WaitingKept DEF ToldOf
<1>2. ASSUME k \in Own, k \in confirmed \/ walk = k
      PROVE  k \in confirmed' \/ walk' = k
  <2>1. k # NoWalk
      BY NumbersTyped
  <2> QED
      BY <1>2, <2>1, ListenNextIs DEF NewChild, ActorLifeCycle, processCommands, Moves, takeEvent,
         eventDone, callUser, userReturns, callRequest, callChildCnf, callOwn, publishCnf, othersPublish,
         childConfirms, UserListensAgain, UserUnlistens, ListensNew, listenVars, portSide, walkVars, MayCall
<1> QED
    BY <1>1, <1>2 DEF ToldOf

\* Whose callback is called, and what for.
LEMMA HeardIs ==
    ASSUME LifeInv, Taken, running = Nobody, running' # Nobody, ListenNext
    PROVE  LET k == kind[running'] IN
           /\ running' \in Used /\ k \in UserKinds
           /\ \/ /\ k \in Own /\ walk = k /\ callOwn
                 /\ calls[running'] = 0 /\ calls' = [calls EXCEPT ![running'] = 1]
              \/ /\ k \notin Own /\ current = <<k>> /\ walk = NoWalk /\ callUser /\ UNCHANGED calls
                 /\ k \in Requests => k \in sent /\ Waiting(events, k) = 0
<1>1. KInv /\ ListenTypeOK
    BY DEF LifeInv, AskedInv, KInv
<1>2. callOwn \/ callUser
    BY <1>1, CallsKept
<1>3. CASE callOwn
  <2>1. PICK h \in Ahead : /\ running' = h /\ calls' = [calls EXCEPT ![h] = @ + 1]
                          /\ h > at /\ h \in Used /\ kind[h] = walk /\ h \in Handles
      BY <1>1, <1>3, AheadIs
  <2>2. walk \in Own /\ walk # NoWalk
      BY <1>1, <1>3, AheadIs, NumbersTyped
  <2>3. calls[h] = 0
    <3>1. PICK st : Staged(st)
        BY DEF LifeInv
    <3>2. walk \notin confirmed
        BY <1>1, <2>2, <3>1, WalkIs
    <3>3. ~(h <= at)
        BY <1>1, <2>1, CalledTyped
    <3> QED
        BY <2>1, <3>2, <3>3 DEF LifeInv, Called
  <2> QED
      BY <1>1, <1>3, <2>1, <2>2, <2>3, UsedTyped
<1>4. CASE callUser
  <2>1. PICK k \in Kinds \ Own : current = <<k>> /\ left \subseteq Callers(k)
      BY <1>1, <1>4, CurrentIs DEF callUser, MayCall
  <2>2. running' \in left /\ running' # LifeCycle
      BY <1>4 DEF callUser
  <2>3. running' \in Used /\ kind[running'] = k
      BY <1>1, <2>1, <2>2, CallersIs
  <2>4. UNCHANGED calls /\ walk = NoWalk
      BY <1>4, <2>1 DEF callUser, OnPort, MayCall
  <2> QED
      BY <1>1, <1>4, <2>1, <2>3, <2>4, UsedTyped DEF Taken
<1> QED
    BY <1>2, <1>3, <1>4

\* A callback of the machine hands it an event, or nothing is handed.
Hands == running = Nobody /\ running' \in forwards

LEMMA CalledForwardsKept ==
    ASSUME Inv, ListenStep
    PROVE  Cardinality(CalledForwards)' =
              Cardinality(CalledForwards) + One(Hands /\ kind[running'] \in Own)
<1> DEFINE h == running'
<1>1. /\ KInv /\ LifeInv /\ Taken /\ forwards \subseteq Used /\ Used \subseteq Handles
      /\ ListenNext /\ forwards' = forwards /\ calls \in [Handles -> Nat]
      /\ IsFiniteSet(CalledForwards) /\ Cardinality(CalledForwards) \in Nat
    BY InvTyped DEF Inv, Told, ListenStep
<1>2. Nobody \notin forwards
    BY <1>1, UsedTyped DEF KInv
<1>3. CASE callOwn
  <2>1. running = Nobody /\ h \in Handles
      BY <1>1, <1>3, AheadIs DEF callOwn
  <2>2. h # Nobody
      BY <2>1, NumbersTyped
  <2>3. kind[h] \in Own /\ calls[h] = 0 /\ calls' = [calls EXCEPT ![h] = 1]
      <3>1. walk # NoWalk
          BY <1>3 DEF callOwn
      <3> QED
          BY <1>1, <2>1, <2>2, <3>1, HeardIs DEF callUser
  <2>4. CASE h \in forwards
    <3>1. CalledForwards' = CalledForwards \cup {h} /\ h \notin CalledForwards
        BY <1>1, <2>1, <2>3, <2>4 DEF CalledForwards
    <3>2. Cardinality(CalledForwards \cup {h}) = Cardinality(CalledForwards) + 1
        BY <1>1, <3>1, FS_AddElement
    <3> QED
        BY <2>1, <2>3, <2>4, <3>1, <3>2 DEF Hands, One
  <2>5. CASE h \notin forwards
    <3>1. CalledForwards' = CalledForwards
        BY <1>1, <2>1, <2>3, <2>5 DEF CalledForwards
    <3> QED
        BY <1>1, <2>5, <3>1 DEF Hands, One
  <2> QED
      BY <2>4, <2>5
<1>4. CASE ~callOwn
  <2>1. UNCHANGED calls
      BY <1>1, <1>4, CallsKept
  <2>2. CalledForwards' = CalledForwards
      BY <1>1, <2>1 DEF CalledForwards
  <2>3. ASSUME Hands
        PROVE  kind[h] \notin Own
      BY <1>1, <1>2, <1>4, <2>3, HeardIs DEF Hands
  <2> QED
      BY <1>1, <2>2, <2>3 DEF One
<1> QED
    BY <1>3, <1>4

\* What a machine is handed is what a callback of the actor was called for.
LEMMA HandedIs ==
    ASSUME Inv, ListenStep, Hands
    PROVE  LET k == kind[running'] IN
           /\ k \in UserKinds /\ ToldOf(k)
           /\ walk # NoWalk => walk = k
           /\ walk = NoWalk => current = <<k>> /\ k \notin Own
<1>1. LifeInv /\ Taken /\ ListenNext /\ forwards \subseteq Used
    BY DEF Inv, Told, ListenStep
<1>2. running' # Nobody
    BY <1>1, InvTyped, UsedTyped DEF Hands
<1>3. NoWalk \notin Own
    BY NumbersTyped
<1> QED
    BY <1>1, <1>2, <1>3, HeardIs, NumbersTyped DEF Hands, ToldOf

LEMMA ToldKept ==
    ASSUME Inv, ListenStep
    PROVE  Told'
<1>1. /\ KInv /\ processed \in Seq(Seen) /\ forwards \subseteq Used
      /\ ListenNext /\ forwards' = forwards /\ ToldOnce
      /\ Cardinality(CalledForwards) \in Nat
    BY InvTyped DEF Inv, Told, ListenStep
<1>2. forwards' \subseteq Used'
    BY <1>1, KindKept
<1>3. Seen \subseteq Seen'
    BY <1>1, ToldOfKept DEF Seen
<1>4. processed \in Seq(Seen')
    BY <1>1, <1>3, SeqGrows
<1>5. CASE Hands
  <2> DEFINE k == kind[running']
  <2>1. k \in Seen
      BY <1>5, HandedIs DEF Seen
  <2>2. processed' = Append(processed, k)
      BY <1>5 DEF Hands, ListenStep, ProcessEvent
  <2> HIDE DEF k
  <2>3. Among(processed', Own) = Among(processed, Own) + One(k \in Own)
      BY <1>1, <2>1, <2>2, AmongAppend
  <2>4. ToldOnce'
      BY <1>1, <1>5, <2>3, CalledForwardsKept DEF ToldOnce, k
  <2>5. \A q \in Seq(Seen'), c \in Seen' : Append(q, c) \in Seq(Seen')
      OBVIOUS
  <2>6. processed' \in Seq(Seen')
      BY <1>3, <1>4, <2>1, <2>2, <2>5
  <2> QED
      BY <1>2, <2>4, <2>6 DEF Told
<1>6. CASE ~Hands
  <2>1. processed' = processed
      BY <1>6 DEF Hands, ListenStep, ProcessEvent
  <2>2. ToldOnce'
      BY <1>1, <1>6, <2>1, CalledForwardsKept DEF ToldOnce, One
  <2> QED
      BY <1>2, <1>4, <2>1, <2>2 DEF Told
<1> QED
    BY <1>5, <1>6
(***************************************************************************)
(* The order of what the machine is told.                                  *)
(***************************************************************************)

LEMMA OrderAppended ==
    ASSUME NEW CONSTANT a \in UserKinds, NEW CONSTANT b \in UserKinds, a # b,
           processed \in Seq(UserKinds), NEW k \in UserKinds, processed' = Append(processed, k),
           InOrder(a, b), k = a => \A i \in DOMAIN processed : processed[i] # b
    PROVE  InOrder(a, b)'
<1> DEFINE n == Len(processed)
<1>1. /\ n \in Nat /\ DOMAIN processed = 1 .. n /\ DOMAIN processed' = 1 .. (n + 1)
      /\ \A i \in 1 .. n : processed'[i] = processed[i]
      /\ processed'[n + 1] = k
    OBVIOUS
<1> HIDE DEF n
<1>2. ASSUME NEW i \in 1 .. (n + 1), NEW j \in 1 .. (n + 1), processed'[i] = a, processed'[j] = b
      PROVE  i < j
  <2>1. CASE i \in 1 .. n /\ j \in 1 .. n
      BY <1>1, <1>2, <2>1 DEF InOrder
  <2>2. CASE i = n + 1 /\ j \in 1 .. n
      BY <1>1, <1>2, <2>2
  <2>3. CASE i \in 1 .. n /\ j = n + 1
      BY <1>1, <2>3
  <2>4. CASE i = n + 1 /\ j = n + 1
      BY <1>2, <2>4
  <2>5. (i \in 1 .. n \/ i = n + 1) /\ (j \in 1 .. n \/ j = n + 1)
      BY <1>1
  <2> QED
      BY <2>1, <2>2, <2>3, <2>4, <2>5
<1> QED
    BY <1>1, <1>2 DEF InOrder

\* What has not been told when the machine is handed something.
LEMMA NotYet ==
    ASSUME Inv, ListenStep, Hands
    PROVE  LET k == kind[running'] IN
           /\ k \in {"StartReq", "StartCnf"} => "StopReq" \notin Seen /\ "StopCnf" \notin Seen
           /\ children > 0 /\ k = "StartReq" => "StartCnf" \notin Seen
           /\ children > 0 /\ k = "StopReq" => "StopCnf" \notin Seen
<1> DEFINE k == kind[running']
<1>1. PICK st : Staged(st)
    BY DEF Inv, LifeInv
<1>2. KInv
    BY InvTyped
<1>3. /\ k \in UserKinds /\ ToldOf(k)
      /\ walk # NoWalk => walk = k
      /\ walk = NoWalk => current = <<k>> /\ k \notin Own
    BY HandedIs
<1> HIDE DEF k
<1>4. \A r \in Requests : InStage(r, st[r]) /\ st[r] \in Stages
    BY <1>1 DEF Staged
<1>5. /\ "StartCnf" \in Own /\ "StopCnf" \in Own /\ "StartReq" \notin Own /\ "StopReq" \notin Own
      /\ NoWalk \notin Own
    BY NumbersTyped DEF Own
<1>6. ASSUME k = "StartReq"
      PROVE  "StopReq" \notin Seen /\ "StopCnf" \notin Seen
  <2>1. walk = NoWalk /\ current = <<"StartReq">>
      BY <1>3, <1>5, <1>6, <1>2, CalledTyped
  <2>2. st["StopReq"] \in {"before", "asked"}
      BY <1>1, <2>1 DEF Staged, Ordered
  <2>3. Carried("StopReq") = Waiting(events, "StopReq")
      BY <1>2, <2>1, CarriedIs
  <2>4. ~("StopReq" \in sent /\ Waiting(events, "StopReq") = 0)
      BY <1>4, <2>2, <2>3, MessagesAre DEF InStage, One
  <2>5. "StopCnf" \notin confirmed /\ walk # "StopCnf"
      BY <1>4, <1>5, <2>1, <2>2, MessagesAre DEF InStage
  <2> QED
      BY <1>5, <2>4, <2>5, MessagesAre DEF Seen, ToldOf
<1>7. ASSUME k = "StartCnf"
      PROVE  "StopReq" \notin Seen /\ "StopCnf" \notin Seen
  <2>1. walk = "StartCnf"
      BY <1>3, <1>5, <1>7
  <2>2. st["StopReq"] = "before"
      BY <1>1, <1>2, <1>5, <2>1, WalkIs, MessagesAre
  <2>3. "StopReq" \notin sent /\ "StopCnf" \notin confirmed
      BY <1>4, <2>2, MessagesAre DEF InStage
  <2> QED
      BY <1>5, <2>1, <2>3, MessagesAre DEF Seen, ToldOf
<1>8. ASSUME children > 0, k \in Requests
      PROVE  CnfOf(k) \notin Seen
  <2>1. walk = NoWalk /\ current = <<k>>
      BY <1>3, <1>8, <1>2, CalledTyped, NumbersTyped
  <2>2. st[k] \in {"asked", "collecting"}
      BY <1>4, <1>8, <2>1 DEF InStage
  <2>3. CnfOf(k) \notin confirmed /\ CnfOf(k) \in Own
      BY <1>4, <1>5, <1>8, <2>2, MessagesAre DEF InStage
  <2> QED
      BY <1>5, <2>1, <2>3 DEF Seen, ToldOf
<1>9. k \in {"StartReq", "StartCnf"} => "StopReq" \notin Seen /\ "StopCnf" \notin Seen
    BY <1>6, <1>7
<1>10. children > 0 /\ k = "StartReq" => "StartCnf" \notin Seen
    BY <1>8, MessagesAre
<1>11. children > 0 /\ k = "StopReq" => "StopCnf" \notin Seen
    BY <1>8, MessagesAre
<1> QED
    BY <1>9, <1>10, <1>11 DEF k

LEMMA OrderKept ==
    ASSUME Inv, ListenStep
    PROVE  OrderedTold'
<1>1. KInv /\ processed \in Seq(Seen) /\ OrderedTold /\ ListenNext
    BY InvTyped DEF Inv, Told, ListenStep
<1>2. Seen \subseteq UserKinds
    BY DEF Seen
<1>3. processed \in Seq(UserKinds)
    BY <1>1, <1>2, SeqGrows
<1>4. \A i \in DOMAIN processed : processed[i] \in Seen
    BY <1>1, ElementTyped
<1>5. CASE Hands
  <2> DEFINE k == kind[running']
  <2>1. k \in UserKinds
      BY <1>5, HandedIs
  <2>2. /\ k \in {"StartReq", "StartCnf"} => "StopReq" \notin Seen /\ "StopCnf" \notin Seen
        /\ children > 0 /\ k = "StartReq" => "StartCnf" \notin Seen
        /\ children > 0 /\ k = "StopReq" => "StopCnf" \notin Seen
      BY <1>5, NotYet
  <2>3. processed' = Append(processed, k)
      BY <1>5 DEF Hands, ListenStep, ProcessEvent
  <2> HIDE DEF k
  <2>4. children' = children
    <3>1. callOwn \/ callUser
      <4>1. running = Nobody /\ running' # Nobody
          BY <1>1, <1>5, UsedTyped DEF Hands, Inv, Told, KInv
      <4> QED
          BY <1>1, <4>1, CallsKept
    <3> QED
        BY <3>1 DEF callOwn, callUser
  <2>5. /\ "StartReq" \in UserKinds /\ "StartCnf" \in UserKinds
        /\ "StopReq" \in UserKinds /\ "StopCnf" \in UserKinds
      BY DEF UserKinds, Requests, Confirmations, Own
  <2>6. ASSUME NEW CONSTANT a \in {"StartReq", "StartCnf"}, NEW CONSTANT b \in {"StopReq", "StopCnf"}
        PROVE  InOrder(a, b)'
    <3>1. a \in UserKinds /\ b \in UserKinds /\ a # b
        BY <2>5
    <3>2. InOrder(a, b)
        BY <1>1 DEF OrderedTold
    <3>3. k = a => \A i \in DOMAIN processed : processed[i] # b
        BY <1>4, <2>2
    <3> QED
        BY <1>3, <2>1, <2>3, <3>1, <3>2, <3>3, OrderAppended
  <2>7. ASSUME children > 0
        PROVE  InOrder("StartReq", "StartCnf")' /\ InOrder("StopReq", "StopCnf")'
    <3>1. InOrder("StartReq", "StartCnf") /\ InOrder("StopReq", "StopCnf")
        BY <1>1, <2>7 DEF OrderedTold
    <3>2. /\ k = "StartReq" => \A i \in DOMAIN processed : processed[i] # "StartCnf"
          /\ k = "StopReq" => \A i \in DOMAIN processed : processed[i] # "StopCnf"
        BY <1>4, <2>2, <2>7
    <3>3. InOrder("StartReq", "StartCnf")'
        BY <1>3, <2>1, <2>3, <2>5, <3>1, <3>2, OrderAppended
    <3>4. InOrder("StopReq", "StopCnf")'
        BY <1>3, <2>1, <2>3, <2>5, <3>1, <3>2, OrderAppended
    <3> QED
        BY <3>3, <3>4
  <2> QED
      BY <2>4, <2>6, <2>7 DEF OrderedTold
<1>6. CASE ~Hands
  <2>1. processed' = processed
      BY <1>6 DEF Hands, ListenStep, ProcessEvent
  <2>2. \A a, b : InOrder(a, b)' <=> InOrder(a, b)
      BY <2>1 DEF InOrder
  <2>3. CASE children' = children
      BY <1>1, <2>2, <2>3 DEF OrderedTold
  <2>4. CASE children' # children
    <3>1. state = "INIT"
      <4>1. \/ NewChild \/ ActorLifeCycle \/ processCommands \/ Moves
            \/ UserListensAgain \/ UserUnlistens \/ \E k \in UserKinds : ListensNew(k)
          BY <1>1, ListenNextIs
      <4>2. Moves => UNCHANGED children
          BY DEF Moves, takeEvent, eventDone, callUser, userReturns, callRequest, callChildCnf,
             callOwn, publishCnf, othersPublish, childConfirms
      <4>3. UserListensAgain \/ UserUnlistens \/ (\E k \in UserKinds : ListensNew(k)) => UNCHANGED children
          BY DEF UserListensAgain, UserUnlistens, ListensNew, portSide
      <4>4. ActorLifeCycle \/ processCommands => UNCHANGED children
          BY DEF ActorLifeCycle, processCommands
      <4> QED
          BY <2>4, <4>1, <4>2, <4>3, <4>4 DEF NewChild
    <3>2. sent = {} /\ confirmed = {} /\ walk = NoWalk
        BY <1>1, <3>1 DEF KInv, Wired, Constructing, EventsWired
    <3>3. \A k \in Own \cup Requests : k \notin Seen
        BY <3>2, NumbersTyped DEF Seen, ToldOf
    <3>4. \A b \in {"StartCnf", "StopReq", "StopCnf"} : \A i \in DOMAIN processed : processed[i] # b
        BY <1>4, <3>3 DEF Own, Requests
    <3>5. \A a : \A b \in {"StartCnf", "StopReq", "StopCnf"} : InOrder(a, b)
        BY <3>4 DEF InOrder
    <3> QED
        BY <2>2, <3>5 DEF OrderedTold
  <2> QED
      BY <2>3, <2>4
<1> QED
    BY <1>5, <1>6
(***************************************************************************)
(* The steps of the whole, and the theorems.                               *)
(***************************************************************************)

LEMMA ToldStays ==
    ASSUME Inv, (\E k \in UserKinds : ListensNew(k)) \/ UNCHANGED listenVars,
           UNCHANGED processed, forwards' \subseteq Used', CalledForwards' = CalledForwards
    PROVE  Told' /\ OrderedTold'
<1>1. KInv /\ processed \in Seq(Seen) /\ ToldOnce /\ OrderedTold
    BY InvTyped DEF Inv, Told
<1>2. Seen \subseteq Seen'
    BY <1>1, ToldOfKept DEF Seen
<1>3. processed \in Seq(Seen')
    BY <1>1, <1>2, SeqGrows
<1>4. UNCHANGED children
    BY DEF ListensNew, portSide, listenVars
<1>5. \A a, b : InOrder(a, b)' <=> InOrder(a, b)
    BY DEF InOrder
<1>6. OrderedTold'
    BY <1>1, <1>4, <1>5 DEF OrderedTold
<1>7. ToldOnce'
    BY <1>1 DEF ToldOnce
<1> QED
    BY <1>3, <1>6, <1>7 DEF Told

\* The table while the actor runs, or while nothing happens.
LEMMA TableKept ==
    ASSUME Inv, KInv', UNCHANGED table, table = <<>> \/ UNCHANGED listenVars
    PROVE  TableFits'
<1>1. Len(kind') <= MaxHandles /\ Len(kind') \in Nat
    BY DEF KInv, ListenTypeOK
<1>2. CASE table = <<>>
  <2>1. Among(table', DOMAIN SelfMessage) = 0
      BY <1>2, AmongEmpty
  <2> QED
      BY <1>1, <1>2, <2>1 DEF TableFits, Inv
<1>3. CASE UNCHANGED listenVars
    BY <1>3 DEF TableFits, Inv, listenVars, userVars
<1> QED
    BY <1>2, <1>3

LEMMA ForwardTable ==
    ASSUME Inv, table # <<>>
    PROVE  LET rest == Among(Tail(table), DOMAIN SelfMessage) IN
           /\ Tail(table) \in Seq(Events) /\ Head(table) \in Events /\ rest \in Nat /\ state = "INIT"
           /\ Len(kind) + rest + One(Head(table) \in DOMAIN SelfMessage) <= MaxHandles
<1>1. table \in Seq(Events) /\ Len(kind) \in Nat /\ state = "INIT"
    BY InvTyped DEF Inv, TableFits
<1>2. Tail(table) \in Seq(Events) /\ Head(table) \in Events
    BY <1>1
<1>3. Among(Tail(table), DOMAIN SelfMessage) \in Nat
    BY <1>2, AmongIs
<1>4. Among(table, DOMAIN SelfMessage) =
         Among(Tail(table), DOMAIN SelfMessage) + One(Head(table) \in DOMAIN SelfMessage)
    BY <1>1, AmongTail
<1>5. Len(kind) + Among(table, DOMAIN SelfMessage) <= MaxHandles
    BY DEF Inv, TableFits
<1>6. One(Head(table) \in DOMAIN SelfMessage) \in Nat
    BY DEF One
<1> QED
    BY <1>1, <1>2, <1>3, <1>4, <1>5, <1>6, NumbersTyped

LEMMA ForwardKept ==
    ASSUME Inv, forwardToSml
    PROVE  Inv'
<1>1. /\ KInv /\ LifeInv /\ Taken /\ forwards \subseteq Used /\ Len(kind) \in Nat
      /\ Used \subseteq Handles /\ calls \in [Handles -> Nat]
    BY InvTyped DEF Inv, Told
<1>2. table # <<>> /\ table' = Tail(table) /\ UNCHANGED processed
    BY DEF forwardToSml
<1>3. /\ Tail(table) \in Seq(Events) /\ Head(table) \in Events /\ state = "INIT"
      /\ Among(Tail(table), DOMAIN SelfMessage) \in Nat
      /\ Len(kind) + Among(Tail(table), DOMAIN SelfMessage)
            + One(Head(table) \in DOMAIN SelfMessage) <= MaxHandles
    BY <1>2, ForwardTable
<1>4. CASE Head(table) = "initial"
  <2>1. UNCHANGED listenVars /\ forwards' = forwards
      BY <1>4 DEF forwardToSml
  <2>2. UNCHANGED <<kind, state, calls>>
      BY <2>1 DEF listenVars, userVars, walkVars
  <2>3. CalledForwards' = CalledForwards /\ forwards' \subseteq Used'
      BY <1>1, <2>1, <2>2 DEF CalledForwards, Used
  <2>4. Told' /\ OrderedTold'
      BY <1>2, <2>1, <2>3, ToldStays
  <2>5. LifeInv' /\ Taken'
      BY <1>1, <2>1, LifeInvKept, TakenKept
  <2>6. TableFits'
      BY <1>1, <1>2, <1>3, <1>4, <2>2, EventsAre, NumbersTyped DEF TableFits, One
  <2> QED
      BY <2>4, <2>5, <2>6 DEF Inv
<1>5. CASE Head(table) # "initial"
  <2> DEFINE k == SelfMessage[Head(table)]
             h == Len(kind) + 1
             n == Among(Tail(table), DOMAIN SelfMessage)
  <2>1. Head(table) \in DOMAIN SelfMessage
      BY <1>3, <1>5 DEF Events
  <2>2. k \in UserKinds
      BY <2>1, EventsAre
  <2>3. /\ kind' = Append(kind, k) /\ asked' = [asked EXCEPT ![h] = 1] /\ listen(h, k, 1)
        /\ forwards' = forwards \cup {h}
        /\ UNCHANGED <<state, children, childrenCnfCount, callbacks, listened, eventVars,
                       walkVars, early, changes, running, undefined, confirmed, envVars>>
      BY <1>5 DEF forwardToSml
  <2> HIDE DEF k, n
  <2>4. Len(kind) + n + 1 <= MaxHandles /\ n \in Nat
      BY <1>3, <2>1 DEF One, n
  <2>5. Len(kind) < MaxHandles /\ h \in Handles /\ h \notin Used
      BY <1>1, <2>4, NumbersTyped DEF Handles, Used
  <2>6. walk # k
      BY <1>1, <1>3, <2>2, CalledTyped, NumbersTyped
  <2>7. ListensNew(k)
      BY <2>3, <2>5, <2>6 DEF ListensNew, portSide, walkVars
  <2>8. LifeInv' /\ Taken'
      BY <1>1, <2>2, <2>7, LifeInvKept, TakenKept
  <2>9. Len(kind') = h /\ kind \in Seq(UserKinds) /\ UNCHANGED <<calls, state>>
      BY <1>1, <2>2, <2>3 DEF walkVars, KInv, ListenTypeOK
  <2>10. forwards' \subseteq Used'
    <3>1. Used' = 1 .. h /\ Used \subseteq 1 .. h /\ h \in 1 .. h
        BY <1>1, <2>9 DEF Used
    <3> HIDE DEF h
    <3> QED
        BY <1>1, <2>3, <3>1
  <2>11. calls[h] # 1
      BY <2>5 DEF Inv, LifeInv, Called
  <2>12. CalledForwards' = CalledForwards
      BY <2>3, <2>9, <2>11 DEF CalledForwards
  <2>13. Told' /\ OrderedTold'
      BY <1>2, <2>2, <2>7, <2>10, <2>12, ToldStays
  <2>14. TableFits'
      BY <1>1, <1>2, <1>3, <2>4, <2>9 DEF TableFits, n
  <2> QED
      BY <2>8, <2>13, <2>14 DEF Inv
<1> QED
    BY <1>4, <1>5

LEMMA InvInit ==
    ASSUME Init
    PROVE  Inv
<1>1. LifeInv
    BY LifeInvInit DEF Init
<1>2. KInv /\ Len(kind) = 0
    BY <1>1 DEF LifeInv, AskedInv, KInv, Init, ListenInit
<1>3. Taken
    BY DEF Taken, Init, ListenInit
<1>4. TableFits
  <2>1. /\ table \in Seq(Events)
        /\ Among(table, DOMAIN SelfMessage) <= MaxHandles
      BY TablesAssumption DEF Init, Events, Among
  <2>2. Among(table, DOMAIN SelfMessage) \in Nat
      BY <2>1, AmongIs
  <2> QED
      BY <1>2, <2>1, <2>2, NumbersTyped DEF TableFits, Init, ListenInit
<1>5. Told
  <2>1. processed = <<>> /\ forwards = {} /\ CalledForwards = {}
      BY DEF Init, CalledForwards
  <2>2. ToldOnce
      BY <2>1, AmongEmpty, FS_EmptySet DEF ToldOnce
  <2> QED
      BY <2>1, <2>2 DEF Told
<1>6. OrderedTold
    BY DEF OrderedTold, InOrder, Init
<1> QED
    BY <1>1, <1>3, <1>4, <1>5, <1>6 DEF Inv

LEMMA InvNext ==
    ASSUME Inv, [Next]_vars
    PROVE  Inv'
<1>1. KInv /\ LifeInv /\ Taken
    BY InvTyped DEF Inv
<1>2. CASE forwardToSml
    BY <1>2, ForwardKept
<1>3. CASE ~Forwarding /\ ListenStep
  <2>1. ListenNext /\ table = <<>> /\ UNCHANGED table
      BY <1>3 DEF ListenStep, Forwarding
  <2>2. LifeInv' /\ Taken'
      BY <1>1, <2>1, LifeInvKept, TakenKept
  <2>3. TableFits'
      BY <2>1, <2>2, TableKept DEF LifeInv, AskedInv
  <2> QED
      BY <1>3, <2>2, <2>3, ToldKept, OrderKept DEF Inv
<1>4. CASE UNCHANGED vars
  <2>1. UNCHANGED listenVars /\ UNCHANGED <<table, processed>> /\ forwards' = forwards
      BY <1>4 DEF vars, smlVars
  <2>2. LifeInv' /\ Taken'
      BY <1>1, <2>1, LifeInvKept, TakenKept
  <2>3. TableFits'
      BY <2>1, <2>2, TableKept DEF LifeInv, AskedInv
  <2>4. UNCHANGED <<kind, calls>>
      BY <2>1 DEF listenVars, userVars, walkVars
  <2>5. CalledForwards' = CalledForwards /\ forwards' \subseteq Used'
    <3>1. forwards \subseteq Used
        BY DEF Inv, Told
    <3> QED
        BY <2>1, <2>4, <3>1 DEF CalledForwards, Used
  <2>6. Told' /\ OrderedTold'
      BY <2>1, <2>5, ToldStays
  <2> QED
      BY <2>2, <2>3, <2>6 DEF Inv
<1> QED
    BY <1>2, <1>3, <1>4 DEF Next, ListenStep

LEMMA Invariant == Spec => []Inv
<1>1. Init => Inv
    BY InvInit
<1>2. Inv /\ [Next]_vars => Inv'
    BY InvNext
<1> QED
    BY <1>1, <1>2, PTL DEF Spec

\* Every variable has its type.
THEOREM Typing == Spec => []TypeOK
<1>1. Inv => TypeOK
  <2> SUFFICES ASSUME Inv
               PROVE  TypeOK
      OBVIOUS
  <2>1. ListenTypeOK /\ forwards \subseteq Handles
      BY InvTyped DEF Inv, Told
  <2>2. processed \in Seq(UserKinds)
      BY SeqGrows DEF Inv, Told, Seen
  <2> QED
      BY <2>1, <2>2 DEF TypeOK, Inv, TableFits, Events
<1> QED
    BY <1>1, Invariant, PTL

(* Actor::listen and unlisten, with the constructor's delayed listens, the own
   lists and the commands of the port: what is in force for a handle is what
   the user asked for last, with the two exceptions ListensAsAsked names.    *)
THEOREM ListeningIsAsAsked == Spec => []ListensAsAsked
<1>1. Inv => ListensAsAsked
    BY AskedIs DEF Inv, LifeInv, AskedInv, ListensAsAsked, AsAsked, Used
<1> QED
    BY <1>1, Invariant, PTL

(* The walk over an own list: it calls a handle for an own confirmation once,
   and the message published behind it does not call the handle again.       *)
THEOREM CallingOnce == Spec => []OwnCalledOnce
<1>1. Inv => OwnCalledOnce
    BY CalledOnce DEF Inv
<1> QED
    BY <1>1, Invariant, PTL

(* ActorLifeCycle: the state of the actor in a callback for an own confirmation
   or for a request.                                                         *)
THEOREM StateIsRight == Spec => []StateInCallback
<1>1. Inv => StateInCallback
    BY StateIs DEF Inv
<1> QED
    BY <1>1, Invariant, PTL

(* SmlActor::forwardToSml: the machine is told the life of its actor in order,
   and no part of it twice.                                                  *)
THEOREM MachineToldInOrder == Spec => []MachineInOrder
<1>1. Inv => MachineInOrder
  <2> SUFFICES ASSUME Inv
               PROVE  MachineInOrder
      OBVIOUS
  <2>1. Among(processed, Own) = Cardinality(CalledForwards) /\ OrderedTold
      BY DEF Inv, Told, ToldOnce
  <2> DEFINE F == {h \in forwards : kind[h] \in Own}
  <2>2. CalledForwards \subseteq F
      BY InvTyped DEF CalledForwards, Inv, LifeInv, Called, Told
  <2>3. IsFiniteSet(F)
      BY InvTyped, FS_Subset
  <2>4. Cardinality(CalledForwards) <= Cardinality(F)
      BY <2>2, <2>3, FS_Subset
  <2> QED
      BY <2>1, <2>4 DEF MachineInOrder, OrderedTold, Among
<1> QED
    BY <1>1, Invariant, PTL

(* The callback of an own confirmation comes before its publication: a step
   that publishes one has called every handle the walk owes a call.          *)
THEOREM OwnComeFirst == Spec => OwnBeforeOthers
<1>1. Inv /\ [Next]_vars => [\A k \in confirmed' \ confirmed : \A h \in due : calls[h] = 1]_listenVars
  <2> SUFFICES ASSUME Inv, [Next]_vars, ~UNCHANGED listenVars
               PROVE  \A k \in confirmed' \ confirmed : \A h \in due : calls[h] = 1
      OBVIOUS
  <2>1. CASE forwardToSml
      BY <2>1 DEF forwardToSml
  <2>2. CASE ListenNext
      BY <2>2, OwnFirst DEF Inv
  <2> QED
      BY <2>1, <2>2 DEF Next, vars
<1> QED
    BY <1>1, Invariant, PTL DEF Spec, OwnBeforeOthers
=============================================================================
