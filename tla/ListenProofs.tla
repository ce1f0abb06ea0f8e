---------------------------- MODULE ListenProofs ----------------------------
(* Steps of Listen: what they keep, whoever listens.  The theorems about its *)
(* behaviours are SmlActorProofs', whose specification has these steps.      *)
EXTENDS Listen, QueueTheorems

(***************************************************************************)
(* Types, and where a handle may be.                                       *)
(***************************************************************************)

Used == 1 .. Len(kind)
Served == Requests \cup (IF children > 0 THEN FromChild ELSE {})

\* A command, a callback, an element of a list carries the handle that was
\* given out for its message; the life cycle's own listens stay.  An own
\* confirmation reaches the port as an unlisten only.
Commands ==
    {c \in [k : Kinds, h : Handles \cup {LifeCycle}, v : {0} \cup Versions] :
        \/ c.h = LifeCycle /\ c.v = 1 /\ c.k \in Served
        \/ c.h \in Used /\ c.k = kind[c.h] /\ (c.k \in Own => c.v = 0)}
Callers(k) ==
    {h \in Used : kind[h] = k /\ k \notin Own} \cup (IF k \in Served THEN {LifeCycle} ELSE {})
OwnCallers(k) == {h \in Used : kind[h] = k}
Delayed == {d \in [h : Handles, v : Versions] : d.h \in Used /\ kind[d.h] \in Confirmations}

CommandsWired == commands \in Seq(Commands)
CallbacksWired == \A k \in Kinds : DOMAIN callbacks[k] \subseteq Callers(k)
ListsWired == \A k \in Own : DOMAIN lists[k] \subseteq OwnCallers(k)
DelayedWired == delayedListens \in Seq(Delayed)
EventsWired ==
    /\ listened \cap Own = {}
    /\ events \in Seq(Kinds \ Own)
    /\ current = <<>> => left = {} /\ walk = NoWalk /\ running = Nobody
    /\ \A k \in Kinds : current = <<k>> => k \notin Own /\ left \subseteq Callers(k)
RunningWired ==
    /\ at \in Used \cup {0}
    /\ running # Nobody =>
        /\ running \in Used
        /\ \/ kind[running] \in Own /\ walk = kind[running] /\ at = running
           \/ kind[running] \notin Own /\ kind[running] = current[1] /\ walk = NoWalk
Constructing ==
    /\ state = "INIT" =>
        /\ callbacks = [k \in Kinds |-> NoCallbacks]
        /\ lists = [k \in Own |-> NoCallbacks]
        /\ listened = {} /\ events = <<>> /\ current = <<>>
        /\ childrenCnfCount = 0 /\ owed = [k \in FromChild |-> 0]
        /\ sent = {} /\ confirmed = {}
        /\ calls = [h \in Handles |-> 0]
        /\ ~undefined
    /\ state # "INIT" => delayedListens = <<>>
CountBelow == childrenCnfCount # 0 => childrenCnfCount < children

Wired == /\ CommandsWired /\ CallbacksWired /\ ListsWired /\ DelayedWired /\ EventsWired
         /\ RunningWired /\ Constructing /\ CountBelow

KInv == ListenTypeOK /\ Wired

Partial(D, V) == UNION {[C -> V] : C \in SUBSET D}

LEMMA PartialIs ==
    ASSUME NEW D, NEW V, NEW f
    PROVE  f \in Partial(D, V) <=> DOMAIN f \subseteq D /\ f \in [DOMAIN f -> V]
BY DEF Partial

LEMMA Changed ==
    ASSUME NEW D, NEW V, NEW f \in Partial(D, V), NEW h \in D, NEW v \in V
    PROVE  /\ Insert(f, h, v) \in Partial(D, V)
           /\ Replace(f, h, v) \in Partial(D, V)
           /\ Erase(f, h) \in Partial(D, V)
<1>1. DOMAIN f \subseteq D /\ f \in [DOMAIN f -> V]
    BY PartialIs
<1>2. DOMAIN f \cup {h} \in SUBSET D
    BY <1>1
<1>3. Insert(f, h, v) \in [DOMAIN f \cup {h} -> V] /\ Replace(f, h, v) \in [DOMAIN f \cup {h} -> V]
    BY <1>1 DEF Insert, Replace
<1>4. DOMAIN f \ {h} \in SUBSET D /\ Erase(f, h) \in [DOMAIN f \ {h} -> V]
    BY <1>1 DEF Erase
<1> QED
    BY <1>2, <1>3, <1>4 DEF Partial

LEMMA ListsArePartial ==
    /\ Lists = Partial(Handles, Versions)
    /\ PortLists = Partial(Handles \cup {LifeCycle}, Versions)
BY DEF Lists, PortLists, Partial

LEMMA OwnListTyped ==
    ASSUME NEW f \in Lists, NEW h \in Handles, NEW v \in Versions
    PROVE  Insert(f, h, v) \in Lists /\ Erase(f, h) \in Lists
BY Changed, ListsArePartial

LEMMA PortListTyped ==
    ASSUME NEW f \in PortLists, NEW h \in Handles \cup {LifeCycle}, NEW v \in Versions
    PROVE  Replace(f, h, v) \in PortLists /\ Erase(f, h) \in PortLists
BY Changed, ListsArePartial

LEMMA NumbersTyped ==
    /\ MaxHandles \in Nat /\ MaxHandles > 0 /\ MaxChanges \in Nat /\ MaxChildren \in Nat
    /\ Nobody \notin Handles /\ LifeCycle \notin Handles /\ 1 \in Versions
    /\ \A n \in 0 .. MaxChanges : n + 1 \in Versions
    /\ Own \subseteq UserKinds /\ UserKinds \subseteq Kinds
    /\ FromChild \subseteq Kinds /\ FromChild \cap UserKinds = {}
    /\ Requests \subseteq UserKinds /\ Requests \cap Own = {}
    /\ NoWalk \notin Kinds
BY ListenAssumption DEF Nobody, Handles, LifeCycle, Versions, Own, UserKinds, Kinds, FromChild,
                        Requests, Confirmations, NoWalk

-----------------------------------------------------------------------------
(* The user listens and unlistens: handles are given out, never taken back. *)

KindGrows ==
    /\ kind' \in Seq(UserKinds) /\ Len(kind') <= MaxHandles
    /\ Len(kind) <= Len(kind') /\ \A h \in Used : kind'[h] = kind[h]

LEMMA UsedTyped ==
    ASSUME ListenTypeOK
    PROVE  /\ Len(kind) \in Nat /\ Used \subseteq Handles /\ LifeCycle \notin Used /\ Nobody \notin Used
           /\ \A h \in Used : kind[h] \in UserKinds
BY NumbersTyped DEF ListenTypeOK, Used, Handles, LifeCycle, Nobody

LEMMA UsedGrows ==
    ASSUME ListenTypeOK, KindGrows
    PROVE  /\ Used \subseteq Used'
           /\ \A h \in Used : kind'[h] = kind[h]
<1>1. Len(kind) \in Nat /\ Len(kind') \in Nat
    BY DEF ListenTypeOK, KindGrows
<1> QED
    BY <1>1 DEF KindGrows, Used

LEMMA ServedKept ==
    ASSUME children' = children
    PROVE  Served' = Served
BY DEF Served

LEMMA WiringGrows ==
    ASSUME ListenTypeOK, KindGrows, Served \subseteq Served'
    PROVE  /\ Commands \subseteq Commands' /\ Delayed \subseteq Delayed'
           /\ \A k : Callers(k) \subseteq Callers(k)' /\ OwnCallers(k) \subseteq OwnCallers(k)'
<1>1. Commands \subseteq Commands'
    BY UsedGrows DEF Commands
<1>2. Delayed \subseteq Delayed'
    BY UsedGrows DEF Delayed
<1>3. ASSUME NEW k
      PROVE  Callers(k) \subseteq Callers(k)' /\ OwnCallers(k) \subseteq OwnCallers(k)'
    BY UsedGrows DEF Callers, OwnCallers
<1> QED
    BY <1>1, <1>2, <1>3

LEMMA SeqGrows ==
    ASSUME NEW S, NEW T, S \subseteq T, NEW s \in Seq(S)
    PROVE  s \in Seq(T)
OBVIOUS

LEMMA ConcatIs ==
    ASSUME NEW S, NEW s \in Seq(S), NEW t \in Seq(S)
    PROVE  /\ Len(s) \in Nat /\ Len(t) \in Nat /\ s \o t \in Seq(S)
           /\ DOMAIN s = 1 .. Len(s) /\ DOMAIN t = 1 .. Len(t)
           /\ Len(s \o t) = Len(s) + Len(t) /\ DOMAIN (s \o t) = 1 .. (Len(s) + Len(t))
           /\ \A i \in 1 .. Len(s) : (s \o t)[i] = s[i]
           /\ \A i \in 1 .. Len(t) : (s \o t)[Len(s) + i] = t[i]
BY ConcatProperties

LEMMA ElementTyped ==
    ASSUME NEW S, NEW s \in Seq(S), NEW i \in DOMAIN s
    PROVE  s[i] \in S
OBVIOUS

LEMMA ListenKept ==
    ASSUME KInv, KindGrows, children' = children, state' = state,
           NEW h \in Used', NEW k \in UserKinds, NEW v \in Versions,
           kind'[h] = k, listen(h, k, v)
    PROVE  /\ DelayedWired'
           /\ lists' \in [Own -> Lists] /\ ListsWired'
           /\ CommandsWired'
           /\ state = "INIT" => lists' = lists
           /\ state # "INIT" => delayedListens' = delayedListens
<1>1. ListenTypeOK /\ Served' = Served
    BY ServedKept DEF KInv
<1>2. h \in Handles /\ k \in Kinds
    BY NumbersTyped DEF KindGrows, Used, Handles
<1>3. lists \in [Own -> Lists]
    BY <1>1 DEF ListenTypeOK
<1>4. commands \in Seq(Commands') /\ delayedListens \in Seq(Delayed')
    BY <1>1, WiringGrows, SeqGrows DEF KInv, Wired, CommandsWired, DelayedWired
<1>5. \A j \in Own : DOMAIN lists[j] \subseteq OwnCallers(j)'
    BY <1>1, WiringGrows DEF KInv, Wired, ListsWired
<1>6. /\ UNCHANGED commands => CommandsWired'
      /\ UNCHANGED delayedListens => DelayedWired'
      /\ UNCHANGED lists => ListsWired'
    BY <1>4, <1>5 DEF CommandsWired, DelayedWired, ListsWired
<1>7. CASE IsDelayed(k) /\ delayedListens' = Append(delayedListens, [h |-> h, v |-> v])
           /\ UNCHANGED <<lists, commands>>
  <2>1. [h |-> h, v |-> v] \in Delayed'
      BY <1>2, <1>7 DEF Delayed, IsDelayed
  <2>2. DelayedWired'
      BY <1>4, <1>7, <2>1 DEF DelayedWired
  <2> QED
      BY <1>3, <1>6, <1>7, <2>2 DEF IsDelayed
<1>8. CASE IsOwn(k) /\ lists' = [lists EXCEPT ![k] = Insert(@, h, v)]
           /\ UNCHANGED <<delayedListens, commands>>
  <2>1. k \in Own /\ state # "INIT" /\ lists[k] \in Lists
      BY <1>3, <1>8 DEF IsOwn
  <2>2. Insert(lists[k], h, v) \in Lists
      BY <1>2, <2>1, OwnListTyped
  <2>3. lists' \in [Own -> Lists]
      BY <1>3, <1>8, <2>2
  <2>4. ASSUME NEW j \in Own
        PROVE  DOMAIN lists'[j] \subseteq OwnCallers(j)'
    <3>1. CASE j = k
      <4>1. lists'[j] = Insert(lists[k], h, v)
          BY <1>3, <1>8, <2>1, <3>1
      <4>2. DOMAIN lists'[j] = DOMAIN lists[k] \cup {h}
          BY <4>1 DEF Insert
      <4>3. h \in OwnCallers(k)'
          BY DEF OwnCallers
      <4> QED
          BY <1>5, <3>1, <4>2, <4>3
    <3>2. CASE j # k
      <4>1. lists'[j] = lists[j]
          BY <1>3, <1>8, <2>1, <3>2
      <4> QED
          BY <1>5, <2>4, <4>1
    <3> QED
        BY <3>1, <3>2
  <2>5. ListsWired'
      BY <2>4 DEF ListsWired
  <2> QED
      BY <1>3, <1>6, <1>8, <2>1, <2>3, <2>5
<1>9. CASE ~IsDelayed(k) /\ ~IsOwn(k) /\ commands' = Append(commands, Command(k, h, v))
            /\ UNCHANGED <<delayedListens, lists>>
  <2>1. k \notin Own
      BY <1>9 DEF IsDelayed, IsOwn, Confirmations
  <2>2. Command(k, h, v) \in Commands'
      BY <1>2, <2>1 DEF Command, Commands
  <2>3. CommandsWired'
      BY <1>4, <1>9, <2>2 DEF CommandsWired
  <2> QED
      BY <1>3, <1>6, <1>9, <2>3
<1> QED
    BY <1>7, <1>8, <1>9 DEF listen

\* What listens and unlistens leave alone.
portSide == <<state, children, childrenCnfCount, callbacks, listened, eventVars, walk, at, calls,
              running, confirmed, envVars>>

LEMMA UserKept ==
    ASSUME KInv, KindGrows, UNCHANGED portSide,
           DelayedWired', CommandsWired', ListsWired', lists' \in [Own -> Lists],
           state = "INIT" => lists' = lists,
           state # "INIT" => delayedListens' = delayedListens,
           asked' \in [Handles -> {0} \cup Versions], early' \subseteq Handles,
           changes' \in 0 .. MaxChanges, due' \subseteq Handles,
           undefined' \in BOOLEAN, state = "INIT" => undefined' = undefined
    PROVE  KInv'
<1>1. ListenTypeOK /\ Served' = Served
    BY ServedKept DEF KInv, portSide
<1>2. /\ Used \subseteq Used'
      /\ \A h \in Used : kind'[h] = kind[h]
      /\ \A k : Callers(k) \subseteq Callers(k)'
    BY <1>1, WiringGrows, UsedGrows
<1>3. ListenTypeOK'
  <2>1. /\ commands' \in Seq([k : Kinds, h : Handles \cup {LifeCycle}, v : {0} \cup Versions])
        /\ delayedListens' \in Seq([h : Handles, v : Versions])
    <3>1. /\ Commands' \subseteq [k : Kinds, h : Handles \cup {LifeCycle}, v : {0} \cup Versions]
          /\ Delayed' \subseteq [h : Handles, v : Versions]
        BY DEF Commands, Delayed
    <3> QED
        BY <3>1, SeqGrows DEF CommandsWired, DelayedWired
  <2>2. kind' \in Seq(UserKinds) /\ Len(kind') <= MaxHandles
      BY DEF KindGrows
  <2> QED
      BY <1>1, <2>1, <2>2 DEF ListenTypeOK, portSide, eventVars, envVars
<1>4. CallbacksWired'
    BY <1>2 DEF KInv, Wired, CallbacksWired, portSide
<1>5. EventsWired'
    BY <1>2 DEF KInv, Wired, EventsWired, portSide, eventVars
<1>6. RunningWired'
    BY <1>2 DEF KInv, Wired, RunningWired, portSide, eventVars
<1>7. Constructing'
    BY DEF KInv, Wired, Constructing, portSide, eventVars, envVars
<1>8. CountBelow'
    BY DEF KInv, Wired, CountBelow, portSide
<1> QED
    BY <1>3, <1>4, <1>5, <1>6, <1>7, <1>8 DEF KInv, Wired

\* The constructor and callbacks of the user, and forwardToSml.
ListensNew(k) ==
    LET h == Len(kind) + 1 IN
    /\ Len(kind) < MaxHandles
    /\ kind' = Append(kind, k)
    /\ asked' = [asked EXCEPT ![h] = 1]
    /\ listen(h, k, 1)
    /\ due' = IF walk = k THEN due \cup {h} ELSE due
    /\ UNCHANGED <<portSide, undefined, early, changes>>

LEMMA UserListensNew ==
    ASSUME UserListens
    PROVE  \E k \in UserKinds : ListensNew(k)
BY DEF UserListens, ListensNew, portSide, eventVars, envVars

LEMMA KindAppended ==
    ASSUME ListenTypeOK, NEW k \in UserKinds, ListensNew(k)
    PROVE  /\ KindGrows
           /\ Len(kind) + 1 \in Used' /\ Len(kind) + 1 \notin Used /\ Len(kind) + 1 \in Handles
           /\ kind'[Len(kind) + 1] = k
           /\ Used' = Used \cup {Len(kind) + 1}
<1>1. kind \in Seq(UserKinds) /\ Len(kind) \in Nat /\ kind' = Append(kind, k) /\ Len(kind) < MaxHandles
    BY DEF ListenTypeOK, ListensNew
<1>2. /\ kind' \in Seq(UserKinds) /\ Len(kind') = Len(kind) + 1 /\ kind'[Len(kind) + 1] = k
      /\ \A h \in 1 .. Len(kind) : kind'[h] = kind[h]
    BY <1>1
<1> QED
    BY <1>1, <1>2, NumbersTyped DEF KindGrows, Used, Handles

LEMMA ListensNewKept ==
    ASSUME KInv, NEW k \in UserKinds, ListensNew(k)
    PROVE  KInv'
<1> DEFINE h == Len(kind) + 1
<1>1. ListenTypeOK
    BY DEF KInv
<1>2. KindGrows /\ h \in Used' /\ h \in Handles /\ kind'[h] = k /\ 1 \in Versions
    BY <1>1, KindAppended, NumbersTyped
<1>3. UNCHANGED <<portSide, undefined, early, changes>> /\ listen(h, k, 1)
    BY DEF ListensNew
<1>4. UNCHANGED <<children, state>>
    BY <1>3 DEF portSide
<1>5. /\ DelayedWired' /\ lists' \in [Own -> Lists] /\ ListsWired' /\ CommandsWired'
      /\ state = "INIT" => lists' = lists
      /\ state # "INIT" => delayedListens' = delayedListens
    BY <1>2, <1>3, <1>4, ListenKept
<1>6. /\ asked' \in [Handles -> {0} \cup Versions] /\ early' \subseteq Handles
      /\ changes' \in 0 .. MaxChanges /\ due' \subseteq Handles /\ undefined' \in BOOLEAN
    BY <1>1, <1>2, <1>3 DEF ListenTypeOK, ListensNew
<1> QED
    BY <1>2, <1>3, <1>5, <1>6, UserKept

LEMMA SameKind ==
    ASSUME ListenTypeOK, UNCHANGED kind
    PROVE  KindGrows /\ Used' = Used
BY DEF ListenTypeOK, KindGrows, Used

LEMMA AgainKept ==
    ASSUME KInv, UserListensAgain
    PROVE  KInv'
<1>1. ListenTypeOK
    BY DEF KInv
<1>2. PICK h \in Used : /\ asked' = [asked EXCEPT ![h] = changes + 2]
                        /\ listen(h, kind[h], changes + 2)
                        /\ early' = early \ {h}
    BY DEF UserListensAgain, Used
<1>3. /\ UNCHANGED <<portSide, kind, due, undefined>>
      /\ changes < MaxChanges /\ changes' = changes + 1
    BY DEF UserListensAgain, portSide, eventVars, walkVars, envVars
<1>4. /\ KindGrows /\ Used' = Used /\ kind'[h] = kind[h] /\ kind[h] \in UserKinds /\ h \in Handles
      /\ changes + 2 \in Versions /\ changes + 1 \in 0 .. MaxChanges
  <2>1. changes \in 0 .. MaxChanges
      BY <1>1 DEF ListenTypeOK
  <2> QED
      BY <1>1, <1>3, <2>1, SameKind, UsedTyped, NumbersTyped DEF Versions
<1>5. UNCHANGED <<children, state>>
    BY <1>3 DEF portSide
<1>6. /\ DelayedWired' /\ lists' \in [Own -> Lists] /\ ListsWired' /\ CommandsWired'
      /\ state = "INIT" => lists' = lists
      /\ state # "INIT" => delayedListens' = delayedListens
    BY <1>2, <1>4, <1>5, ListenKept
<1>7. /\ asked' \in [Handles -> {0} \cup Versions] /\ early' \subseteq Handles
      /\ changes' \in 0 .. MaxChanges /\ due' \subseteq Handles /\ undefined' \in BOOLEAN
    BY <1>1, <1>2, <1>3, <1>4 DEF ListenTypeOK
<1> QED
    BY <1>3, <1>4, <1>6, <1>7, UserKept

LEMMA UnlistenKept ==
    ASSUME KInv, UserUnlistens
    PROVE  KInv'
<1>1. ListenTypeOK
    BY DEF KInv
<1>2. PICK h \in Used : /\ asked' = [asked EXCEPT ![h] = 0]
                        /\ early' = IF IsDelayed(kind[h]) THEN early \cup {h} ELSE early
                        /\ unlisten(h, kind[h])
                        /\ due' = due \ {h}
    BY DEF UserUnlistens, Used
<1>3. /\ UNCHANGED <<portSide, kind, delayedListens>>
      /\ changes < MaxChanges /\ changes' = changes + 1
    BY <1>2 DEF UserUnlistens, unlisten, portSide, eventVars, envVars
<1>4. /\ KindGrows /\ Used' = Used /\ kind[h] \in UserKinds /\ h \in Handles /\ kind[h] \in Kinds
      /\ changes + 1 \in 0 .. MaxChanges
  <2>1. changes \in 0 .. MaxChanges
      BY <1>1 DEF ListenTypeOK
  <2> QED
      BY <1>1, <1>3, <2>1, SameKind, UsedTyped, NumbersTyped
<1>5. Served' = Served
    BY <1>3, ServedKept DEF portSide
<1>6. /\ commands \in Seq(Commands') /\ DelayedWired'
      /\ \A j \in Own : DOMAIN lists[j] \subseteq OwnCallers(j)'
  <2>1. delayedListens' \in Seq(Delayed')
      BY <1>1, <1>3, <1>4, <1>5, WiringGrows, SeqGrows DEF KInv, Wired, DelayedWired
  <2> QED
      BY <1>1, <1>4, <1>5, <2>1, WiringGrows, SeqGrows
         DEF KInv, Wired, CommandsWired, DelayedWired, ListsWired
<1>7. /\ CommandsWired' /\ ListsWired' /\ lists' \in [Own -> Lists]
      /\ state = "INIT" => lists' = lists
      /\ undefined' \in BOOLEAN
      /\ state = "INIT" => undefined' = undefined
  <2>1. CASE IsOwn(kind[h]) /\ lists' = [lists EXCEPT ![kind[h]] = Erase(@, h)]
             /\ undefined' = (walk = kind[h] /\ at = h) /\ UNCHANGED commands
    <3>1. state # "INIT" /\ kind[h] \in Own /\ lists \in [Own -> Lists]
        BY <1>1, <2>1 DEF IsOwn, ListenTypeOK
    <3>2. Erase(lists[kind[h]], h) \in Lists
        BY <1>4, <3>1, OwnListTyped, NumbersTyped
    <3>3. lists' \in [Own -> Lists]
        BY <2>1, <3>1, <3>2
    <3>4. DOMAIN Erase(lists[kind[h]], h) \subseteq DOMAIN lists[kind[h]]
        BY DEF Erase
    <3>5. \A j \in Own : DOMAIN lists'[j] \subseteq DOMAIN lists[j]
        BY <2>1, <3>1, <3>4
    <3> QED
        BY <1>6, <2>1, <3>1, <3>3, <3>5 DEF CommandsWired, ListsWired
  <2>2. CASE ~IsOwn(kind[h]) /\ commands' = Append(commands, Command(kind[h], h, 0))
             /\ UNCHANGED <<lists, undefined>>
    <3>1. Command(kind[h], h, 0) \in Commands'
        BY <1>3, <1>4 DEF Command, Commands
    <3> QED
        BY <1>1, <1>6, <2>2, <3>1 DEF CommandsWired, ListsWired, ListenTypeOK
  <2> QED
      BY <1>2, <2>1, <2>2 DEF unlisten
<1>8. /\ asked' \in [Handles -> {0} \cup Versions] /\ early' \subseteq Handles
      /\ changes' \in 0 .. MaxChanges /\ due' \subseteq Handles
    BY <1>1, <1>2, <1>3, <1>4 DEF ListenTypeOK
<1> QED
    BY <1>3, <1>4, <1>6, <1>7, <1>8, UserKept

-----------------------------------------------------------------------------
(* The constructor: what was delayed goes to the own lists and to the port. *)

\* The commands ReplayedToPort has made of the first i delayed listens.
LEMMA ReplayIs ==
    ASSUME ListenTypeOK, DelayedWired
    PROVE  \E port \in [0 .. Len(delayedListens) -> Seq(Commands)] :
               /\ port[0] = <<>>
               /\ \A i \in 1 .. Len(delayedListens) :
                     port[i] = IF kind[delayedListens[i].h] \in Own THEN port[i - 1]
                               ELSE Append(port[i - 1], DelayedCommand(i))
               /\ ReplayedToPort = port[Len(delayedListens)]
<1> DEFINE n == Len(delayedListens)
           S == Seq(Commands)
           none == <<>>
           pred == [i \in 1 .. n |-> i - 1]
           step == [x \in (1 .. n) \X S |->
                        IF kind[delayedListens[x[1]].h] \in Own THEN x[2]
                        ELSE Append(x[2], DelayedCommand(x[1]))]
<1>1. n \in Nat /\ none \in S
    BY DEF DelayedWired
<1>2. ASSUME NEW i \in 1 .. n, kind[delayedListens[i].h] \notin Own
      PROVE  DelayedCommand(i) \in Commands
  <2>1. delayedListens[i] \in Delayed
      BY DEF DelayedWired
  <2> QED
      BY <1>2, <2>1, NumbersTyped, UsedTyped DEF Delayed, DelayedCommand, Command, Commands
<1>3. step \in [(1 .. n) \X S -> S]
    BY <1>2
<1>4. Descends(pred, n)
    BY <1>1 DEF Descends
<1>5. \E f : Obeys(f, n, S, none, pred, step)
  <2> HIDE DEF n, S, none, pred, step
  <2> QED
      BY <1>1, <1>3, <1>4, Recursion
<1>6. PICK f \in [0 .. n -> S] : f[0] = <<>> /\ \A i \in 1 .. n : f[i] = step[<<i, f[pred[i]]>>]
    BY <1>5 DEF Obeys
<1>7. \A i \in 1 .. n : f[i] = IF kind[delayedListens[i].h] \in Own THEN f[i - 1]
                               ELSE Append(f[i - 1], DelayedCommand(i))
  <2> TAKE i \in 1 .. n
  <2>1. f[pred[i]] = f[i - 1] /\ f[i - 1] \in S
      BY <1>1, <1>4, <1>6
  <2>2. f[i] = step[<<i, f[i - 1]>>]
      BY <1>6, <2>1
  <2> QED
      BY <2>1, <2>2
<1> DEFINE port[i \in 0 .. Len(delayedListens)] ==
               IF i = 0 THEN <<>>
               ELSE IF kind[delayedListens[i].h] \in Own THEN port[i - 1]
               ELSE Append(port[i - 1], DelayedCommand(i))
<1>8. f = [i \in 0 .. n |-> IF i = 0 THEN <<>>
                            ELSE IF kind[delayedListens[i].h] \in Own THEN f[i - 1]
                            ELSE Append(f[i - 1], DelayedCommand(i))]
  <2> DEFINE e(i) == IF i = 0 THEN <<>>
                     ELSE IF kind[delayedListens[i].h] \in Own THEN f[i - 1]
                     ELSE Append(f[i - 1], DelayedCommand(i))
  <2>1. \A i \in 0 .. n : f[i] = e(i)
    <3> TAKE i \in 0 .. n
    <3>1. i = 0 => f[i] = <<>>
        BY <1>6
    <3>2. i # 0 => i \in 1 .. n
        BY <1>1
    <3> HIDE DEF n
    <3> QED
        BY <1>7, <3>1, <3>2
  <2> HIDE DEF e
  <2>2. f = [i \in 0 .. n |-> e(i)]
      BY <1>6, <2>1
  <2> QED
      BY <2>2 DEF e
<1>9. port = [i \in 0 .. n |-> IF i = 0 THEN <<>>
                               ELSE IF kind[delayedListens[i].h] \in Own THEN port[i - 1]
                               ELSE Append(port[i - 1], DelayedCommand(i))]
    BY <1>8 DEF port
<1>10. ReplayedToPort = port[n]
    BY DEF ReplayedToPort
<1> HIDE DEF port
<1>11. /\ DOMAIN port = 0 .. n /\ port[0] = <<>>
       /\ \A i \in 1 .. n : port[i] = IF kind[delayedListens[i].h] \in Own THEN port[i - 1]
                                       ELSE Append(port[i - 1], DelayedCommand(i))
  <2>1. DOMAIN port = 0 .. n
      BY <1>9
  <2>2. port[0] = <<>>
      BY <1>1, <1>9
  <2>3. \A i \in 1 .. n : i \in 0 .. n /\ i # 0
      BY <1>1
  <2> QED
      BY <1>9, <2>1, <2>2, <2>3
<1> HIDE DEF n
<1>12. \A i \in 0 .. n : port[i] \in Seq(Commands)
  <2> DEFINE T == {i \in Nat : i <= n => port[i] \in Seq(Commands)}
  <2>1. 0 \in T
    <3>1. <<>> \in Seq(Commands)
        OBVIOUS
    <3> QED
        BY <1>11, <3>1
  <2>2. ASSUME NEW i \in Nat, i \in T
        PROVE  i + 1 \in T
    <3> SUFFICES ASSUME i + 1 <= n
                 PROVE  port[i + 1] \in Seq(Commands)
        OBVIOUS
    <3>1. port[i] \in Seq(Commands) /\ i + 1 \in 1 .. n /\ (i + 1) - 1 = i
        BY <1>1, <2>2
    <3>2. \/ port[i + 1] = port[i]
          \/ port[i + 1] = Append(port[i], DelayedCommand(i + 1)) /\ DelayedCommand(i + 1) \in Commands
        BY <1>2, <1>11, <3>1
    <3>3. \A q \in Seq(Commands), c \in Commands : Append(q, c) \in Seq(Commands)
        OBVIOUS
    <3> QED
        BY <3>1, <3>2, <3>3, Zenon
  <2>3. Nat \subseteq T
    <3> HIDE DEF T
    <3> QED
        BY <2>1, <2>2, Induction
  <2> QED
      BY <1>1, <2>3
<1>13. port \in [0 .. n -> Seq(Commands)]
    BY <1>9, <1>12
<1> QED
    BY <1>10, <1>11, <1>13, Zenon DEF n

LEMMA FirstIs ==
    ASSUME DelayedWired, NEW h, NEW j \in DOMAIN delayedListens, delayedListens[j].h = h
    PROVE  /\ FirstOf(h) \in DOMAIN delayedListens /\ delayedListens[FirstOf(h)].h = h
           /\ FirstOf(h) <= j
<1> DEFINE T == {i \in DOMAIN delayedListens : delayedListens[i].h = h}
<1>1. DOMAIN delayedListens \subseteq Nat
    BY DEF DelayedWired
<1>2. T \in SUBSET Nat /\ T # {} /\ j \in T
    BY <1>1
<1>3. Min(T) \in T /\ Min(T) <= j
  <2> HIDE DEF T
  <2> QED
      BY <1>2, MinIs
<1> QED
    BY <1>3 DEF FirstOf

LEMMA ReplayedIs ==
    ASSUME ListenTypeOK, DelayedWired, NEW k
    PROVE  /\ DOMAIN Replayed(k) = DelayedFor(k) /\ DelayedFor(k) \subseteq OwnCallers(k)
           /\ Replayed(k) \in Lists
<1>1. ASSUME NEW h \in DelayedFor(k)
      PROVE  h \in OwnCallers(k) /\ h \in Handles /\ delayedListens[FirstOf(h)].v \in Versions
  <2>1. PICK i \in DOMAIN delayedListens : delayedListens[i].h = h /\ kind[h] = k
      BY DEF DelayedFor
  <2>2. delayedListens[i] \in Delayed
      BY DEF DelayedWired
  <2>3. h \in Used /\ h \in Handles
      BY <2>1, <2>2 DEF Delayed
  <2>4. FirstOf(h) \in DOMAIN delayedListens
      BY <2>1, FirstIs
  <2>5. delayedListens[FirstOf(h)] \in Delayed
      BY <2>4 DEF DelayedWired
  <2> QED
      BY <2>1, <2>3, <2>5 DEF OwnCallers, Delayed
<1>2. DOMAIN Replayed(k) = DelayedFor(k) /\ Replayed(k) \in [DelayedFor(k) -> Versions]
    BY <1>1 DEF Replayed
<1>3. Replayed(k) \in Lists
    BY <1>1, <1>2, PartialIs, ListsArePartial
<1> QED
    BY <1>1, <1>2, <1>3

\* The steps of the constructor itself.
LEMMA NewChildKept ==
    ASSUME KInv, NewChild
    PROVE  KInv'
<1>1. ListenTypeOK /\ UNCHANGED kind
    BY DEF KInv, NewChild, userVars
<1>2. KindGrows /\ Used' = Used
    BY <1>1, SameKind
<1>3. children \in Nat /\ children' = children + 1 /\ children' \in 0 .. MaxChildren
    BY <1>1, NumbersTyped DEF ListenTypeOK, NewChild
<1>4. Served \subseteq Served' /\ FromChild \subseteq Served'
    BY <1>3 DEF Served
<1>5. /\ Commands \subseteq Commands' /\ Delayed \subseteq Delayed'
      /\ \A k : Callers(k) \subseteq Callers(k)' /\ OwnCallers(k) \subseteq OwnCallers(k)'
    BY <1>1, <1>2, <1>4, WiringGrows
<1>6. CommandsWired'
  <2>1. commands \in Seq(Commands')
      BY <1>5, SeqGrows DEF KInv, Wired, CommandsWired
  <2>2. \A k \in FromChild : Command(k, LifeCycle, 1) \in Commands'
      BY <1>4, NumbersTyped DEF Command, Commands
  <2>3. <<Command("PrivStartCnf", LifeCycle, 1), Command("PrivStopCnf", LifeCycle, 1)>> \in Seq(Commands')
      BY <2>2 DEF FromChild
  <2> QED
      BY <2>1, <2>3, ConcatProperties DEF NewChild, CommandsWired
<1>7. DelayedWired' /\ CallbacksWired' /\ ListsWired'
  <2>1. delayedListens \in Seq(Delayed')
      BY <1>5, SeqGrows DEF KInv, Wired, DelayedWired
  <2> QED
      BY <1>5, <2>1 DEF KInv, Wired, DelayedWired, CallbacksWired, ListsWired, NewChild
<1>8. EventsWired' /\ RunningWired' /\ Constructing'
    BY <1>1, <1>2, <1>5 DEF KInv, Wired, EventsWired, RunningWired, Constructing, NewChild,
                            eventVars, walkVars, envVars
<1>9. CountBelow'
  <2>1. childrenCnfCount = 0 /\ UNCHANGED childrenCnfCount
      BY DEF KInv, Wired, Constructing, NewChild
  <2> QED
      BY <2>1 DEF CountBelow
<1>10. ListenTypeOK'
  <2>1. commands' \in Seq([k : Kinds, h : Handles \cup {LifeCycle}, v : {0} \cup Versions])
    <3>1. Commands' \subseteq [k : Kinds, h : Handles \cup {LifeCycle}, v : {0} \cup Versions]
        BY DEF Commands
    <3> QED
        BY <1>6, <3>1, SeqGrows DEF CommandsWired
  <2> QED
      BY <1>1, <1>3, <2>1 DEF ListenTypeOK, NewChild, eventVars, walkVars, userVars, envVars
<1> QED
    BY <1>6, <1>7, <1>8, <1>9, <1>10 DEF KInv, Wired

LEMMA ActorLifeCycleKept ==
    ASSUME KInv, ActorLifeCycle
    PROVE  KInv'
<1>1. ListenTypeOK /\ UNCHANGED <<kind, children>> /\ DelayedWired /\ state = "INIT" /\ state' # "INIT"
    BY DEF KInv, Wired, ActorLifeCycle, userVars
<1>2. KindGrows /\ Used' = Used /\ Served' = Served
    BY <1>1, SameKind, ServedKept
<1>3. /\ Commands \subseteq Commands' /\ Delayed \subseteq Delayed'
      /\ \A k : Callers(k) \subseteq Callers(k)' /\ OwnCallers(k) \subseteq OwnCallers(k)'
    BY <1>1, <1>2, WiringGrows
<1>4. CommandsWired'
  <2>1. commands \in Seq(Commands')
      BY <1>3, SeqGrows DEF KInv, Wired, CommandsWired
  <2>2. ReplayedToPort \in Seq(Commands')
    <3>1. ReplayedToPort \in Seq(Commands)
      <4>1. Len(delayedListens) \in 0 .. Len(delayedListens)
          BY <1>1 DEF DelayedWired
      <4> QED
          BY <1>1, <4>1, ReplayIs
    <3> QED
        BY <1>3, <3>1, SeqGrows
  <2>3. \A k \in Requests : Command(k, LifeCycle, 1) \in Commands'
      BY NumbersTyped DEF Command, Commands, Served
  <2>4. <<Command("StartReq", LifeCycle, 1), Command("StopReq", LifeCycle, 1)>> \in Seq(Commands')
      BY <2>3 DEF Requests
  <2>5. commands \o ReplayedToPort \in Seq(Commands')
      BY <2>1, <2>2, ConcatProperties
  <2> QED
      BY <2>1, <2>2, <2>4, <2>5, ConcatProperties DEF ActorLifeCycle, CommandsWired
<1>5. DelayedWired' /\ CallbacksWired'
  <2>1. delayedListens' \in Seq(Delayed')
      BY DEF ActorLifeCycle
  <2> QED
      BY <1>3, <2>1 DEF KInv, Wired, DelayedWired, CallbacksWired, ActorLifeCycle
<1>6. lists' \in [Own -> Lists] /\ ListsWired'
  <2>1. \A k \in Own : Replayed(k) \in Lists /\ DOMAIN Replayed(k) \subseteq OwnCallers(k)
      BY <1>1, ReplayedIs
  <2> QED
      BY <1>3, <2>1 DEF ListsWired, ActorLifeCycle
<1>7. EventsWired' /\ RunningWired' /\ Constructing' /\ CountBelow'
    BY <1>1, <1>2, <1>3 DEF KInv, Wired, EventsWired, RunningWired, Constructing, CountBelow,
                            ActorLifeCycle, eventVars, walkVars, envVars
<1>8. ListenTypeOK'
  <2>1. commands' \in Seq([k : Kinds, h : Handles \cup {LifeCycle}, v : {0} \cup Versions])
    <3>1. Commands' \subseteq [k : Kinds, h : Handles \cup {LifeCycle}, v : {0} \cup Versions]
        BY DEF Commands
    <3> QED
        BY <1>4, <3>1, SeqGrows DEF CommandsWired
  <2>2. delayedListens' \in Seq([h : Handles, v : Versions]) /\ state' = "CTOR_FINISHED"
      BY DEF ActorLifeCycle
  <2> QED
      BY <1>1, <1>6, <2>1, <2>2 DEF ListenTypeOK, ActorLifeCycle, eventVars, walkVars, userVars, envVars
<1> QED
    BY <1>4, <1>5, <1>6, <1>7, <1>8 DEF KInv, Wired

-----------------------------------------------------------------------------
(* The port.                                                                *)

LEMMA SameWiring ==
    ASSUME ListenTypeOK, UNCHANGED <<kind, children>>
    PROVE  /\ Used' = Used /\ Served' = Served /\ Commands' = Commands /\ Delayed' = Delayed
           /\ \A k : Callers(k)' = Callers(k) /\ OwnCallers(k)' = OwnCallers(k)
BY DEF Used, Served, Commands, Delayed, Callers, OwnCallers

LEMMA ServedIs ==
    Served \subseteq Kinds /\ Served \cap Own = {} /\ Requests \subseteq Served
BY NumbersTyped DEF Served, Kinds, Own, Requests, FromChild, Confirmations

\* The next command of the port.
LEMMA CommandDone ==
    ASSUME ListenTypeOK, CommandsWired, CallbacksWired, processCommands
    PROVE  LET c == Head(commands) IN
           /\ c \in Commands /\ c.k \in Kinds /\ callbacks \in [Kinds -> PortLists]
           /\ \/ /\ c.v = 0 /\ c.h \in Used /\ kind[c.h] = c.k
                 /\ callbacks' = [callbacks EXCEPT ![c.k] = Erase(@, c.h)]
                 /\ UNCHANGED listened
              \/ /\ c.v \in Versions /\ c.h \in Callers(c.k) /\ c.k \notin Own
                 /\ callbacks' = [callbacks EXCEPT ![c.k] = Replace(@, c.h, c.v)]
                 /\ listened' = listened \cup {c.k}
<1> DEFINE c == Head(commands)
<1>1. c \in Commands
    BY DEF CommandsWired, processCommands
<1>2. /\ c.k \in Kinds /\ c.v \in {0} \cup Versions /\ 0 \notin Versions
      /\ \/ c.h = LifeCycle /\ c.v = 1 /\ c.k \in Served
         \/ c.h \in Used /\ c.k = kind[c.h] /\ (c.k \in Own => c.v = 0)
    BY <1>1, NumbersTyped DEF Commands, Versions
<1>3. CASE c.v = 0
    BY <1>1, <1>2, <1>3 DEF processCommands, ListenTypeOK
<1>4. CASE c.v # 0
  <2>1. c.h \in Callers(c.k) /\ c.k \notin Own
      BY <1>2, <1>4, ServedIs DEF Callers
  <2> QED
      BY <1>1, <1>2, <1>4, <2>1 DEF processCommands, ListenTypeOK
<1> QED
    BY <1>3, <1>4

LEMMA CommandKept ==
    ASSUME KInv, processCommands
    PROVE  KInv'
<1> DEFINE c == Head(commands)
<1>1. /\ ListenTypeOK /\ CommandsWired /\ CallbacksWired /\ UNCHANGED <<kind, children>>
      /\ state # "INIT" /\ UNCHANGED state
    BY DEF KInv, Wired, processCommands, Idle, userVars
<1>2. /\ Used' = Used /\ Served' = Served /\ Commands' = Commands /\ Delayed' = Delayed
      /\ \A k : Callers(k)' = Callers(k) /\ OwnCallers(k)' = OwnCallers(k)
    BY <1>1, SameWiring
<1>3. /\ c.h \in Handles \cup {LifeCycle}
      /\ c.k \in Kinds /\ callbacks \in [Kinds -> PortLists]
      /\ \/ /\ callbacks' = [callbacks EXCEPT ![c.k] = Erase(@, c.h)]
            /\ UNCHANGED listened
         \/ /\ c.v \in Versions /\ c.h \in Callers(c.k) /\ c.k \notin Own
            /\ callbacks' = [callbacks EXCEPT ![c.k] = Replace(@, c.h, c.v)]
            /\ listened' = listened \cup {c.k}
  <2>1. c \in Commands
      BY <1>1, CommandDone
  <2>2. c.h \in Handles \cup {LifeCycle}
      BY <2>1 DEF Commands
  <2> HIDE DEF c
  <2> QED
      BY <1>1, <2>2, CommandDone DEF c
<1>4. /\ callbacks' \in [Kinds -> PortLists]
      /\ \A k \in Kinds : DOMAIN callbacks'[k] \subseteq Callers(k)
      /\ listened' \subseteq Kinds /\ listened' \cap Own = {}
  <2>1. /\ callbacks[c.k] \in PortLists /\ DOMAIN callbacks[c.k] \subseteq Callers(c.k)
        /\ listened \subseteq Kinds /\ listened \cap Own = {}
      BY <1>1, <1>3 DEF CallbacksWired, KInv, Wired, EventsWired, ListenTypeOK
  <2>2. CASE callbacks' = [callbacks EXCEPT ![c.k] = Erase(@, c.h)] /\ UNCHANGED listened
    <3>1. DOMAIN Erase(callbacks[c.k], c.h) \subseteq DOMAIN callbacks[c.k]
        BY DEF Erase
    <3>2. Erase(callbacks[c.k], c.h) \in PortLists
        BY <1>3, <2>1, PortListTyped, NumbersTyped
    <3> HIDE DEF c
    <3> QED
        BY <1>1, <1>3, <2>1, <2>2, <3>1, <3>2 DEF CallbacksWired
  <2>3. CASE /\ c.v \in Versions /\ c.h \in Callers(c.k) /\ c.k \notin Own
             /\ callbacks' = [callbacks EXCEPT ![c.k] = Replace(@, c.h, c.v)]
             /\ listened' = listened \cup {c.k}
    <3>1. DOMAIN Replace(callbacks[c.k], c.h, c.v) = DOMAIN callbacks[c.k] \cup {c.h}
        BY DEF Replace
    <3>2. Replace(callbacks[c.k], c.h, c.v) \in PortLists
        BY <1>3, <2>1, <2>3, PortListTyped
    <3> HIDE DEF c
    <3> QED
        BY <1>1, <1>3, <2>1, <2>3, <3>1, <3>2 DEF CallbacksWired
  <2> QED
      BY <1>3, <2>2, <2>3
<1>5. commands' \in Seq(Commands)
    BY <1>1 DEF CommandsWired, processCommands
<1>6. CommandsWired' /\ CallbacksWired' /\ ListsWired' /\ DelayedWired'
    BY <1>2, <1>4, <1>5 DEF KInv, Wired, CommandsWired, CallbacksWired, ListsWired, DelayedWired,
                            processCommands
<1>7. EventsWired' /\ RunningWired' /\ Constructing' /\ CountBelow'
    BY <1>1, <1>2, <1>4 DEF KInv, Wired, EventsWired, RunningWired, Constructing, CountBelow,
                            processCommands, eventVars, walkVars, envVars
<1>8. ListenTypeOK'
  <2>1. commands' \in Seq([k : Kinds, h : Handles \cup {LifeCycle}, v : {0} \cup Versions])
    <3>1. Commands \subseteq [k : Kinds, h : Handles \cup {LifeCycle}, v : {0} \cup Versions]
        BY DEF Commands
    <3> QED
        BY <1>5, <3>1, SeqGrows
  <2> QED
      BY <1>1, <1>4, <2>1 DEF ListenTypeOK, processCommands, eventVars, walkVars, userVars, envVars
<1> QED
    BY <1>6, <1>7, <1>8 DEF KInv, Wired

LEMMA TakeKept ==
    ASSUME KInv, takeEvent
    PROVE  KInv'
<1>1. /\ ListenTypeOK /\ UNCHANGED <<kind, children>> /\ state # "INIT"
    BY DEF KInv, takeEvent, Idle, userVars
<1>2. /\ Used' = Used /\ Served' = Served /\ Commands' = Commands /\ Delayed' = Delayed
      /\ \A k : Callers(k)' = Callers(k) /\ OwnCallers(k)' = OwnCallers(k)
    BY <1>1, SameWiring
<1> DEFINE e == Head(events)
<1>3. /\ e \in Kinds \ Own /\ events' \in Seq(Kinds \ Own) /\ events' \in Seq(Kinds)
      /\ current' = <<e>> /\ left' = DOMAIN callbacks[e]
  <2>1. events \in Seq(Kinds \ Own) /\ events # <<>>
      BY DEF KInv, Wired, EventsWired, takeEvent
  <2>2. e \in Kinds \ Own /\ events' \in Seq(Kinds \ Own)
      BY <2>1 DEF takeEvent
  <2>3. Kinds \ Own \subseteq Kinds
      OBVIOUS
  <2> QED
      BY <2>2, <2>3, SeqGrows DEF takeEvent
<1>4. left' \subseteq Callers(e) /\ left' \subseteq Handles \cup {LifeCycle}
  <2>1. DOMAIN callbacks[e] \subseteq Callers(e)
      BY <1>3 DEF KInv, Wired, CallbacksWired
  <2>2. Callers(e) \subseteq Handles \cup {LifeCycle}
      BY <1>1, UsedTyped DEF Callers
  <2> QED
      BY <1>3, <2>1, <2>2
<1> HIDE DEF e
<1>5. CommandsWired' /\ CallbacksWired' /\ ListsWired' /\ DelayedWired'
    BY <1>2 DEF KInv, Wired, CommandsWired, CallbacksWired, ListsWired, DelayedWired,
                takeEvent, portVars
<1>6. EventsWired'
  <2>1. UNCHANGED listened /\ listened \cap Own = {}
      BY DEF KInv, Wired, EventsWired, takeEvent, portVars
  <2> QED
      BY <1>2, <1>3, <1>4, <2>1 DEF EventsWired
<1>7. RunningWired' /\ Constructing' /\ CountBelow'
  <2>1. running = Nobody /\ at \in Used \cup {0} /\ UNCHANGED <<running, at>>
      BY DEF KInv, Wired, EventsWired, RunningWired, takeEvent, Idle, walkVars
  <2> QED
      BY <1>1, <1>2, <2>1 DEF KInv, Wired, RunningWired, Constructing, CountBelow, takeEvent
<1>8. ListenTypeOK'
    BY <1>1, <1>3, <1>4 DEF ListenTypeOK, takeEvent, portVars, walkVars, userVars, envVars
<1> QED
    BY <1>5, <1>6, <1>7, <1>8 DEF KInv, Wired

\* What stays when only messages and callbacks are on their way.
listening == <<kind, children, delayedListens, lists, portVars, asked, early, changes>>

LEMMA ListeningKept ==
    ASSUME KInv, UNCHANGED listening, state # "INIT", state' # "INIT",
           EventsWired', RunningWired', CountBelow',
           state' \in {"INIT", "CTOR_FINISHED", "STARTED", "STOPPED"},
           childrenCnfCount' \in 0 .. MaxChildren,
           events' \in Seq(Kinds), current' \in {<<>>} \cup {<<k>> : k \in Kinds},
           left' \subseteq Handles \cup {LifeCycle},
           walk' \in Own \cup {NoWalk}, at' \in Handles \cup {0},
           running' \in Handles \cup {Nobody}, undefined' \in BOOLEAN,
           sent' \subseteq Requests \cup {"OtherCnf"}, owed' \in [FromChild -> 0 .. MaxChildren],
           calls' \in [Handles -> Nat], due' \subseteq Handles, confirmed' \subseteq Own
    PROVE  KInv'
<1>1. ListenTypeOK /\ UNCHANGED <<kind, children>>
    BY DEF KInv, listening
<1>2. /\ Used' = Used /\ Served' = Served /\ Commands' = Commands /\ Delayed' = Delayed
      /\ \A k : Callers(k)' = Callers(k) /\ OwnCallers(k)' = OwnCallers(k)
    BY <1>1, SameWiring
<1>3. CommandsWired' /\ CallbacksWired' /\ ListsWired' /\ DelayedWired'
    BY <1>2 DEF KInv, Wired, CommandsWired, CallbacksWired, ListsWired, DelayedWired,
                listening, portVars
<1>4. Constructing'
    BY DEF KInv, Wired, Constructing, listening
<1>5. ListenTypeOK'
    BY <1>1 DEF ListenTypeOK, listening, portVars
<1> QED
    BY <1>3, <1>4, <1>5 DEF KInv, Wired

LEMMA BusyIsBuilt ==
    ASSUME KInv, \/ current # <<>> \/ walk # NoWalk \/ running # Nobody
    PROVE  state # "INIT" /\ current # <<>>
BY DEF KInv, Wired, Constructing, EventsWired

LEMMA CurrentIs ==
    ASSUME KInv, current # <<>>
    PROVE  \E k \in Kinds \ Own : current = <<k>> /\ left \subseteq Callers(k)
BY DEF KInv, ListenTypeOK, Wired, EventsWired

LEMMA CallersIs ==
    ASSUME ListenTypeOK, NEW k, NEW h \in Callers(k)
    PROVE  /\ h = LifeCycle => k \in Served
           /\ h # LifeCycle => h \in Used /\ h \in Handles /\ kind[h] = k /\ k \notin Own
BY UsedTyped DEF Callers

LEMMA EventDoneKept ==
    ASSUME KInv, eventDone
    PROVE  KInv'
<1>1. /\ ListenTypeOK /\ state # "INIT" /\ left = {} /\ running = Nobody /\ walk = NoWalk
      /\ current' = <<>>
      /\ UNCHANGED <<state, childrenCnfCount, events, left, walkVars, running, undefined,
                     confirmed, envVars, listening>>
    BY BusyIsBuilt DEF KInv, eventDone, MayCall, listening, userVars
<1>2. EventsWired' /\ RunningWired' /\ CountBelow'
  <2>1. Used' = Used
      BY <1>1 DEF Used, listening
  <2> QED
      BY <1>1, <2>1 DEF KInv, Wired, EventsWired, RunningWired, CountBelow, walkVars, listening, portVars
<1> QED
    BY <1>1, <1>2, ListeningKept DEF ListenTypeOK, walkVars, envVars

LEMMA CallUserKept ==
    ASSUME KInv, callUser
    PROVE  KInv'
<1>1. /\ ListenTypeOK /\ state # "INIT" /\ walk = NoWalk /\ current # <<>>
      /\ UNCHANGED <<state, childrenCnfCount, events, current, walk, at, due, undefined,
                     confirmed, envVars, listening>>
    BY BusyIsBuilt DEF KInv, callUser, MayCall, listening, userVars
<1>2. PICK h \in left \ {LifeCycle} : /\ running' = h /\ left' = left \ {h} /\ calls' = OnPort(h)
    BY DEF callUser
<1>3. PICK k \in Kinds \ Own : current = <<k>> /\ left \subseteq Callers(k)
    BY <1>1, CurrentIs
<1>4. h \in Used /\ h \in Handles /\ kind[h] = k
    BY <1>1, <1>2, <1>3, CallersIs
<1>5. calls' = calls
    BY <1>2, <1>3 DEF OnPort
<1>6. Used' = Used /\ \A j : Callers(j)' = Callers(j)
    BY <1>1, SameWiring DEF listening
<1>7. EventsWired'
    BY <1>1, <1>2, <1>3, <1>6 DEF KInv, Wired, EventsWired, listening, portVars
<1>8. RunningWired'
  <2>1. kind'[h] = k /\ current'[1] = k /\ walk' = NoWalk /\ at' \in Used' \cup {0}
      BY <1>1, <1>3, <1>4, <1>6 DEF KInv, Wired, RunningWired, listening
  <2> QED
      BY <1>2, <1>3, <1>4, <1>6, <2>1 DEF RunningWired
<1>9. CountBelow'
    BY <1>1 DEF KInv, Wired, CountBelow, listening
<1> QED
    BY <1>1, <1>2, <1>4, <1>5, <1>7, <1>8, <1>9, ListeningKept DEF ListenTypeOK, envVars

LEMMA ReturnKept ==
    ASSUME KInv, userReturns
    PROVE  KInv'
<1>1. /\ ListenTypeOK /\ state # "INIT" /\ current # <<>> /\ running' = Nobody
      /\ UNCHANGED <<state, childrenCnfCount, eventVars, walkVars, undefined,
                     confirmed, envVars, listening>>
    BY BusyIsBuilt DEF KInv, userReturns, listening, userVars
<1>2. Used' = Used /\ \A j : Callers(j)' = Callers(j)
    BY <1>1, SameWiring DEF listening
<1>3. EventsWired' /\ RunningWired' /\ CountBelow'
    BY <1>1, <1>2 DEF KInv, Wired, EventsWired, RunningWired, CountBelow, listening, portVars,
                      eventVars, walkVars
<1> QED
    BY <1>1, <1>3, ListeningKept DEF ListenTypeOK, envVars, eventVars, walkVars

LEMMA RequestKept ==
    ASSUME KInv, callRequest
    PROVE  KInv'
<1>1. /\ ListenTypeOK /\ state # "INIT" /\ walk = NoWalk /\ current # <<>> /\ running = Nobody
      /\ current[1] \in Requests /\ left' = left \ {LifeCycle}
      /\ UNCHANGED <<childrenCnfCount, events, current, calls, running, undefined,
                     confirmed, sent, listening>>
    BY BusyIsBuilt DEF KInv, callRequest, MayCall, listening, userVars
<1>2. /\ state' \in {"CTOR_FINISHED", "STARTED", "STOPPED"}
      /\ walk' \in Own \cup {NoWalk} /\ at' \in Used \cup {0} /\ at' \in Handles \cup {0}
      /\ due' \subseteq Handles
      /\ owed' \in [FromChild -> 0 .. MaxChildren]
  <2>1. at \in Used \cup {0} /\ Used \subseteq Handles
      BY <1>1, UsedTyped DEF KInv, Wired, RunningWired
  <2>2. CASE UNCHANGED owed /\ state' = StateInLeaf(current[1]) /\ StartWalk(CnfOf(current[1]))
    <3>1. walk' \in Own /\ at' = 0 /\ due' \subseteq Handles
        BY <2>1, <2>2 DEF StartWalk, CnfOf, Own, Used
    <3>2. state' \in {"CTOR_FINISHED", "STARTED", "STOPPED"}
        BY <1>1, <2>2 DEF StateInLeaf, ListenTypeOK
    <3> QED
        BY <1>1, <2>2, <3>1, <3>2 DEF ListenTypeOK
  <2>3. CASE /\ owed' = [owed EXCEPT ![PrivCnfOf(current[1])] = children]
             /\ UNCHANGED <<state, walk, at, due>>
      BY <1>1, <2>1, <2>3 DEF ListenTypeOK
  <2> QED
      BY <2>2, <2>3 DEF callRequest
<1>3. Used' = Used /\ \A j : Callers(j)' = Callers(j)
    BY <1>1, SameWiring DEF listening
<1>4. EventsWired' /\ RunningWired' /\ CountBelow'
    BY <1>1, <1>2, <1>3 DEF KInv, Wired, EventsWired, RunningWired, CountBelow, listening, portVars
<1> QED
    BY <1>1, <1>2, <1>4, ListeningKept DEF ListenTypeOK

LEMMA ChildCnfKept ==
    ASSUME KInv, callChildCnf
    PROVE  KInv'
<1>1. /\ ListenTypeOK /\ state # "INIT" /\ walk = NoWalk /\ current # <<>> /\ running = Nobody
      /\ current[1] \in FromChild /\ left' = left \ {LifeCycle} /\ LifeCycle \in left
      /\ UNCHANGED <<events, current, calls, running, undefined, confirmed, envVars, listening>>
    BY BusyIsBuilt DEF KInv, callChildCnf, MayCall, listening, userVars
<1>2. children > 0
  <2>1. PICK k \in Kinds \ Own : current = <<k>> /\ left \subseteq Callers(k)
      BY <1>1, CurrentIs
  <2>2. k \in Served /\ k \in FromChild
      BY <1>1, <2>1, CallersIs
  <2> QED
      BY <2>2, NumbersTyped DEF Served
<1>3. /\ state' \in {"CTOR_FINISHED", "STARTED", "STOPPED"}
      /\ walk' \in Own \cup {NoWalk} /\ at' \in Used \cup {0} /\ at' \in Handles \cup {0}
      /\ due' \subseteq Handles
      /\ childrenCnfCount' \in 0 .. MaxChildren /\ CountBelow'
  <2>1. at \in Used \cup {0} /\ Used \subseteq Handles
      BY <1>1, UsedTyped DEF KInv, Wired, RunningWired
  <2>2. /\ children \in 0 .. MaxChildren /\ childrenCnfCount \in 0 .. MaxChildren /\ MaxChildren \in Nat
        /\ childrenCnfCount < children /\ children' = children
      BY <1>1, <1>2, NumbersTyped DEF KInv, Wired, CountBelow, ListenTypeOK, listening
  <2>3. CASE /\ childrenCnfCount' = CountReset
             /\ state' = IF current[1] = "PrivStartCnf" THEN "STARTED" ELSE "STOPPED"
             /\ StartWalk(CnfOf(current[1]))
    <3>1. walk' \in Own /\ at' = 0 /\ due' \subseteq Handles
        BY <2>1, <2>3 DEF StartWalk, CnfOf, Own, Used
    <3> QED
        BY <2>2, <2>3, <3>1 DEF CountReset, CountBelow
  <2>4. CASE /\ childrenCnfCount + 1 # children
             /\ childrenCnfCount' = childrenCnfCount + 1
             /\ UNCHANGED <<state, walk, at, due>>
      BY <1>1, <2>1, <2>2, <2>4 DEF ListenTypeOK, CountBelow
  <2> QED
      BY <2>3, <2>4 DEF callChildCnf
<1>4. Used' = Used /\ \A j : Callers(j)' = Callers(j)
    BY <1>1, SameWiring DEF listening
<1>5. EventsWired' /\ RunningWired'
    BY <1>1, <1>3, <1>4 DEF KInv, Wired, EventsWired, RunningWired, listening, portVars
<1> QED
    BY <1>1, <1>3, <1>5, ListeningKept DEF ListenTypeOK, envVars

\* The least handle ahead of the one the walk stands on.
LEMMA AheadIs ==
    ASSUME KInv, callOwn
    PROVE  /\ walk \in Own
           /\ \E h \in Ahead : /\ \A j \in Ahead : h <= j
                              /\ at' = h /\ running' = h /\ calls' = [calls EXCEPT ![h] = @ + 1]
                              /\ h \in DOMAIN lists[walk] /\ h > at /\ h \in Used /\ kind[h] = walk
                              /\ h \in Handles
<1>1. ListenTypeOK /\ walk \in Own
    BY DEF KInv, ListenTypeOK, callOwn
<1>2. DOMAIN lists[walk] \subseteq OwnCallers(walk)
    BY <1>1 DEF KInv, Wired, ListsWired
<1>3. Ahead \subseteq Used /\ Used \subseteq Handles /\ Handles \subseteq Nat /\ Ahead # {}
    BY <1>1, <1>2, UsedTyped DEF Ahead, OwnCallers, callOwn, Handles
<1>4. \E h \in Ahead : \A j \in Ahead : h <= j
    BY <1>3, Least
<1>5. PICK h \in Ahead : /\ \A j \in Ahead : h <= j
                        /\ at' = h /\ running' = h /\ calls' = [calls EXCEPT ![h] = @ + 1]
    BY <1>4 DEF callOwn
<1>6. h \in DOMAIN lists[walk] /\ h > at /\ h \in Used /\ kind[h] = walk /\ h \in Handles
    BY <1>2, <1>3 DEF Ahead, OwnCallers
<1> QED
    BY <1>1, <1>5, <1>6

LEMMA CallOwnKept ==
    ASSUME KInv, callOwn
    PROVE  KInv'
<1>1. /\ ListenTypeOK /\ state # "INIT" /\ walk \in Own /\ current # <<>>
      /\ UNCHANGED <<state, childrenCnfCount, eventVars, walk, due, undefined,
                     confirmed, envVars, listening>>
    BY BusyIsBuilt, AheadIs DEF KInv, callOwn, listening, userVars
<1>2. PICK h \in Used : /\ at' = h /\ running' = h /\ calls' = [calls EXCEPT ![h] = @ + 1]
                       /\ kind[h] = walk /\ h \in Handles
    BY AheadIs
<1>3. Used' = Used /\ \A j : Callers(j)' = Callers(j)
    BY <1>1, SameWiring DEF listening
<1>4. EventsWired' /\ CountBelow'
    BY <1>1, <1>3 DEF KInv, Wired, EventsWired, CountBelow, listening, portVars, eventVars
<1>5. RunningWired'
    BY <1>1, <1>2, <1>3 DEF RunningWired, listening
<1>6. calls' \in [Handles -> Nat]
    BY <1>1, <1>2 DEF ListenTypeOK
<1> QED
    BY <1>1, <1>2, <1>4, <1>5, <1>6, ListeningKept DEF ListenTypeOK, envVars, eventVars

LEMMA PublishKept ==
    ASSUME KInv, publishCnf
    PROVE  KInv'
<1>1. /\ ListenTypeOK /\ state # "INIT" /\ walk \in Own /\ current # <<>> /\ running = Nobody
      /\ walk' = NoWalk /\ confirmed' = confirmed \cup {walk}
      /\ state' = IF walk = "StopCnf" THEN "STOPPED" ELSE state
      /\ UNCHANGED <<childrenCnfCount, current, left, at, due, calls, running, undefined,
                     envVars, listening>>
    BY BusyIsBuilt DEF KInv, ListenTypeOK, publishCnf, listening, userVars
<1>2. UNCHANGED events
    BY <1>1 DEF KInv, Wired, EventsWired, publishCnf
<1>3. Used' = Used /\ \A j : Callers(j)' = Callers(j)
    BY <1>1, SameWiring DEF listening
<1>4. EventsWired' /\ RunningWired' /\ CountBelow'
    BY <1>1, <1>2, <1>3 DEF KInv, Wired, EventsWired, RunningWired, CountBelow, listening, portVars
<1>5. state' # "INIT" /\ state' \in {"INIT", "CTOR_FINISHED", "STARTED", "STOPPED"}
    BY <1>1 DEF ListenTypeOK
<1> QED
    BY <1>1, <1>2, <1>4, <1>5, ListeningKept DEF ListenTypeOK, envVars

LEMMA DeliveredTyped ==
    ASSUME KInv, NEW k \in Kinds, Delivered(k)
    PROVE  events' \in Seq(Kinds \ Own) /\ events' \in Seq(Kinds)
<1>1. events \in Seq(Kinds \ Own) /\ listened \cap Own = {}
    BY DEF KInv, Wired, EventsWired
<1>2. events' \in Seq(Kinds \ Own)
    BY <1>1 DEF Delivered
<1>3. Kinds \ Own \subseteq Kinds
    OBVIOUS
<1> QED
    BY <1>2, <1>3, SeqGrows

LEMMA OthersKept ==
    ASSUME KInv, othersPublish
    PROVE  KInv'
<1>1. /\ ListenTypeOK
      /\ UNCHANGED <<state, childrenCnfCount, current, left, walkVars, running, undefined,
                     confirmed, owed, listening>>
    BY DEF KInv, othersPublish, listening, userVars
<1>2. PICK k \in Requests \cup {"OtherCnf"} : /\ k \notin sent /\ MaySend(k)
                                            /\ sent' = sent \cup {k} /\ Delivered(k)
    BY DEF othersPublish
<1>3. state # "INIT"
    BY <1>2 DEF MaySend, Requests, Consumed, KInv, Wired, Constructing
<1>4. events' \in Seq(Kinds \ Own) /\ events' \in Seq(Kinds)
  <2>1. k \in Kinds
      BY <1>2, NumbersTyped DEF Kinds, Confirmations
  <2> QED
      BY <1>2, <2>1, DeliveredTyped
<1>5. Used' = Used /\ \A j : Callers(j)' = Callers(j)
    BY <1>1, SameWiring DEF listening
<1>6. EventsWired' /\ RunningWired' /\ CountBelow'
    BY <1>1, <1>4, <1>5 DEF KInv, Wired, EventsWired, RunningWired, CountBelow, listening, portVars, walkVars
<1> QED
    BY <1>1, <1>2, <1>3, <1>4, <1>6, ListeningKept DEF ListenTypeOK, walkVars

LEMMA ChildKept ==
    ASSUME KInv, childConfirms
    PROVE  KInv'
<1>1. /\ ListenTypeOK
      /\ UNCHANGED <<state, childrenCnfCount, current, left, walkVars, running, undefined,
                     confirmed, sent, listening>>
    BY DEF KInv, childConfirms, listening, userVars
<1>2. PICK k \in FromChild : /\ owed[k] > 0 /\ owed' = [owed EXCEPT ![k] = @ - 1]
                            /\ Delivered(k)
    BY DEF childConfirms
<1>3. state # "INIT"
    BY <1>2 DEF KInv, Wired, Constructing
<1>4. events' \in Seq(Kinds \ Own) /\ events' \in Seq(Kinds)
    BY <1>2, DeliveredTyped, NumbersTyped
<1>5. Used' = Used /\ \A j : Callers(j)' = Callers(j)
    BY <1>1, SameWiring DEF listening
<1>6. EventsWired' /\ RunningWired' /\ CountBelow'
    BY <1>1, <1>4, <1>5 DEF KInv, Wired, EventsWired, RunningWired, CountBelow, listening, portVars, walkVars
<1>7. owed' \in [FromChild -> 0 .. MaxChildren]
    BY <1>1, <1>2, NumbersTyped DEF ListenTypeOK
<1> QED
    BY <1>1, <1>3, <1>4, <1>6, <1>7, ListeningKept DEF ListenTypeOK, walkVars

LEMMA ListenNextKept ==
    ASSUME KInv, ListenNext
    PROVE  KInv'
BY NewChildKept, ActorLifeCycleKept, UserListensNew, ListensNewKept, AgainKept, UnlistenKept,
   CommandKept, TakeKept, EventDoneKept, CallUserKept, ReturnKept, RequestKept, ChildCnfKept,
   CallOwnKept, PublishKept, OthersKept, ChildKept
   DEF ListenNext, Constructs, User, Consumes

LEMMA KInvStutters ==
    ASSUME KInv, UNCHANGED listenVars
    PROVE  KInv'
<1>1. ListenTypeOK /\ UNCHANGED <<kind, children>>
    BY DEF KInv, listenVars, userVars
<1>2. /\ Used' = Used /\ Served' = Served /\ Commands' = Commands /\ Delayed' = Delayed
      /\ \A k : Callers(k)' = Callers(k) /\ OwnCallers(k)' = OwnCallers(k)
    BY <1>1, SameWiring
<1>3. ListenTypeOK'
    BY <1>1 DEF ListenTypeOK, listenVars, portVars, eventVars, walkVars, userVars, envVars
<1> QED
    BY <1>2, <1>3 DEF KInv, Wired, CommandsWired, CallbacksWired, ListsWired, DelayedWired,
       EventsWired, RunningWired, Constructing, CountBelow, listenVars, portVars, eventVars,
       walkVars, userVars, envVars

LEMMA KInvInit ==
    ASSUME ListenInit
    PROVE  KInv
<1>1. NoCallbacks \in Lists /\ NoCallbacks \in PortLists /\ DOMAIN NoCallbacks = {}
    BY ListsArePartial, PartialIs DEF NoCallbacks
<1>2. ListenTypeOK
  <2>1. /\ lists \in [Own -> Lists] /\ callbacks \in [Kinds -> PortLists]
        /\ asked \in [Handles -> {0} \cup Versions] /\ calls \in [Handles -> Nat]
        /\ owed \in [FromChild -> 0 .. MaxChildren]
      BY <1>1, NumbersTyped DEF ListenInit
  <2>2. /\ state = "INIT" /\ children = 0 /\ childrenCnfCount = 0 /\ changes = 0 /\ at = 0
        /\ kind = <<>> /\ Len(kind) = 0 /\ delayedListens = <<>> /\ commands = <<>> /\ events = <<>>
        /\ current = <<>> /\ listened = {} /\ left = {} /\ sent = {} /\ early = {} /\ due = {}
        /\ confirmed = {} /\ walk = NoWalk /\ running = Nobody /\ undefined = FALSE
      BY DEF ListenInit
  <2>3. /\ kind \in Seq(UserKinds) /\ Len(kind) <= MaxHandles
        /\ delayedListens \in Seq([h : Handles, v : Versions])
        /\ commands \in Seq([k : Kinds, h : Handles \cup {LifeCycle}, v : {0} \cup Versions])
        /\ events \in Seq(Kinds) /\ current \in {<<>>} \cup {<<k>> : k \in Kinds}
      BY <2>2, NumbersTyped
  <2>4. /\ children \in 0 .. MaxChildren /\ childrenCnfCount \in 0 .. MaxChildren
        /\ changes \in 0 .. MaxChanges /\ at \in Handles \cup {0}
        /\ walk \in Own \cup {NoWalk} /\ running \in Handles \cup {Nobody}
        /\ state \in {"INIT", "CTOR_FINISHED", "STARTED", "STOPPED"}
      BY <2>2, NumbersTyped
  <2>5. /\ listened \subseteq Kinds /\ left \subseteq Handles \cup {LifeCycle}
        /\ sent \subseteq Requests \cup {"OtherCnf"} /\ early \subseteq Handles
        /\ due \subseteq Handles /\ confirmed \subseteq Own
      BY <2>2
  <2>6. undefined \in BOOLEAN
      BY <2>2, Zenon
  <2> QED
      BY <2>1, <2>3, <2>4, <2>5, <2>6 DEF ListenTypeOK
<1>3. Wired
    BY <1>1, NumbersTyped DEF ListenInit, Wired, CommandsWired, CallbacksWired, ListsWired,
       DelayedWired, EventsWired, RunningWired, Constructing, CountBelow
<1> QED
    BY <1>2, <1>3 DEF KInv

-----------------------------------------------------------------------------
(***************************************************************************)
(* What is in force is what was asked for.                                 *)
(***************************************************************************)

(* The first and the last element of a sequence that is about a handle.    *)

About(s, h) == {i \in DOMAIN s : s[i].h = h}
First(s, h) == IF About(s, h) = {} THEN 0 ELSE s[Min(About(s, h))].v

LEMMA FirstFound ==
    ASSUME NEW S, NEW s \in Seq(S), NEW h, NEW i \in About(s, h), \A j \in About(s, h) : i <= j
    PROVE  First(s, h) = s[i].v
<1>1. About(s, h) \in SUBSET Nat /\ About(s, h) # {}
    BY DEF About
<1>2. Min(About(s, h)) \in About(s, h) /\ Min(About(s, h)) <= i
    BY <1>1, MinIs
<1>3. Min(About(s, h)) = i
    BY <1>1, <1>2
<1> QED
    BY <1>1, <1>3 DEF First

LEMMA FirstAppend ==
    ASSUME NEW S, NEW s \in Seq(S), NEW c \in S, NEW h
    PROVE  /\ About(s, h) # {} => First(Append(s, c), h) = First(s, h)
           /\ About(s, h) = {} /\ c.h = h => First(Append(s, c), h) = c.v
           /\ c.h # h => First(Append(s, c), h) = First(s, h)
<1> DEFINE t == Append(s, c)
           n == Len(s) + 1
<1>1. /\ DOMAIN s = 1 .. Len(s) /\ Len(s) \in Nat /\ DOMAIN t = 1 .. n /\ t \in Seq(S)
      /\ \A i \in 1 .. Len(s) : t[i] = s[i]
      /\ t[n] = c
    OBVIOUS
<1>2. /\ c.h = h => About(t, h) = About(s, h) \cup {n}
      /\ c.h # h => About(t, h) = About(s, h)
    BY <1>1 DEF About
<1>3. About(s, h) \subseteq 1 .. Len(s)
    BY <1>1 DEF About
<1> HIDE DEF t, n
<1>4. ASSUME About(s, h) # {}
      PROVE  First(t, h) = First(s, h)
  <2>1. PICK i \in About(s, h) : \A j \in About(s, h) : i <= j
    <3>1. About(s, h) \in SUBSET Nat
        BY <1>3
    <3> QED
        BY <1>4, <3>1, Least
  <2>2. First(s, h) = s[i].v
      BY <2>1, FirstFound
  <2>3. i \in About(t, h) /\ \A j \in About(t, h) : i <= j
      BY <1>1, <1>2, <1>3, <2>1 DEF n
  <2>4. First(t, h) = t[i].v
      BY <1>1, <2>3, FirstFound
  <2> QED
      BY <1>1, <1>3, <2>1, <2>2, <2>4
<1>5. ASSUME About(s, h) = {}, c.h = h
      PROVE  First(t, h) = c.v
  <2>1. n \in About(t, h) /\ \A j \in About(t, h) : n <= j
      BY <1>1, <1>2, <1>5 DEF n
  <2> QED
      BY <1>1, <2>1, FirstFound
<1>6. ASSUME About(s, h) = {}, c.h # h
      PROVE  First(t, h) = First(s, h)
    BY <1>2, <1>6 DEF First
<1> QED
    BY <1>4, <1>5, <1>6 DEF t

LEMMA LastFound ==
    ASSUME NEW S, NEW s \in Seq(S), NEW h, NEW x
    PROVE  /\ About(s, h) = {} => LastOf(s, h, x) = x
           /\ \A i \in About(s, h) :
                 (\A j \in About(s, h) : j <= i) => LastOf(s, h, x) = s[i].v
           /\ About(s, h) # {} => \E i \in About(s, h) : \A j \in About(s, h) : j <= i
<1>1. Len(s) \in Nat /\ About(s, h) \in SUBSET (0 .. Len(s))
    BY DEF About
<1>2. LastOf(s, h, x) = IF About(s, h) = {} THEN x ELSE s[Max(About(s, h))].v
    BY DEF LastOf, About
<1>3. About(s, h) # {} =>
         Max(About(s, h)) \in About(s, h) /\ \A j \in About(s, h) : Max(About(s, h)) >= j
    BY <1>1, MaxIs
<1>4. ASSUME NEW i \in About(s, h), \A j \in About(s, h) : j <= i
      PROVE  LastOf(s, h, x) = s[i].v
  <2>1. Max(About(s, h)) = i
      BY <1>1, <1>3, <1>4
  <2> QED
      BY <1>2, <2>1
<1>5. About(s, h) # {} => \E i \in About(s, h) : \A j \in About(s, h) : j <= i
    BY <1>1, <1>3
<1> QED
    BY <1>2, <1>4, <1>5

LEMMA LastAppend ==
    ASSUME NEW S, NEW s \in Seq(S), NEW c \in S, NEW h, NEW x
    PROVE  LastOf(Append(s, c), h, x) = IF c.h = h THEN c.v ELSE LastOf(s, h, x)
<1> DEFINE t == Append(s, c)
           n == Len(s) + 1
<1>1. /\ DOMAIN s = 1 .. Len(s) /\ Len(s) \in Nat /\ DOMAIN t = 1 .. n /\ t \in Seq(S)
      /\ \A i \in 1 .. Len(s) : t[i] = s[i]
      /\ t[n] = c
    OBVIOUS
<1>2. /\ c.h = h => About(t, h) = About(s, h) \cup {n}
      /\ c.h # h => About(t, h) = About(s, h)
      /\ About(s, h) \subseteq 1 .. Len(s)
    BY <1>1 DEF About
<1> HIDE DEF t, n
<1>3. ASSUME c.h = h
      PROVE  LastOf(t, h, x) = c.v
  <2>1. n \in About(t, h) /\ \A j \in About(t, h) : j <= n
      BY <1>1, <1>2, <1>3 DEF n
  <2>2. LastOf(t, h, x) = t[n].v
      BY <1>1, <2>1, LastFound
  <2> QED
      BY <1>1, <2>2
<1>4. ASSUME c.h # h, About(s, h) = {}
      PROVE  LastOf(t, h, x) = LastOf(s, h, x)
  <2>1. LastOf(t, h, x) = x
      BY <1>1, <1>2, <1>4, LastFound
  <2>2. LastOf(s, h, x) = x
      BY <1>4, LastFound
  <2> QED
      BY <2>1, <2>2
<1>5. ASSUME c.h # h, About(s, h) # {}
      PROVE  LastOf(t, h, x) = LastOf(s, h, x)
  <2>1. PICK i \in About(s, h) : \A j \in About(s, h) : j <= i
      BY <1>5, LastFound
  <2>2. LastOf(s, h, x) = s[i].v
      BY <2>1, LastFound
  <2>3. i \in About(t, h) /\ \A j \in About(t, h) : j <= i
      BY <1>2, <1>5, <2>1
  <2>4. LastOf(t, h, x) = t[i].v
    <3>1. t \in Seq(S)
        BY <1>1
    <3> QED
        BY <2>3, <3>1, LastFound
  <2> QED
      BY <1>1, <1>2, <2>2, <2>4
<1>6. LastOf(t, h, x) = IF c.h = h THEN c.v ELSE LastOf(s, h, x)
    BY <1>3, <1>4, <1>5
<1> QED
    BY <1>6 DEF t

LEMMA LastHead ==
    ASSUME NEW S, NEW s \in Seq(S), s # <<>>, NEW h, NEW x
    PROVE  LastOf(s, h, x) = LastOf(Tail(s), h, IF Head(s).h = h THEN Head(s).v ELSE x)
<1> DEFINE t == Tail(s)
           y == IF Head(s).h = h THEN Head(s).v ELSE x
<1>1. /\ t \in Seq(S)
      /\ DOMAIN s = 1 .. Len(s) /\ Len(s) \in Nat /\ Len(s) >= 1
      /\ DOMAIN t = 1 .. (Len(s) - 1)
      /\ \A i \in 1 .. (Len(s) - 1) : t[i] = s[i + 1]
      /\ s[1] = Head(s)
    OBVIOUS
<1> HIDE DEF t
<1>2. /\ \A i \in About(t, h) : i + 1 \in About(s, h) /\ i \in Nat
      /\ \A i \in About(s, h) : i \in Nat /\ (i = 1 \/ i - 1 \in About(t, h))
      /\ 1 \in About(s, h) <=> Head(s).h = h
    BY <1>1 DEF About
<1>3. CASE About(t, h) # {}
  <2>1. PICK i \in About(t, h) : \A j \in About(t, h) : j <= i
      BY <1>1, <1>3, LastFound
  <2>2. i + 1 \in About(s, h) /\ \A j \in About(s, h) : j <= i + 1
      BY <1>2, <2>1
  <2>3. LastOf(t, h, y) = t[i].v
      BY <1>1, <2>1, LastFound
  <2>4. LastOf(s, h, x) = s[i + 1].v
      BY <2>2, LastFound
  <2>5. t[i] = s[i + 1]
      BY <1>1, <2>1 DEF About
  <2> QED
      BY <2>3, <2>4, <2>5 DEF t
<1>4. CASE About(t, h) = {} /\ Head(s).h = h
  <2>1. 1 \in About(s, h) /\ \A j \in About(s, h) : j <= 1
      BY <1>2, <1>4
  <2>2. LastOf(s, h, x) = s[1].v
      BY <2>1, LastFound
  <2>3. LastOf(t, h, y) = y
      BY <1>1, <1>4, LastFound
  <2> QED
      BY <1>1, <1>4, <2>2, <2>3 DEF t
<1>5. CASE About(t, h) = {} /\ Head(s).h # h
  <2>1. About(s, h) = {}
      BY <1>2, <1>5
  <2>2. LastOf(s, h, x) = x /\ LastOf(t, h, y) = y
      BY <1>1, <1>5, <2>1, LastFound
  <2> QED
      BY <1>5, <2>2 DEF t
<1> QED
    BY <1>3, <1>4, <1>5

LEMMA LastConcat ==
    ASSUME NEW S, NEW s \in Seq(S), NEW t \in Seq(S), NEW h, NEW x
    PROVE  LastOf(s \o t, h, x) = LastOf(t, h, LastOf(s, h, x))
<1> DEFINE u == s \o t
           m == Len(s)
           n == Len(t)
<1>1. /\ u \in Seq(S) /\ m \in Nat /\ n \in Nat /\ DOMAIN s = 1 .. m /\ DOMAIN t = 1 .. n
      /\ DOMAIN u = 1 .. (m + n)
      /\ \A i \in 1 .. m : u[i] = s[i]
      /\ \A i \in 1 .. n : u[m + i] = t[i]
    BY ConcatIs
<1> HIDE DEF u, m, n
<1>0. \A e \in About(u, h) :
         (\A j \in About(u, h) : j <= e) => LastOf(u, h, x) = u[e].v
  <2> DEFINE w == u
  <2>1. w \in Seq(S)
      BY <1>1
  <2> HIDE DEF w
  <2>2. \A e \in About(w, h) :
           (\A j \in About(w, h) : j <= e) => LastOf(w, h, x) = w[e].v
      BY ONLY <2>1, LastFound
  <2> QED
      BY <2>2 DEF w
<1>2. /\ \A i \in About(s, h) : i \in 1 .. m /\ i \in About(u, h)
      /\ \A i \in About(t, h) : i \in 1 .. n /\ m + i \in About(u, h)
      /\ \A i \in About(u, h) :
            (i \in 1 .. m /\ i \in About(s, h)) \/ (i \in Nat /\ i > m /\ i - m \in About(t, h))
  <2>1. \A i \in 1 .. m : i \in 1 .. (m + n)
      BY <1>1
  <2>2. \A i \in 1 .. n : m + i \in 1 .. (m + n)
      BY <1>1
  <2>3. \A i \in 1 .. (m + n) : i \in 1 .. m \/ (i - m \in 1 .. n /\ i > m /\ m + (i - m) = i /\ i \in Nat)
      BY <1>1
  <2> QED
      BY <1>1, <2>1, <2>2, <2>3 DEF About
<1>3. CASE About(t, h) # {}
  <2>1. PICK i \in About(t, h) : \A j \in About(t, h) : j <= i
      BY <1>3, LastFound
  <2>2. m + i \in About(u, h) /\ \A j \in About(u, h) : j <= m + i
      BY <1>1, <1>2, <2>1
  <2>3. LastOf(u, h, x) = u[m + i].v
      BY <1>0, <2>2
  <2>4. LastOf(t, h, LastOf(s, h, x)) = t[i].v
      BY <2>1, LastFound
  <2> QED
      BY <1>1, <1>2, <2>3, <2>4 DEF u
<1>4. CASE About(t, h) = {} /\ About(s, h) # {}
  <2>1. PICK i \in About(s, h) : \A j \in About(s, h) : j <= i
      BY <1>4, LastFound
  <2>2. i \in About(u, h) /\ \A j \in About(u, h) : j <= i
      BY <1>2, <1>4, <2>1
  <2>3. LastOf(u, h, x) = u[i].v
      BY <1>0, <2>2
  <2>4. LastOf(s, h, x) = s[i].v
      BY <2>1, LastFound
  <2>5. LastOf(t, h, LastOf(s, h, x)) = LastOf(s, h, x)
      BY <1>4, LastFound
  <2> QED
      BY <1>1, <1>2, <2>2, <2>3, <2>4, <2>5 DEF u
<1>5. CASE About(t, h) = {} /\ About(s, h) = {}
  <2>1. About(u, h) = {}
      BY <1>2, <1>5
  <2>2. LastOf(u, h, x) = x /\ LastOf(s, h, x) = x /\ LastOf(t, h, x) = x
      BY <1>1, <1>5, <2>1, LastFound
  <2> QED
      BY <2>2 DEF u
<1> QED
    BY <1>3, <1>4, <1>5

\* What is in force, by the variables it is made of.
PortForce(d, q, cb, h) == LastOf(d, h, LastOf(q, h, In(cb, h)))

LEMMA InForceIs ==
    ASSUME NEW h
    PROVE  /\ kind[h] \notin Own =>
                 InForce(h) = PortForce(delayedListens, commands, callbacks[kind[h]], h)
           /\ kind[h] \in Own /\ state # "INIT" => InForce(h) = In(lists[kind[h]], h)
           /\ kind[h] \in Own /\ state = "INIT" => InForce(h) = First(delayedListens, h)
<1>1. In(Replayed(kind[h]), h) = First(delayedListens, h)
  <2>1. h \in DelayedFor(kind[h]) <=> About(delayedListens, h) # {}
      BY DEF DelayedFor, About
  <2>2. DOMAIN Replayed(kind[h]) = DelayedFor(kind[h])
      BY DEF Replayed
  <2>3. h \in DelayedFor(kind[h]) => Replayed(kind[h])[h] = delayedListens[FirstOf(h)].v
      BY DEF Replayed
  <2>4. FirstOf(h) = Min(About(delayedListens, h))
      BY DEF FirstOf, About
  <2> QED
      BY <2>1, <2>2, <2>3, <2>4 DEF In, First
<1> QED
    BY <1>1 DEF InForce, PortForce

LEMMA InForceWillBe ==
    ASSUME NEW CONSTANT h
    PROVE  /\ kind'[h] \notin Own =>
                 InForce(h)' = PortForce(delayedListens', commands', callbacks'[kind'[h]], h)
           /\ kind'[h] \in Own /\ state' # "INIT" => InForce(h)' = In(lists'[kind'[h]], h)
           /\ kind'[h] \in Own /\ state' = "INIT" => InForce(h)' = First(delayedListens', h)
<1>1. In(Replayed(kind[h]), h)' = First(delayedListens', h)
  <2>1. h \in DelayedFor(kind[h])' <=> About(delayedListens', h) # {}
      BY DEF DelayedFor, About
  <2>2. DOMAIN Replayed(kind[h])' = DelayedFor(kind[h])'
      BY DEF Replayed
  <2>3. h \in DelayedFor(kind[h])' => Replayed(kind[h])'[h] = delayedListens'[FirstOf(h)'].v
      BY DEF Replayed
  <2>4. FirstOf(h)' = Min(About(delayedListens', h))
      BY DEF FirstOf, About
  <2> QED
      BY <2>1, <2>2, <2>3, <2>4 DEF In, First
<1> QED
    BY <1>1 DEF InForce, PortForce

\* Only the constructor delays, and only listens to a confirmation.
LEMMA NoneDelayed ==
    ASSUME DelayedWired, Constructing, NEW h,
           state # "INIT" \/ h \notin Used \/ kind[h] \notin Confirmations
    PROVE  About(delayedListens, h) = {}
<1>1. \A i \in DOMAIN delayedListens : delayedListens[i] \in Delayed
    BY DEF DelayedWired
<1> QED
    BY <1>1 DEF Constructing, About, Delayed

LEMMA InChanged ==
    ASSUME NEW f, NEW h, NEW v
    PROVE  /\ h \in DOMAIN f => In(Insert(f, h, v), h) = f[h]
           /\ h \notin DOMAIN f => In(Insert(f, h, v), h) = v
           /\ In(Replace(f, h, v), h) = v
           /\ In(Erase(f, h), h) = 0
           /\ \A g : g # h => /\ In(Insert(f, h, v), g) = In(f, g)
                              /\ In(Replace(f, h, v), g) = In(f, g)
                              /\ In(Erase(f, h), g) = In(f, g)
BY DEF In, Insert, Replace, Erase

LEMMA SameForce ==
    ASSUME NEW CONSTANT h, kind'[h] = kind[h], state' = state,
           First(delayedListens', h) = First(delayedListens, h),
           \A x : LastOf(delayedListens', h, x) = LastOf(delayedListens, h, x),
           \A x : LastOf(commands', h, x) = LastOf(commands, h, x),
           kind[h] \in Own => In(lists'[kind[h]], h) = In(lists[kind[h]], h),
           In(callbacks'[kind[h]], h) = In(callbacks[kind[h]], h)
    PROVE  InForce(h)' = InForce(h)
BY InForceIs, InForceWillBe DEF PortForce

\* A listen or an unlisten is about one handle.
LEMMA OthersForce ==
    ASSUME ListenTypeOK, state' = state, callbacks' = callbacks,
           NEW CONSTANT h, kind'[h] = kind[h], NEW g \in Handles, g # h,
           NEW k \in UserKinds, NEW v \in Versions, listen(g, k, v) \/ unlisten(g, k)
    PROVE  InForce(h)' = InForce(h)
<1> DEFINE D == [h : Handles, v : Versions]
           C == [k : Kinds, h : Handles \cup {LifeCycle}, v : {0} \cup Versions]
<1>1. delayedListens \in Seq(D) /\ commands \in Seq(C) /\ lists \in [Own -> Lists] /\ k \in Kinds
    BY NumbersTyped DEF ListenTypeOK
<1>2. CASE /\ delayedListens' = Append(delayedListens, [h |-> g, v |-> v])
           /\ UNCHANGED <<lists, commands>>
  <2>1. PICK d \in D : d.h # h /\ delayedListens' = Append(delayedListens, d)
      BY <1>2
  <2> HIDE DEF D
  <2>2. First(delayedListens', h) = First(delayedListens, h)
      BY <1>1, <1>2, <2>1, FirstAppend
  <2>3. \A x : LastOf(delayedListens', h, x) = LastOf(delayedListens, h, x)
      BY <1>1, <1>2, <2>1, LastAppend
  <2> QED
      BY <1>2, <2>2, <2>3, SameForce
<1>3. CASE /\ \/ lists' = [lists EXCEPT ![k] = Insert(@, g, v)]
              \/ lists' = [lists EXCEPT ![k] = Erase(@, g)]
           /\ UNCHANGED <<delayedListens, commands>>
  <2>1. ASSUME kind[h] \in Own
        PROVE  In(lists'[kind[h]], h) = In(lists[kind[h]], h)
    <3>1. \/ lists'[kind[h]] = lists[kind[h]]
          \/ lists'[kind[h]] = Insert(lists[kind[h]], g, v)
          \/ lists'[kind[h]] = Erase(lists[kind[h]], g)
        BY <1>1, <1>3, <2>1
    <3> QED
        BY <3>1, InChanged
  <2> QED
      BY <1>3, <2>1, SameForce
<1>4. CASE /\ \E w \in {v, 0} : commands' = Append(commands, Command(k, g, w))
           /\ UNCHANGED <<delayedListens, lists>>
  <2>1. PICK c \in C : c.h # h /\ commands' = Append(commands, c)
    <3>1. \A w \in {v, 0} : Command(k, g, w) \in C /\ Command(k, g, w).h # h
        BY <1>1 DEF Command
    <3> QED
        BY <1>4, <3>1
  <2> HIDE DEF C
  <2>2. \A x : LastOf(commands', h, x) = LastOf(commands, h, x)
      BY <1>1, <2>1, LastAppend
  <2> QED
      BY <1>4, <2>2, SameForce
<1> QED
    BY <1>2, <1>3, <1>4 DEF listen, unlisten

\* The version a listen leaves in force: the own lists, and what is delayed for
\* them, keep an earlier one.
LEMMA ListenForce ==
    ASSUME ListenTypeOK, DelayedWired, Constructing, state' = state, callbacks' = callbacks,
           NEW CONSTANT h, h \in Handles, NEW k \in UserKinds, kind'[h] = k,
           h \notin Used \/ kind[h] = k, NEW v \in Versions, listen(h, k, v)
    PROVE  \/ InForce(h)' = v
           \/ k \in Own /\ state = "INIT" /\ About(delayedListens, h) # {}
              /\ InForce(h)' = First(delayedListens, h)
           \/ k \in Own /\ state # "INIT" /\ h \in DOMAIN lists[k] /\ InForce(h)' = lists[k][h]
<1> DEFINE D == [h : Handles, v : Versions]
           C == [k : Kinds, h : Handles \cup {LifeCycle}, v : {0} \cup Versions]
<1>1. delayedListens \in Seq(D) /\ commands \in Seq(C) /\ lists \in [Own -> Lists] /\ k \in Kinds
    BY NumbersTyped DEF ListenTypeOK
<1>2. CASE /\ IsDelayed(k)
           /\ delayedListens' = Append(delayedListens, [h |-> h, v |-> v])
           /\ UNCHANGED <<lists, commands>>
  <2>1. PICK d \in D : d.h = h /\ d.v = v /\ delayedListens' = Append(delayedListens, d)
      BY <1>2
  <2>2. state = "INIT"
      BY <1>2 DEF IsDelayed
  <2> HIDE DEF D
  <2>3. CASE k \notin Own
    <3>1. \A x : LastOf(delayedListens', h, x) = v
        BY <1>1, <2>1, LastAppend
    <3> QED
        BY <2>3, <3>1, InForceWillBe DEF PortForce
  <2>4. CASE k \in Own
    <3>1. InForce(h)' = First(delayedListens', h)
        BY <2>2, <2>4, InForceWillBe
    <3>2. About(delayedListens, h) # {} => First(delayedListens', h) = First(delayedListens, h)
        BY <1>1, <2>1, FirstAppend
    <3>3. About(delayedListens, h) = {} => First(delayedListens', h) = v
        BY <1>1, <2>1, FirstAppend
    <3> QED
        BY <2>2, <2>4, <3>1, <3>2, <3>3
  <2> QED
      BY <2>3, <2>4
<1>3. CASE /\ IsOwn(k)
           /\ lists' = [lists EXCEPT ![k] = Insert(@, h, v)]
           /\ UNCHANGED <<delayedListens, commands>>
  <2>1. k \in Own /\ state # "INIT"
      BY <1>3 DEF IsOwn
  <2>2. InForce(h)' = In(lists'[k], h)
      BY <2>1, InForceWillBe
  <2>3. lists'[k] = Insert(lists[k], h, v)
      BY <1>1, <1>3, <2>1
  <2> QED
      BY <2>1, <2>2, <2>3, InChanged
<1>4. CASE /\ ~IsDelayed(k) /\ ~IsOwn(k)
           /\ commands' = Append(commands, Command(k, h, v))
           /\ UNCHANGED <<delayedListens, lists>>
  <2>1. k \notin Own /\ (state # "INIT" \/ k \notin Confirmations)
      BY <1>4 DEF IsDelayed, IsOwn, Confirmations
  <2>2. About(delayedListens, h) = {}
      BY <2>1, NoneDelayed
  <2>3. PICK c \in C : c.h = h /\ c.v = v /\ commands' = Append(commands, c)
      BY <1>1, <1>4 DEF Command
  <2> HIDE DEF C, D
  <2>4. \A x : LastOf(commands', h, x) = v
      BY <1>1, <2>3, LastAppend
  <2>5. \A x : LastOf(delayedListens, h, x) = x
      BY <1>1, <2>2, LastFound
  <2> QED
      BY <1>4, <2>1, <2>4, <2>5, InForceWillBe DEF PortForce
<1> QED
    BY <1>2, <1>3, <1>4 DEF listen

LEMMA UnlistenForce ==
    ASSUME ListenTypeOK, DelayedWired, Constructing, state' = state, callbacks' = callbacks,
           NEW CONSTANT h, h \in Used, kind' = kind, ~IsDelayed(kind[h]), unlisten(h, kind[h])
    PROVE  InForce(h)' = 0
<1> DEFINE D == [h : Handles, v : Versions]
           C == [k : Kinds, h : Handles \cup {LifeCycle}, v : {0} \cup Versions]
<1>1. /\ delayedListens \in Seq(D) /\ commands \in Seq(C) /\ lists \in [Own -> Lists]
      /\ kind[h] \in Kinds /\ h \in Handles
    BY NumbersTyped, UsedTyped DEF ListenTypeOK
<1>2. CASE IsOwn(kind[h]) /\ lists' = [lists EXCEPT ![kind[h]] = Erase(@, h)]
  <2>1. kind[h] \in Own /\ state # "INIT"
      BY <1>2 DEF IsOwn
  <2>2. InForce(h)' = In(lists'[kind[h]], h)
      BY <2>1, InForceWillBe
  <2>3. lists'[kind[h]] = Erase(lists[kind[h]], h)
      BY <1>1, <1>2, <2>1
  <2> QED
      BY <2>2, <2>3 DEF In, Erase
<1>3. CASE /\ ~IsOwn(kind[h]) /\ UNCHANGED delayedListens
           /\ commands' = Append(commands, Command(kind[h], h, 0))
  <2>1. kind[h] \notin Own /\ (state # "INIT" \/ kind[h] \notin Confirmations)
      BY <1>3 DEF IsDelayed, IsOwn, Confirmations
  <2>2. About(delayedListens, h) = {}
      BY <2>1, NoneDelayed
  <2>3. PICK c \in C : c.h = h /\ c.v = 0 /\ commands' = Append(commands, c)
      BY <1>1, <1>3 DEF Command
  <2> HIDE DEF C, D
  <2>4. \A x : LastOf(commands', h, x) = 0
      BY <1>1, <2>3, LastAppend
  <2>5. \A x : LastOf(delayedListens, h, x) = x
      BY <1>1, <2>2, LastFound
  <2> QED
      BY <1>3, <2>1, <2>4, <2>5, InForceWillBe DEF PortForce
<1> QED
    BY <1>2, <1>3 DEF unlisten

\* What the user asked for, and how far the versions have come.
AsAsked(h) ==
    \/ InForce(h) = asked[h]
    \/ h \in early
    \/ kind[h] \in Own /\ 0 < InForce(h) /\ InForce(h) < asked[h]
Versioned ==
    /\ \A h \in Handles : asked[h] <= changes + 1
    /\ early \subseteq Used /\ \A h \in early : asked[h] = 0
    /\ \A k \in Own : \A h \in DOMAIN lists[k] : lists[k][h] <= changes + 1
    /\ \A i \in DOMAIN delayedListens : delayedListens[i].v <= changes + 1

AskedInv == KInv /\ Versioned /\ \A h \in Used : AsAsked(h)

LEMMA AskedIs ==
    ASSUME AskedInv
    PROVE  /\ ListenTypeOK /\ Wired /\ Versioned /\ ListensAsAsked
           /\ asked \in [Handles -> {0} \cup Versions] /\ changes \in 0 .. MaxChanges
BY DEF AskedInv, KInv, ListenTypeOK, ListensAsAsked, Used, AsAsked

\* The versions a list or a delayed listen may hold.
LEMMA VersionsIs ==
    ASSUME KInv, Versioned
    PROVE  /\ \A h : About(delayedListens, h) # {} =>
                        First(delayedListens, h) \in 1 .. changes + 1
           /\ \A k \in Own : \A h \in DOMAIN lists[k] : lists[k][h] \in 1 .. changes + 1
<1>1. /\ delayedListens \in Seq([h : Handles, v : Versions]) /\ lists \in [Own -> Lists]
      /\ changes \in Nat
    BY NumbersTyped DEF KInv, ListenTypeOK
<1>2. ASSUME NEW h, About(delayedListens, h) # {}
      PROVE  First(delayedListens, h) \in 1 .. changes + 1
  <2>1. About(delayedListens, h) \in SUBSET Nat
      BY <1>1 DEF About
  <2>2. PICK i \in About(delayedListens, h) : \A j \in About(delayedListens, h) : i <= j
      BY <1>2, <2>1, Least
  <2>3. First(delayedListens, h) = delayedListens[i].v
      BY <1>1, <2>2, FirstFound
  <2>4. delayedListens[i] \in [h : Handles, v : Versions] /\ i \in DOMAIN delayedListens
      BY <1>1, ElementTyped DEF About
  <2>5. delayedListens[i].v \in Versions /\ delayedListens[i].v <= changes + 1
      BY <2>4 DEF Versioned
  <2> QED
      BY <1>1, <2>3, <2>5, NumbersTyped DEF Versions
<1>3. ASSUME NEW k \in Own, NEW h \in DOMAIN lists[k]
      PROVE  lists[k][h] \in 1 .. changes + 1
  <2>1. lists[k] \in [DOMAIN lists[k] -> Versions]
    <3>1. lists[k] \in Lists
        BY <1>1
    <3> QED
        BY <3>1, ListsArePartial, PartialIs
  <2> QED
      BY <1>1, <2>1, NumbersTyped DEF Versioned, Versions
<1> QED
    BY <1>2, <1>3

\* One listen adds one version.
LEMMA VersionsKept ==
    ASSUME KInv, Versioned, NEW h \in Handles, NEW k \in UserKinds, NEW v \in Versions,
           v <= changes' + 1, changes <= changes', changes' \in Nat, listen(h, k, v)
    PROVE  /\ \A j \in Own : \A g \in DOMAIN lists'[j] : lists'[j][g] <= changes' + 1
           /\ \A i \in DOMAIN delayedListens' : delayedListens'[i].v <= changes' + 1
<1>1. /\ delayedListens \in Seq([h : Handles, v : Versions]) /\ lists \in [Own -> Lists]
      /\ changes \in Nat
    BY NumbersTyped DEF KInv, ListenTypeOK
<1>2. /\ \A j \in Own : \A g \in DOMAIN lists[j] : lists[j][g] <= changes' + 1
      /\ \A i \in DOMAIN delayedListens : delayedListens[i].v <= changes' + 1
  <2>1. ASSUME NEW i \in DOMAIN delayedListens
        PROVE  delayedListens[i].v \in Nat
    <3>1. delayedListens[i] \in [h : Handles, v : Versions]
        BY <1>1, ElementTyped
    <3> QED
        BY <3>1, NumbersTyped DEF Versions
  <2> QED
      BY <1>1, <2>1, VersionsIs DEF Versioned
<1>3. CASE delayedListens' = Append(delayedListens, [h |-> h, v |-> v]) /\ UNCHANGED lists
    BY <1>1, <1>2, <1>3
<1>4. CASE lists' = [lists EXCEPT ![k] = Insert(@, h, v)] /\ UNCHANGED delayedListens
  <2>1. ASSUME NEW j \in Own, NEW g \in DOMAIN lists'[j]
        PROVE  lists'[j][g] <= changes' + 1
    <3>1. \/ lists'[j] = lists[j]
          \/ j = k /\ lists'[j] = Insert(lists[j], h, v)
        BY <1>1, <1>4
    <3> QED
        BY <1>2, <2>1, <3>1 DEF Insert
  <2> QED
      BY <1>2, <1>4, <2>1
<1> QED
    BY <1>2, <1>3, <1>4 DEF listen

LEMMA VersionTyped ==
    ASSUME NEW n \in {0} \cup Versions
    PROVE  n \in Nat
BY NumbersTyped DEF Versions

LEMMA SameAsked ==
    ASSUME NEW CONSTANT h, AsAsked(h), InForce(h)' = InForce(h), asked'[h] = asked[h],
           h \in early => h \in early', kind'[h] = kind[h]
    PROVE  AsAsked(h)'
BY DEF AsAsked

LEMMA ListensNewAsked ==
    ASSUME AskedInv, NEW k \in UserKinds, ListensNew(k)
    PROVE  AskedInv'
<1>1. /\ KInv /\ ListenTypeOK /\ DelayedWired /\ ListsWired /\ Constructing /\ Versioned
      /\ asked \in [Handles -> {0} \cup Versions] /\ changes \in Nat
    BY AskedIs, NumbersTyped DEF AskedInv, Wired
<1>2. KInv'
    BY <1>1, ListensNewKept
<1>3. PICK h \in Handles : h = Len(kind) + 1 /\ h \notin Used /\ Used' = Used \cup {h} /\ kind'[h] = k
    BY <1>1, KindAppended
<1>4. /\ listen(h, k, 1) /\ 1 \in Versions /\ asked' = [asked EXCEPT ![h] = 1]
      /\ UNCHANGED <<state, callbacks, early, changes>>
    BY <1>3, NumbersTyped DEF ListensNew, portSide
<1>5. Versioned'
  <2>1. /\ \A j \in Own : \A g \in DOMAIN lists'[j] : lists'[j][g] <= changes' + 1
        /\ \A i \in DOMAIN delayedListens' : delayedListens'[i].v <= changes' + 1
      BY <1>1, <1>4, VersionsKept
  <2>2. /\ \A g \in Handles : asked'[g] <= changes' + 1
        /\ early' \subseteq Used' /\ \A g \in early' : asked'[g] = 0
    <3>1. \A g \in Handles : asked'[g] = IF g = h THEN 1 ELSE asked[g]
        BY <1>1, <1>4
    <3>2. early \subseteq Used /\ h \notin early /\ Used \subseteq Handles
        BY <1>1, <1>3, UsedTyped DEF Versioned
    <3> QED
        BY <1>1, <1>3, <1>4, <3>1, <3>2 DEF Versioned
  <2> QED
      BY <2>1, <2>2 DEF Versioned
<1>6. ASSUME NEW g \in Used'
      PROVE  AsAsked(g)'
  <2>1. CASE g = h
    <3>1. h \notin DOMAIN lists[k] \/ k \notin Own
        BY <1>1, <1>3 DEF ListsWired, OwnCallers
    <3>2. About(delayedListens, h) = {}
        BY <1>1, <1>3, NoneDelayed
    <3>3. InForce(h)' = 1
        BY <1>1, <1>3, <1>4, <3>1, <3>2, ListenForce
    <3>4. asked'[h] = 1
        BY <1>1, <1>4
    <3> QED
        BY <2>1, <3>3, <3>4 DEF AsAsked
  <2>2. CASE g # h
    <3>1. g \in Used /\ kind'[g] = kind[g] /\ asked'[g] = asked[g]
        BY <1>1, <1>3, <1>4, <2>2, KindAppended, UsedTyped DEF KindGrows
    <3>2. InForce(g)' = InForce(g)
        BY <1>1, <1>4, <2>2, <3>1, OthersForce
    <3> QED
        BY <1>4, <3>1, <3>2, SameAsked DEF AskedInv
  <2> QED
      BY <2>1, <2>2
<1> QED
    BY <1>2, <1>5, <1>6 DEF AskedInv

LEMMA AgainAsked ==
    ASSUME AskedInv, UserListensAgain
    PROVE  AskedInv'
<1>1. /\ KInv /\ ListenTypeOK /\ DelayedWired /\ Constructing /\ Versioned
      /\ asked \in [Handles -> {0} \cup Versions] /\ changes \in Nat
      /\ 0 \notin Versions /\ Versions \subseteq Nat
    BY AskedIs, NumbersTyped DEF AskedInv, Wired, Versions
<1>2. KInv'
    BY <1>1, AgainKept
<1>3. PICK h \in Used : /\ asked' = [asked EXCEPT ![h] = changes + 2]
                        /\ listen(h, kind[h], changes + 2)
                        /\ early' = early \ {h}
    BY DEF UserListensAgain, Used
<1>4. UNCHANGED <<state, callbacks, kind>> /\ changes' = changes + 1 /\ changes < MaxChanges
    BY DEF UserListensAgain
<1>5. /\ Used' = Used /\ h \in Handles /\ kind[h] \in UserKinds
      /\ changes + 2 \in Versions /\ changes' \in Nat
    BY <1>1, <1>4, UsedTyped, SameKind, NumbersTyped DEF Versions
<1>6. Versioned'
  <2>1. /\ \A j \in Own : \A g \in DOMAIN lists'[j] : lists'[j][g] <= changes' + 1
        /\ \A i \in DOMAIN delayedListens' : delayedListens'[i].v <= changes' + 1
    <3>1. changes + 2 <= changes' + 1 /\ changes <= changes'
        BY <1>1, <1>4
    <3> QED
        BY <1>1, <1>3, <1>5, <3>1, VersionsKept
  <2>2. /\ \A g \in Handles : asked'[g] <= changes' + 1
        /\ early' \subseteq Used' /\ \A g \in early' : asked'[g] = 0
    <3>1. \A g \in Handles : asked'[g] = IF g = h THEN changes + 2 ELSE asked[g]
        BY <1>1, <1>3
    <3>2. ASSUME NEW g \in Handles
          PROVE  asked[g] \in Nat /\ asked[g] <= changes + 1
      <4>1. asked[g] \in {0} \cup Versions
          BY <1>1
      <4>2. asked[g] <= changes + 1
          BY <1>1 DEF Versioned
      <4> QED
          BY <4>1, <4>2, VersionTyped
    <3>3. early \subseteq Used /\ Used \subseteq Handles /\ \A g \in early : asked[g] = 0
        BY <1>1, UsedTyped DEF Versioned
    <3> QED
        BY <1>1, <1>3, <1>4, <1>5, <3>1, <3>2, <3>3
  <2> QED
      BY <2>1, <2>2 DEF Versioned
<1>7. ASSUME NEW g \in Used'
      PROVE  AsAsked(g)'
  <2>1. CASE g = h
    <3>1. asked'[h] = changes + 2
        BY <1>1, <1>3, <1>5
    <3>2. \/ InForce(h)' = changes + 2
          \/ kind[h] \in Own /\ InForce(h)' \in 1 .. changes + 1
        BY <1>1, <1>3, <1>4, <1>5, ListenForce, VersionsIs
    <3>3. InForce(h)' \in 1 .. changes + 1 => 0 < InForce(h)' /\ InForce(h)' < changes + 2
        BY <1>1
    <3> QED
        BY <1>4, <2>1, <3>1, <3>2, <3>3 DEF AsAsked
  <2>2. CASE g # h
    <3>1. g \in Used /\ kind'[g] = kind[g] /\ asked'[g] = asked[g] /\ (g \in early => g \in early')
        BY <1>1, <1>3, <1>4, <1>5, <2>2, UsedTyped
    <3>2. InForce(g)' = InForce(g)
        BY <1>1, <1>3, <1>4, <1>5, <2>2, <3>1, OthersForce
    <3> QED
        BY <3>1, <3>2, SameAsked DEF AskedInv
  <2> QED
      BY <2>1, <2>2
<1> QED
    BY <1>2, <1>6, <1>7 DEF AskedInv

LEMMA UnlistensAsked ==
    ASSUME AskedInv, UserUnlistens
    PROVE  AskedInv'
<1>1. /\ KInv /\ ListenTypeOK /\ DelayedWired /\ Constructing /\ Versioned
      /\ asked \in [Handles -> {0} \cup Versions] /\ changes \in Nat /\ Versions \subseteq Nat
      /\ lists \in [Own -> Lists] /\ 1 \in Versions
  <2>1. KInv /\ ListenTypeOK /\ DelayedWired /\ Constructing /\ Versioned
      BY AskedIs DEF AskedInv, Wired
  <2>2. asked \in [Handles -> {0} \cup Versions] /\ changes \in Nat /\ lists \in [Own -> Lists]
      BY <2>1 DEF ListenTypeOK
  <2>3. Versions \subseteq Nat /\ 1 \in Versions
      BY NumbersTyped DEF Versions
  <2> QED
      BY <2>1, <2>2, <2>3
<1>2. KInv'
    BY <1>1, UnlistenKept
<1>3. PICK h \in Used : /\ asked' = [asked EXCEPT ![h] = 0]
                        /\ early' = IF IsDelayed(kind[h]) THEN early \cup {h} ELSE early
                        /\ unlisten(h, kind[h])
    BY DEF UserUnlistens, Used
<1>4. UNCHANGED <<state, callbacks, kind, delayedListens>> /\ changes' = changes + 1
    BY <1>3 DEF UserUnlistens, unlisten
<1>5. Used' = Used /\ Used \subseteq Handles /\ h \in Handles /\ kind[h] \in UserKinds
    BY <1>1, <1>4, UsedTyped, SameKind
<1>6. Versioned'
  <2>1. /\ \A j \in Own : \A g \in DOMAIN lists'[j] : lists'[j][g] <= changes' + 1
        /\ \A i \in DOMAIN delayedListens' : delayedListens'[i].v <= changes' + 1
    <3>1. ASSUME NEW j \in Own, NEW g \in DOMAIN lists'[j]
          PROVE  g \in DOMAIN lists[j] /\ lists'[j][g] = lists[j][g]
      <4>1. lists'[j] = lists[j] \/ lists'[j] = Erase(lists[j], h)
          BY <1>1, <1>3 DEF unlisten
      <4> QED
          BY <3>1, <4>1 DEF Erase
    <3>2. \A j \in Own : \A g \in DOMAIN lists[j] : lists[j][g] <= changes' + 1
        BY <1>1, <1>4, VersionsIs
    <3>3. ASSUME NEW i \in DOMAIN delayedListens
          PROVE  delayedListens[i].v <= changes' + 1
      <4>1. delayedListens[i] \in [h : Handles, v : Versions]
          BY <1>1, ElementTyped DEF ListenTypeOK
      <4>2. delayedListens[i].v \in Nat /\ delayedListens[i].v <= changes + 1
          BY <1>1, <4>1 DEF Versioned
      <4> QED
          BY <1>1, <1>4, <4>2
    <3> QED
        BY <1>4, <3>1, <3>2, <3>3
  <2>2. /\ \A g \in Handles : asked'[g] <= changes' + 1
        /\ early' \subseteq Used' /\ \A g \in early' : asked'[g] = 0
    <3>1. \A g \in Handles : asked'[g] = IF g = h THEN 0 ELSE asked[g]
        BY <1>1, <1>3
    <3>2. ASSUME NEW g \in Handles
          PROVE  asked[g] \in Nat /\ asked[g] <= changes + 1
      <4>1. asked[g] \in {0} \cup Versions
          BY <1>1
      <4>2. asked[g] <= changes + 1
          BY <1>1 DEF Versioned
      <4> QED
          BY <4>1, <4>2, VersionTyped
    <3>3. early' \subseteq early \cup {h} /\ early \subseteq Used /\ \A g \in early : asked[g] = 0
        BY <1>1, <1>3 DEF Versioned
    <3> QED
        BY <1>1, <1>4, <1>5, <3>1, <3>2, <3>3
  <2> QED
      BY <2>1, <2>2 DEF Versioned
<1>7. ASSUME NEW g \in Used'
      PROVE  AsAsked(g)'
  <2>1. CASE g = h /\ IsDelayed(kind[h])
      BY <1>3, <2>1 DEF AsAsked
  <2>2. CASE g = h /\ ~IsDelayed(kind[h])
    <3>1. InForce(h)' = 0
        BY <1>1, <1>3, <1>4, <1>5, <2>2, UnlistenForce
    <3>2. asked'[h] = 0
        BY <1>1, <1>3, <1>5
    <3> QED
        BY <2>2, <3>1, <3>2 DEF AsAsked
  <2>3. CASE g # h
    <3>1. g \in Used /\ kind'[g] = kind[g] /\ asked'[g] = asked[g] /\ (g \in early => g \in early')
        BY <1>1, <1>3, <1>4, <1>5, <2>3
    <3>2. InForce(g)' = InForce(g)
        BY <1>1, <1>3, <1>4, <1>5, <2>3, <3>1, OthersForce
    <3> QED
        BY <3>1, <3>2, SameAsked DEF AskedInv
  <2> QED
      BY <2>1, <2>2, <2>3
<1> QED
    BY <1>2, <1>6, <1>7 DEF AskedInv

\* The delayed listens up to one of them.
LEMMA UpTo ==
    ASSUME NEW S, NEW s \in Seq(S)
    PROVE  /\ SubSeq(s, 1, 0) = <<>> /\ SubSeq(s, 1, Len(s)) = s
           /\ \A i \in 1 .. Len(s) : /\ SubSeq(s, 1, i - 1) \in Seq(S) /\ s[i] \in S
                                     /\ SubSeq(s, 1, i) = Append(SubSeq(s, 1, i - 1), s[i])
<1>1. SubSeq(s, 1, 0) = <<>> /\ SubSeq(s, 1, Len(s)) = s
    OBVIOUS
<1>2. ASSUME NEW i \in 1 .. Len(s)
      PROVE  /\ SubSeq(s, 1, i - 1) \in Seq(S) /\ s[i] \in S
             /\ SubSeq(s, 1, i) = Append(SubSeq(s, 1, i - 1), s[i])
  <2>1. SubSeq(s, 1, i - 1) \in Seq(S) /\ s[i] \in S /\ SubSeq(s, 1, i) \in Seq(S)
      OBVIOUS
  <2>2. SubSeq(s, 1, i) = Append(SubSeq(s, 1, i - 1), s[i])
      OBVIOUS
  <2> QED
      BY <2>1, <2>2
<1> QED
    BY <1>1, <1>2

\* What goes to the port is what was delayed, without the own confirmations.
LEMMA ReplayedLast ==
    ASSUME ListenTypeOK, DelayedWired, NEW CONSTANT h, kind[h] \notin Own
    PROVE  \A x : LastOf(ReplayedToPort, h, x) = LastOf(delayedListens, h, x)
<1> DEFINE n == Len(delayedListens)
<1>1. PICK port \in [0 .. n -> Seq(Commands)] :
          /\ port[0] = <<>>
          /\ \A i \in 1 .. n : port[i] = IF kind[delayedListens[i].h] \in Own THEN port[i - 1]
                                         ELSE Append(port[i - 1], DelayedCommand(i))
          /\ ReplayedToPort = port[n]
    BY ReplayIs
<1>2. delayedListens \in Seq(Delayed) /\ n \in Nat
    BY DEF DelayedWired
<1> DEFINE upto(i) == SubSeq(delayedListens, 1, i)
           T == {i \in Nat : i <= n => \A x : LastOf(port[i], h, x) = LastOf(upto(i), h, x)}
<1>3. /\ upto(0) = <<>> /\ upto(n) = delayedListens
      /\ \A i \in 1 .. n : /\ upto(i - 1) \in Seq(Delayed) /\ delayedListens[i] \in Delayed
                           /\ upto(i) = Append(upto(i - 1), delayedListens[i])
    BY <1>2, UpTo
<1> HIDE DEF n, upto
<1>4. 0 \in T
    BY <1>1, <1>3
<1>5. ASSUME NEW i \in Nat, i \in T
      PROVE  i + 1 \in T
  <2> SUFFICES ASSUME i + 1 <= n, NEW x
               PROVE  LastOf(port[i + 1], h, x) = LastOf(upto(i + 1), h, x)
      OBVIOUS
  <2> DEFINE d == delayedListens[i + 1]
  <2>1. i + 1 \in 1 .. n /\ (i + 1) - 1 = i /\ i <= n /\ i \in 0 .. n
      BY <1>2
  <2>2. /\ upto(i) \in Seq(Delayed) /\ d \in Delayed /\ upto(i + 1) = Append(upto(i), d)
        /\ port[i] \in Seq(Commands)
        /\ port[i + 1] = IF kind[d.h] \in Own THEN port[i] ELSE Append(port[i], DelayedCommand(i + 1))
      BY <1>1, <1>3, <2>1
  <2>3. LastOf(port[i], h, x) = LastOf(upto(i), h, x)
      BY <1>5, <2>1
  <2>4. LastOf(upto(i + 1), h, x) = IF d.h = h THEN d.v ELSE LastOf(upto(i), h, x)
    <3>1. \A q \in Seq(Delayed), c \in Delayed :
             LastOf(Append(q, c), h, x) = IF c.h = h THEN c.v ELSE LastOf(q, h, x)
        BY LastAppend
    <3>2. LastOf(Append(upto(i), d), h, x) = IF d.h = h THEN d.v ELSE LastOf(upto(i), h, x)
      <4> HIDE DEF d
      <4> QED
          BY <2>2, <3>1
    <3> QED
        BY <2>2, <3>2
  <2>5. CASE kind[d.h] \in Own
      BY <2>2, <2>3, <2>4, <2>5
  <2>6. CASE kind[d.h] \notin Own
    <3>1. PICK c \in Commands : c.h = d.h /\ c.v = d.v /\ c = DelayedCommand(i + 1)
      <4>1. d \in [h : Handles, v : Versions] /\ d.h \in Used /\ kind[d.h] \in Confirmations
          BY <2>2 DEF Delayed
      <4>2. DelayedCommand(i + 1) \in Commands
          BY <2>6, <4>1, NumbersTyped, UsedTyped DEF DelayedCommand, Command, Commands
      <4>3. DelayedCommand(i + 1).h = d.h /\ DelayedCommand(i + 1).v = d.v
          BY DEF DelayedCommand, Command
      <4> QED
          BY <4>2, <4>3
    <3>2. port[i + 1] = Append(port[i], c)
        BY <2>2, <2>6, <3>1
    <3> HIDE DEF d
    <3>3. LastOf(port[i + 1], h, x) = IF d.h = h THEN d.v ELSE LastOf(port[i], h, x)
        BY <2>2, <3>1, <3>2, LastAppend
    <3> QED
        BY <2>3, <2>4, <3>3
  <2> QED
      BY <2>5, <2>6
<1>6. Nat \subseteq T
  <2> HIDE DEF T
  <2> QED
      BY <1>4, <1>5, Induction
<1>7. \A x : LastOf(port[n], h, x) = LastOf(upto(n), h, x)
    BY <1>2, <1>6
<1> QED
    BY <1>1, <1>3, <1>7

LEMMA NewChildAsked ==
    ASSUME AskedInv, NewChild
    PROVE  AskedInv'
<1> DEFINE C == [k : Kinds, h : Handles \cup {LifeCycle}, v : {0} \cup Versions]
<1>1. KInv /\ ListenTypeOK /\ Versioned /\ commands \in Seq(C)
    BY AskedIs DEF AskedInv, ListenTypeOK
<1>2. KInv'
    BY <1>1, NewChildKept
<1>3. /\ UNCHANGED <<state, delayedListens, lists, callbacks, kind, asked, early, changes>>
      /\ commands' = commands \o <<Command("PrivStartCnf", LifeCycle, 1),
                                   Command("PrivStopCnf", LifeCycle, 1)>>
    BY DEF NewChild, userVars
<1>4. Versioned' /\ Used' = Used
    BY <1>1, <1>3 DEF Versioned, Used
<1>5. ASSUME NEW h \in Used
      PROVE  AsAsked(h)'
  <2>1. h # LifeCycle
      BY <1>1, UsedTyped
  <2>2. PICK c \in C, d \in C : /\ c.h = LifeCycle /\ d.h = LifeCycle
                               /\ commands' = Append(Append(commands, c), d)
    <3>1. \A k \in FromChild : Command(k, LifeCycle, 1) \in C /\ Command(k, LifeCycle, 1).h = LifeCycle
        BY NumbersTyped DEF Command
    <3> DEFINE c == Command("PrivStartCnf", LifeCycle, 1)
               d == Command("PrivStopCnf", LifeCycle, 1)
    <3>2. /\ c \in C /\ d \in C /\ c.h = LifeCycle /\ d.h = LifeCycle
          /\ commands' = commands \o <<c, d>>
        BY <1>3, <3>1 DEF FromChild
    <3> HIDE DEF c, d, C
    <3>3. commands \o <<c, d>> = Append(Append(commands, c), d)
        BY <1>1, <3>2
    <3> QED
        BY <3>2, <3>3
  <2> HIDE DEF C
  <2> DEFINE q == Append(commands, c)
  <2>3. q \in Seq(C) /\ commands' = Append(q, d)
      BY <1>1, <2>2
  <2>4. ASSUME NEW x
        PROVE  LastOf(commands', h, x) = LastOf(commands, h, x)
    <3>1. LastOf(q, h, x) = LastOf(commands, h, x)
        BY <1>1, <2>1, <2>2, LastAppend
    <3> HIDE DEF q
    <3>2. LastOf(Append(q, d), h, x) = LastOf(q, h, x)
        BY <2>1, <2>2, <2>3, LastAppend
    <3> QED
        BY <2>3, <3>1, <3>2
  <2>5. InForce(h)' = InForce(h)
      BY <1>3, <2>4, SameForce
  <2> QED
      BY <1>3, <2>5, SameAsked DEF AskedInv
<1> QED
    BY <1>2, <1>4, <1>5 DEF AskedInv

LEMMA ConstructedForce ==
    ASSUME KInv, ActorLifeCycle, NEW CONSTANT h, h \in Used
    PROVE  InForce(h)' = InForce(h)
<1>1. /\ ListenTypeOK /\ DelayedWired /\ state = "INIT" /\ state' # "INIT"
      /\ UNCHANGED <<kind, callbacks>> /\ kind[h] \in UserKinds
      /\ delayedListens' = <<>> /\ lists' = [k \in Own |-> Replayed(k)]
      /\ commands' = commands \o ReplayedToPort \o <<Command("StartReq", LifeCycle, 1),
                                                     Command("StopReq", LifeCycle, 1)>>
    BY UsedTyped DEF KInv, Wired, ActorLifeCycle, userVars
<1>2. CASE kind[h] \in Own
  <2>1. InForce(h)' = In(lists'[kind[h]], h)
      BY <1>1, <1>2, InForceWillBe
  <2>2. InForce(h) = In(Replayed(kind[h]), h)
      BY <1>1, <1>2 DEF InForce
  <2> QED
      BY <1>1, <1>2, <2>1, <2>2
<1>3. CASE kind[h] \notin Own
  <2> DEFINE lc == <<Command("StartReq", LifeCycle, 1), Command("StopReq", LifeCycle, 1)>>
             x == In(callbacks[kind[h]], h)
             q == commands \o ReplayedToPort
  <2>1. /\ commands \in Seq(Commands) /\ ReplayedToPort \in Seq(Commands) /\ q \in Seq(Commands)
        /\ lc \in Seq(Commands)
    <3>1. commands \in Seq(Commands)
        BY DEF KInv, Wired, CommandsWired
    <3>2. ReplayedToPort \in Seq(Commands)
      <4>1. Len(delayedListens) \in 0 .. Len(delayedListens)
          BY <1>1 DEF DelayedWired
      <4> QED
          BY <1>1, <4>1, ReplayIs
    <3>3. \A k \in Requests : Command(k, LifeCycle, 1) \in Commands
        BY NumbersTyped DEF Command, Commands, Served
    <3> QED
        BY <3>1, <3>2, <3>3, ConcatProperties DEF Requests
  <2>2. \A y : LastOf(lc, h, y) = y
    <3>1. About(lc, h) = {}
        BY <1>1, UsedTyped DEF About, Command
    <3> HIDE DEF lc
    <3> QED
        BY <2>1, <3>1, LastFound
  <2> HIDE DEF lc
  <2>3. LastOf(q \o lc, h, x) = LastOf(q, h, x)
    <3> HIDE DEF q, x
    <3> QED
        BY <2>1, <2>2, LastConcat
  <2>4. LastOf(q, h, x) = LastOf(ReplayedToPort, h, LastOf(commands, h, x))
    <3> HIDE DEF x
    <3> QED
        BY <2>1, LastConcat
  <2>5. LastOf(q, h, x) = LastOf(delayedListens, h, LastOf(commands, h, x))
    <3> HIDE DEF q, x
    <3> QED
        BY <1>1, <1>3, <2>4, ReplayedLast
  <2>6. InForce(h) = LastOf(q, h, x)
      BY <1>3, <2>5, InForceIs DEF PortForce
  <2>7. InForce(h)' = LastOf(<<>>, h, LastOf(q \o lc, h, x))
      BY <1>1, <1>3, InForceWillBe DEF PortForce, lc
  <2>8. \A y : LastOf(<<>>, h, y) = y
    <3>1. <<>> \in Seq(Commands) /\ About(<<>>, h) = {}
        BY DEF About
    <3> QED
        BY <3>1, LastFound
  <2> QED
      BY <2>3, <2>6, <2>7, <2>8
<1> QED
    BY <1>2, <1>3

LEMMA ConstructedAsked ==
    ASSUME AskedInv, ActorLifeCycle
    PROVE  AskedInv'
<1>1. KInv /\ ListenTypeOK /\ DelayedWired /\ Versioned
    BY AskedIs DEF AskedInv, Wired
<1>2. KInv'
    BY <1>1, ActorLifeCycleKept
<1>3. /\ UNCHANGED <<kind, asked, early, changes>> /\ delayedListens' = <<>>
      /\ lists' = [k \in Own |-> Replayed(k)]
    BY DEF ActorLifeCycle, userVars
<1>4. ASSUME NEW k \in Own, NEW h \in DOMAIN lists'[k]
      PROVE  lists'[k][h] <= changes' + 1
  <2>1. h \in DelayedFor(k) /\ lists'[k][h] = delayedListens[FirstOf(h)].v
      BY <1>3, <1>4 DEF Replayed
  <2>2. PICK i \in DOMAIN delayedListens : delayedListens[i].h = h
      BY <2>1 DEF DelayedFor
  <2>3. FirstOf(h) \in DOMAIN delayedListens
      BY <1>1, <2>2, FirstIs
  <2> QED
      BY <1>1, <1>3, <2>1, <2>3 DEF Versioned
<1>5. Versioned' /\ Used' = Used
    BY <1>1, <1>3, <1>4 DEF Versioned, Used
<1>6. ASSUME NEW h \in Used
      PROVE  AsAsked(h)'
    BY <1>1, <1>3, ConstructedForce, SameAsked DEF AskedInv
<1> QED
    BY <1>2, <1>5, <1>6 DEF AskedInv

LEMMA CommandForce ==
    ASSUME KInv, processCommands, NEW CONSTANT h, h \in Used
    PROVE  InForce(h)' = InForce(h)
<1> DEFINE c == Head(commands)
<1>1. /\ ListenTypeOK /\ CommandsWired /\ CallbacksWired /\ state # "INIT"
      /\ UNCHANGED <<state, kind, delayedListens, lists>> /\ commands # <<>>
      /\ commands' = Tail(commands) /\ commands \in Seq(Commands) /\ h # LifeCycle
    BY UsedTyped DEF KInv, Wired, CommandsWired, processCommands, Idle, userVars
<1>2. CASE kind[h] \in Own
    BY <1>1, <1>2, InForceIs, InForceWillBe
<1>3. CASE kind[h] \notin Own
  <2>1. /\ c \in Commands /\ c.k \in Kinds /\ callbacks \in [Kinds -> PortLists]
        /\ kind[h] \in Kinds
        /\ \/ c.v = 0 /\ callbacks' = [callbacks EXCEPT ![c.k] = Erase(@, c.h)]
           \/ callbacks' = [callbacks EXCEPT ![c.k] = Replace(@, c.h, c.v)]
    <3>1. kind[h] \in Kinds
        BY <1>1, UsedTyped, NumbersTyped
    <3> HIDE DEF c
    <3> QED
        BY <1>1, <3>1, CommandDone DEF c
  <2>2. c.h = h => c.k = kind[h]
      BY <1>1, <2>1 DEF Commands
  <2> HIDE DEF c
  <2>3. In(callbacks'[kind[h]], h) = IF c.h = h THEN c.v ELSE In(callbacks[kind[h]], h)
    <3>1. CASE c.h = h
      <4>1. \/ c.v = 0 /\ callbacks'[kind[h]] = Erase(callbacks[kind[h]], h)
            \/ callbacks'[kind[h]] = Replace(callbacks[kind[h]], h, c.v)
          BY <2>1, <2>2, <3>1
      <4> QED
          BY <3>1, <4>1 DEF In, Erase, Replace
    <3>2. CASE c.h # h
      <4>1. \/ callbacks'[kind[h]] = callbacks[kind[h]]
            \/ callbacks'[kind[h]] = Erase(callbacks[kind[h]], c.h)
            \/ callbacks'[kind[h]] = Replace(callbacks[kind[h]], c.h, c.v)
          BY <2>1
      <4> QED
          BY <3>2, <4>1 DEF In, Erase, Replace
    <3> QED
        BY <3>1, <3>2
  <2>4. LastOf(commands, h, In(callbacks[kind[h]], h))
        = LastOf(Tail(commands), h, In(callbacks'[kind[h]], h))
    <3> DEFINE x == In(callbacks[kind[h]], h)
    <3>1. LastOf(commands, h, x) =
              LastOf(Tail(commands), h, IF Head(commands).h = h THEN Head(commands).v ELSE x)
      <4> HIDE DEF x
      <4> QED
          BY <1>1, LastHead
    <3> QED
        BY <2>3, <3>1 DEF c
  <2> QED
      BY <1>1, <1>3, <2>4, InForceIs, InForceWillBe DEF PortForce
<1> QED
    BY <1>2, <1>3

LEMMA CommandAsked ==
    ASSUME AskedInv, processCommands
    PROVE  AskedInv'
<1>1. /\ KInv /\ KInv' /\ Versioned
      /\ UNCHANGED <<kind, asked, early, changes, lists, delayedListens>>
    BY CommandKept DEF AskedInv, processCommands, userVars
<1>2. Versioned' /\ Used' = Used
    BY <1>1 DEF Versioned, Used
<1>3. ASSUME NEW h \in Used
      PROVE  AsAsked(h)'
    BY <1>1, CommandForce, SameAsked DEF AskedInv
<1> QED
    BY <1>1, <1>2, <1>3 DEF AskedInv

LEMMA ListeningAsked ==
    ASSUME AskedInv, KInv', UNCHANGED listening, (state # "INIT" /\ state' # "INIT") \/ UNCHANGED state
    PROVE  AskedInv'
<1>1. /\ KInv /\ Versioned
      /\ UNCHANGED <<kind, asked, early, changes, lists, delayedListens, commands, callbacks>>
    BY DEF AskedInv, listening, portVars
<1>2. Versioned' /\ Used' = Used
    BY <1>1 DEF Versioned, Used
<1>3. ASSUME NEW h \in Used
      PROVE  AsAsked(h)'
  <2>1. InForce(h)' = InForce(h)
      BY <1>1, InForceIs, InForceWillBe
  <2> QED
      BY <1>1, <1>3, <2>1, SameAsked DEF AskedInv
<1> QED
    BY <1>1, <1>2, <1>3 DEF AskedInv

\* The steps that only move messages and callbacks.
Moves == \/ takeEvent \/ eventDone \/ callUser \/ userReturns
         \/ callRequest \/ callChildCnf \/ callOwn \/ publishCnf
         \/ othersPublish \/ childConfirms

LEMMA MovesIs ==
    ASSUME KInv, Moves
    PROVE  /\ KInv' /\ UNCHANGED <<listening, undefined>>
           /\ state # "INIT" /\ state' # "INIT"
<1>1. KInv'
    BY TakeKept, EventDoneKept, CallUserKept, ReturnKept, RequestKept, ChildCnfKept,
       CallOwnKept, PublishKept, OthersKept, ChildKept DEF Moves
<1>2. UNCHANGED listening /\ UNCHANGED undefined
    BY DEF Moves, takeEvent, eventDone, callUser, userReturns, callRequest, callChildCnf, callOwn,
           publishCnf, othersPublish, childConfirms, listening, userVars
<1>3. state # "INIT"
  <2>1. CASE takeEvent \/ eventDone \/ callUser \/ userReturns \/ callRequest \/ callChildCnf
             \/ callOwn \/ publishCnf
    <3>1. takeEvent => state # "INIT"
        BY DEF takeEvent, Idle
    <3>2. ~takeEvent => current # <<>> \/ walk # NoWalk \/ running # Nobody
        BY <2>1 DEF eventDone, callUser, userReturns, callRequest, callChildCnf, callOwn, publishCnf, MayCall
    <3> QED
        BY <3>1, <3>2, BusyIsBuilt
  <2>2. CASE othersPublish
      BY <2>2 DEF othersPublish, MaySend, Requests, Consumed, KInv, Wired, Constructing
  <2>3. CASE childConfirms
      BY <2>3 DEF childConfirms, KInv, Wired, Constructing
  <2> QED
      BY <2>1, <2>2, <2>3 DEF Moves
<1>4. state' # "INIT"
  <2>1. CASE UNCHANGED state
      BY <1>3, <2>1
  <2>2. CASE callRequest
      BY <1>3, <2>2 DEF callRequest, StateInLeaf
  <2>3. CASE callChildCnf \/ publishCnf
      BY <1>3, <2>3 DEF callChildCnf, publishCnf
  <2> QED
      BY <2>1, <2>2, <2>3 DEF Moves, takeEvent, eventDone, callUser, userReturns, callOwn,
                              othersPublish, childConfirms
<1> QED
    BY <1>1, <1>2, <1>3, <1>4

LEMMA ListenNextIs ==
    ASSUME ListenNext
    PROVE  \/ NewChild \/ ActorLifeCycle \/ processCommands \/ Moves
           \/ UserListensAgain \/ UserUnlistens \/ \E k \in UserKinds : ListensNew(k)
BY UserListensNew DEF ListenNext, Constructs, User, Consumes, Moves

LEMMA ListenNextAsked ==
    ASSUME AskedInv, ListenNext
    PROVE  AskedInv'
<1>1. KInv
    BY DEF AskedInv
<1>2. ASSUME Moves
      PROVE  AskedInv'
    BY <1>1, <1>2, MovesIs, ListeningAsked
<1> QED
    BY <1>2, ListenNextIs, NewChildAsked, ConstructedAsked, CommandAsked, ListensNewAsked, AgainAsked,
       UnlistensAsked

LEMMA AskedInvStutters ==
    ASSUME AskedInv, UNCHANGED listenVars
    PROVE  AskedInv'
BY KInvStutters, ListeningAsked DEF AskedInv, listenVars, listening, userVars

LEMMA AskedInvInit ==
    ASSUME ListenInit
    PROVE  AskedInv
<1>1. /\ KInv /\ changes = 0 /\ asked = [h \in Handles |-> 0] /\ early = {} /\ delayedListens = <<>>
      /\ lists = [k \in Own |-> NoCallbacks] /\ kind = <<>>
    BY KInvInit DEF ListenInit
<1> QED
    BY <1>1 DEF AskedInv, Versioned, Used, NoCallbacks

-----------------------------------------------------------------------------
(***************************************************************************)
(* The life: one request after the other, each confirmed once.             *)
(***************************************************************************)

(* The life cycle's own listens reach the port before the first request.   *)

Connected(k) == k \in listened /\ LifeCycle \in DOMAIN callbacks[k]
Pending(k) == \E i \in DOMAIN commands : commands[i].k = k /\ commands[i].h = LifeCycle
Connecting ==
    /\ \A k \in Served : k \in FromChild \/ state # "INIT" => Connected(k) \/ Pending(k)
    /\ "StartReq" \in sent => \A k \in Served : Connected(k)

LEMMA PendingGrows ==
    ASSUME NEW S, NEW s \in Seq(S), commands \in Seq(S), commands' = commands \o s, NEW CONSTANT k
    PROVE  Pending(k) \/ (\E i \in DOMAIN s : s[i].k = k /\ s[i].h = LifeCycle) => Pending(k)'
<1>1. /\ DOMAIN commands = 1 .. Len(commands) /\ DOMAIN s = 1 .. Len(s)
      /\ Len(commands) \in Nat /\ Len(s) \in Nat
      /\ DOMAIN commands' = 1 .. (Len(commands) + Len(s))
      /\ \A i \in 1 .. Len(commands) : commands'[i] = commands[i]
      /\ \A i \in 1 .. Len(s) : commands'[Len(commands) + i] = s[i]
    BY ConcatIs
<1>2. ASSUME NEW i \in DOMAIN s, s[i].k = k, s[i].h = LifeCycle
      PROVE  Pending(k)'
  <2>1. Len(commands) + i \in DOMAIN commands'
      BY <1>1
  <2> QED
      BY <1>1, <1>2, <2>1 DEF Pending
<1>3. ASSUME NEW i \in DOMAIN commands, commands[i].k = k, commands[i].h = LifeCycle
      PROVE  Pending(k)'
  <2>1. i \in DOMAIN commands'
      BY <1>1
  <2> QED
      BY <1>1, <1>3, <2>1 DEF Pending
<1> QED
    BY <1>2, <1>3 DEF Pending

LEMMA ConnectingGrows ==
    ASSUME KInv, Connecting, NEW S, NEW s \in Seq(S), commands \in Seq(S),
           commands' = commands \o s,
           Served' = Served, UNCHANGED <<state, listened, callbacks, sent>>
    PROVE  Connecting'
<1>1. ASSUME NEW k \in Served, Pending(k)
      PROVE  Pending(k)'
    BY <1>1, PendingGrows
<1> QED
    BY <1>1 DEF Connecting, Connected

LEMMA ConnectingSame ==
    ASSUME Connecting, UNCHANGED listening,
           state # "INIT" \/ UNCHANGED state,
           "StartReq" \in sent' => "StartReq" \in sent
    PROVE  Connecting'
BY DEF Connecting, Connected, Pending, listening, portVars, Served

\* A listen or an unlisten of the user.
LEMMA ConnectingUser ==
    ASSUME KInv, Connecting, UNCHANGED <<state, children, listened, callbacks, sent>>,
           NEW h \in Handles, NEW k \in UserKinds, NEW v \in Versions,
           listen(h, k, v) \/ unlisten(h, k)
    PROVE  Connecting'
<1> DEFINE C == [k : Kinds, h : Handles \cup {LifeCycle}, v : {0} \cup Versions]
<1>1. commands \in Seq(C) /\ Served' = Served
    BY ServedKept DEF KInv, ListenTypeOK
<1>2. CASE UNCHANGED commands
    BY <1>1, <1>2 DEF Connecting, Connected, Pending
<1>3. CASE \E w \in {v, 0} : commands' = Append(commands, Command(k, h, w))
  <2>1. PICK c \in C : commands' = Append(commands, c)
    <3>1. \A w \in {v, 0} : Command(k, h, w) \in C
        BY NumbersTyped DEF Command
    <3> QED
        BY <1>3, <3>1
  <2> HIDE DEF C
  <2>2. commands' = commands \o <<c>> /\ <<c>> \in Seq(C)
      BY <1>1, <2>1, AppendIsConcat
  <2> QED
      BY <1>1, <2>2, ConnectingGrows
<1> QED
    BY <1>2, <1>3 DEF listen, unlisten

LEMMA ConnectingNewChild ==
    ASSUME KInv, Connecting, NewChild
    PROVE  Connecting'
<1> DEFINE C == [k : Kinds, h : Handles \cup {LifeCycle}, v : {0} \cup Versions]
           s == <<Command("PrivStartCnf", LifeCycle, 1), Command("PrivStopCnf", LifeCycle, 1)>>
<1>1. /\ commands \in Seq(C) /\ commands' = commands \o s /\ sent' = {} /\ state' = "INIT"
      /\ UNCHANGED <<callbacks, listened>>
    BY DEF KInv, ListenTypeOK, Wired, Constructing, NewChild, envVars
<1>2. /\ s \in Seq(C)
      /\ \A k \in FromChild : \E i \in DOMAIN s : s[i].k = k /\ s[i].h = LifeCycle
  <2>1. \A k \in FromChild : Command(k, LifeCycle, 1) \in C
      BY NumbersTyped DEF Command
  <2>2. s \in Seq(C)
      BY <2>1 DEF FromChild
  <2>3. DOMAIN s = 1 .. 2 /\ s[1].k = "PrivStartCnf" /\ s[2].k = "PrivStopCnf"
        /\ s[1].h = LifeCycle /\ s[2].h = LifeCycle
      BY DEF Command
  <2> QED
      BY <2>2, <2>3 DEF FromChild
<1> HIDE DEF s, C
<1>3. \A k \in FromChild : Pending(k)'
    BY <1>1, <1>2, PendingGrows
<1> QED
    BY <1>1, <1>3 DEF Connecting

LEMMA ConnectingConstructed ==
    ASSUME KInv, Connecting, ActorLifeCycle
    PROVE  Connecting'
<1> DEFINE lc == <<Command("StartReq", LifeCycle, 1), Command("StopReq", LifeCycle, 1)>>
           s == ReplayedToPort \o lc
<1>1. /\ commands \in Seq(Commands) /\ ReplayedToPort \in Seq(Commands) /\ sent' = {}
      /\ commands' = commands \o ReplayedToPort \o lc
      /\ UNCHANGED <<callbacks, listened, children>>
  <2>1. ReplayedToPort \in Seq(Commands)
    <3>1. ListenTypeOK /\ DelayedWired /\ Len(delayedListens) \in 0 .. Len(delayedListens)
        BY DEF KInv, Wired, DelayedWired
    <3> QED
        BY <3>1, ReplayIs
  <2>2. commands \in Seq(Commands) /\ state = "INIT" /\ sent = {}
      BY DEF KInv, Wired, CommandsWired, Constructing, ActorLifeCycle
  <2>3. /\ commands' = commands \o ReplayedToPort \o lc
        /\ UNCHANGED <<callbacks, listened, children, sent>>
      BY DEF ActorLifeCycle, envVars
  <2> QED
      BY <2>1, <2>2, <2>3
<1>2. /\ lc \in Seq(Commands) /\ DOMAIN lc = 1 .. 2 /\ lc[1].k = "StartReq" /\ lc[2].k = "StopReq"
      /\ lc[1].h = LifeCycle /\ lc[2].h = LifeCycle
  <2>1. \A k \in Requests : Command(k, LifeCycle, 1) \in Commands
      BY NumbersTyped DEF Command, Commands, Served
  <2>2. lc \in Seq(Commands)
      BY <2>1 DEF Requests
  <2> QED
      BY <2>2 DEF Command
<1> HIDE DEF lc
<1>3. s \in Seq(Commands) /\ commands' = commands \o s
  <2>1. s \in Seq(Commands)
      BY <1>1, <1>2, ConcatIs
  <2>2. (commands \o ReplayedToPort) \o lc = commands \o (ReplayedToPort \o lc)
    <3>1. \A p, q, r \in Seq(Commands) : (p \o q) \o r = p \o (q \o r)
        BY ConcatAssociative, SMTT(20)
    <3> QED
        BY <1>1, <1>2, <3>1, Zenon
  <2> QED
      BY <1>1, <2>1, <2>2
<1>4. \A k \in Requests : \E i \in DOMAIN s : s[i].k = k /\ s[i].h = LifeCycle
  <2> DEFINE n == Len(ReplayedToPort)
  <2>1. /\ n \in Nat /\ Len(lc) = 2 /\ Len(s) = n + 2 /\ DOMAIN s = 1 .. Len(s)
        /\ \A i \in 1 .. Len(lc) : s[n + i] = lc[i]
    <3>1. Len(lc) = 2
        BY <1>2
    <3>2. /\ n \in Nat /\ Len(s) = n + Len(lc) /\ DOMAIN s = 1 .. (n + Len(lc))
          /\ \A i \in 1 .. Len(lc) : s[n + i] = lc[i]
        BY <1>1, <1>2, ConcatIs
    <3> QED
        BY <3>1, <3>2
  <2> HIDE DEF n, s
  <2>2. \A i \in 1 .. 2 : \E j \in DOMAIN s : s[j] = lc[i]
      BY <2>1
  <2> QED
      BY <1>2, <2>2 DEF Requests
<1> HIDE DEF s
<1>5. \A k : Pending(k) => Pending(k)'
    BY <1>1, <1>3, PendingGrows
<1>6. \A k \in Requests : Pending(k)'
    BY <1>1, <1>3, <1>4, PendingGrows
<1>7. Served' = Served
    BY <1>1, ServedKept
<1> QED
    BY <1>1, <1>5, <1>6, <1>7 DEF Connecting, Connected, Served

LEMMA ConnectingCommand ==
    ASSUME KInv, Connecting, processCommands
    PROVE  Connecting'
<1> DEFINE c == Head(commands)
<1>1. /\ ListenTypeOK /\ CommandsWired /\ CallbacksWired
      /\ UNCHANGED <<state, children, sent>> /\ Served' = Served
      /\ commands \in Seq(Commands) /\ commands # <<>> /\ commands' = Tail(commands)
    BY ServedKept DEF KInv, Wired, CommandsWired, processCommands, envVars
<1>2. /\ c \in Commands /\ c.k \in Kinds /\ callbacks \in [Kinds -> PortLists]
      /\ \/ c.v = 0 /\ c.h \in Used /\ UNCHANGED listened
            /\ callbacks' = [callbacks EXCEPT ![c.k] = Erase(@, c.h)]
         \/ /\ callbacks' = [callbacks EXCEPT ![c.k] = Replace(@, c.h, c.v)]
            /\ listened' = listened \cup {c.k}
  <2> HIDE DEF c
  <2> QED
      BY <1>1, CommandDone DEF c
<1>3. c.h = LifeCycle => c.v = 1 /\ LifeCycle \notin Used
    BY <1>1, <1>2, UsedTyped DEF Commands
<1> HIDE DEF c
<1>4. ASSUME NEW k \in Served, Connected(k)
      PROVE  Connected(k)'
  <2>1. k \in Kinds
      BY ServedIs
  <2>2. \/ callbacks'[k] = callbacks[k]
        \/ callbacks'[k] = Erase(callbacks[k], c.h) /\ c.h # LifeCycle
        \/ callbacks'[k] = Replace(callbacks[k], c.h, c.v)
      BY <1>1, <1>2, <2>1, UsedTyped
  <2>3. LifeCycle \in DOMAIN callbacks'[k] /\ k \in listened'
      BY <1>2, <1>4, <2>2 DEF Connected, Erase, Replace
  <2> QED
      BY <2>3 DEF Connected
<1>5. ASSUME NEW k \in Served, Pending(k)
      PROVE  Connected(k)' \/ Pending(k)'
  <2>1. PICK i \in DOMAIN commands : commands[i].k = k /\ commands[i].h = LifeCycle
      BY <1>5 DEF Pending
  <2>2. /\ DOMAIN commands = 1 .. Len(commands) /\ Len(commands) \in Nat /\ commands[1] = c
        /\ DOMAIN commands' = 1 .. (Len(commands) - 1)
        /\ \A j \in 1 .. (Len(commands) - 1) : commands'[j] = commands[j + 1]
      BY <1>1 DEF c
  <2>3. CASE i = 1
    <3>1. c.k = k /\ c.h = LifeCycle /\ k \in Kinds
        BY <2>1, <2>2, <2>3, ServedIs
    <3>2. callbacks'[k] = Replace(callbacks[k], LifeCycle, c.v) /\ k \in listened'
        BY <1>2, <1>3, <3>1
    <3> QED
        BY <3>2 DEF Connected, Replace
  <2>4. CASE i # 1
    <3>1. i - 1 \in DOMAIN commands' /\ commands'[i - 1] = commands[i]
        BY <2>2, <2>4
    <3> QED
        BY <2>1, <3>1 DEF Pending
  <2> QED
      BY <2>3, <2>4
<1> QED
    BY <1>1, <1>4, <1>5 DEF Connecting

\* What the first request finds.
LEMMA ConsumedIs ==
    ASSUME Connecting, Consumed
    PROVE  \A k \in Served : Connected(k)
BY DEF Connecting, Consumed, Pending

LEMMA ConnectingMoves ==
    ASSUME KInv, Connecting, Moves
    PROVE  Connecting'
<1>1. UNCHANGED listening /\ state # "INIT"
    BY MovesIs
<1>2. CASE "StartReq" \in sent' => "StartReq" \in sent
    BY <1>1, <1>2, ConnectingSame
<1>3. CASE "StartReq" \in sent' /\ "StartReq" \notin sent
  <2>1. othersPublish
      BY <1>3 DEF Moves, takeEvent, eventDone, callUser, userReturns, callRequest, callChildCnf,
                  callOwn, publishCnf, childConfirms, envVars
  <2>2. Consumed
      BY <1>3, <2>1 DEF othersPublish, MaySend
  <2> QED
      BY <1>1, <2>2, ConsumedIs DEF Connecting, Connected, Served, listening, portVars
<1> QED
    BY <1>2, <1>3

LEMMA ConnectingKept ==
    ASSUME KInv, Connecting,
           ListenNext \/ (\E k \in UserKinds : ListensNew(k)) \/ UNCHANGED listenVars
    PROVE  Connecting'
<1>1. ListenTypeOK /\ Versions # {} /\ 1 \in Versions
    BY NumbersTyped DEF KInv
<1>2. ASSUME NEW k \in UserKinds, ListensNew(k)
      PROVE  Connecting'
  <2>1. Len(kind) + 1 \in Handles
      BY <1>1, <1>2, KindAppended
  <2>2. listen(Len(kind) + 1, k, 1) /\ UNCHANGED <<state, children, listened, callbacks, sent>>
      BY <1>2 DEF ListensNew, portSide, envVars
  <2> QED
      BY <1>1, <2>1, <2>2, ConnectingUser
<1>3. ASSUME UserListensAgain
      PROVE  Connecting'
  <2>1. PICK h \in Used : listen(h, kind[h], changes + 2)
      BY <1>3 DEF UserListensAgain, Used
  <2>2. /\ h \in Handles /\ kind[h] \in UserKinds /\ changes + 2 \in Versions
        /\ UNCHANGED <<state, children, listened, callbacks, sent>>
    <3>1. changes < MaxChanges /\ changes \in 0 .. MaxChanges
        BY <1>1, <1>3 DEF UserListensAgain, ListenTypeOK
    <3> QED
        BY <1>1, <1>3, <3>1, UsedTyped, NumbersTyped DEF UserListensAgain, envVars, Versions
  <2> QED
      BY <2>1, <2>2, ConnectingUser
<1>4. ASSUME UserUnlistens
      PROVE  Connecting'
  <2>1. PICK h \in Used : unlisten(h, kind[h])
      BY <1>4 DEF UserUnlistens, Used
  <2>2. /\ h \in Handles /\ kind[h] \in UserKinds
        /\ UNCHANGED <<state, children, listened, callbacks, sent>>
      BY <1>1, <1>4, UsedTyped DEF UserUnlistens, envVars
  <2> QED
      BY <1>1, <2>1, <2>2, ConnectingUser
<1>5. ASSUME UNCHANGED listenVars
      PROVE  Connecting'
    BY <1>5, ConnectingSame DEF listenVars, listening, userVars, envVars
<1> QED
    BY <1>2, <1>3, <1>4, <1>5, ListenNextIs, ConnectingNewChild, ConnectingConstructed, ConnectingCommand,
       ConnectingMoves

-----------------------------------------------------------------------------
(* Where each of the two requests is: not published, on its way to the life *)
(* cycle's callback, with the children, in the walk over the own callbacks, *)
(* or confirmed.                                                            *)

Stages == {"before", "asked", "collecting", "walking", "done"}

\* A message that the life cycle's callback has not got yet.
Carried(k) == Waiting(events, k) + One(current = <<k>> /\ LifeCycle \in left)

InStage(k, s) ==
    /\ k \in sent <=> s # "before"
    /\ Carried(k) = One(s = "asked")
    /\ owed[PrivCnfOf(k)] + Carried(PrivCnfOf(k)) =
          IF s = "collecting" THEN children - childrenCnfCount ELSE 0
    /\ s = "collecting" => children > 0
    /\ walk = CnfOf(k) <=> s = "walking"
    /\ CnfOf(k) \in confirmed <=> s = "done"
    /\ current = <<k>> => s # "before"
    /\ current = <<k>> /\ children > 0 => s \in {"asked", "collecting"}

StateOf(st) ==
    IF st["StopReq"] = "done" THEN "STOPPED"
    ELSE IF st["StopReq"] = "walking" THEN IF children > 0 THEN "STOPPED" ELSE "STARTED"
    ELSE IF st["StartReq"] \in {"walking", "done"} THEN "STARTED"
    ELSE "CTOR_FINISHED"

\* The stop is not asked for before the start is confirmed.
Ordered(st) ==
    /\ st["StopReq"] # "before" => st["StartReq"] = "done"
    /\ childrenCnfCount # 0 => \E k \in Requests : st[k] = "collecting"
    /\ state = "INIT" => \A k \in Requests : st[k] = "before"
    /\ state # "INIT" => state = StateOf(st)
    /\ current = <<"StartReq">> => st["StopReq"] \in {"before", "asked"}

Staged(st) == st \in [Requests -> Stages] /\ Ordered(st) /\ \A k \in Requests : InStage(k, st[k])

LEMMA CarriedIs ==
    ASSUME KInv, NEW k
    PROVE  /\ Waiting(events, k) \in Nat /\ Carried(k) \in Nat
           /\ Carried(k) = 0 => Waiting(events, k) = 0
           /\ current = <<k>> /\ LifeCycle \in left => Carried(k) = Waiting(events, k) + 1
           /\ current # <<k>> \/ LifeCycle \notin left => Carried(k) = Waiting(events, k)
<1>1. Waiting(events, k) \in Nat
    BY WaitingIs DEF KInv, ListenTypeOK
<1> QED
    BY <1>1 DEF Carried, One

LEMMA MessagesAre ==
    /\ Requests = {"StartReq", "StopReq"} /\ FromChild = {"PrivStartCnf", "PrivStopCnf"}
    /\ PrivCnfOf("StartReq") = "PrivStartCnf" /\ PrivCnfOf("StopReq") = "PrivStopCnf"
    /\ CnfOf("StartReq") = "StartCnf" /\ CnfOf("StopReq") = "StopCnf"
    /\ CnfOf("PrivStartCnf") = "StartCnf" /\ CnfOf("PrivStopCnf") = "StopCnf"
    /\ Requests \subseteq Kinds /\ FromChild \subseteq Kinds
BY DEF Requests, FromChild, PrivCnfOf, CnfOf, Kinds

LEMMA LifeNumbers ==
    ASSUME KInv
    PROVE  /\ children \in Nat /\ childrenCnfCount \in Nat
           /\ owed \in [FromChild -> 0 .. MaxChildren] /\ \A k \in FromChild : owed[k] \in Nat
           /\ Served \subseteq Kinds
BY NumbersTyped, ServedIs DEF KInv, ListenTypeOK

\* What a stage is about.
LEMMA SameStage ==
    ASSUME NEW CONSTANT k \in Requests, NEW CONSTANT s, InStage(k, s),
           Carried(k)' = Carried(k),
           Carried(PrivCnfOf(k))' = Carried(PrivCnfOf(k)),
           owed'[PrivCnfOf(k)] = owed[PrivCnfOf(k)],
           k \in sent' <=> k \in sent,
           s = "collecting" => childrenCnfCount' = childrenCnfCount,
           children' = children \/ s = "before",
           walk' = CnfOf(k) <=> walk = CnfOf(k),
           CnfOf(k) \in confirmed' <=> CnfOf(k) \in confirmed,
           current' = <<k>> => current = <<k>> \/ s = "asked"
    PROVE  InStage(k, s)'
BY DEF InStage, Requests, PrivCnfOf, CnfOf

\* Nothing on its way moves.
LEMMA SameCarried ==
    ASSUME UNCHANGED events,
           \/ UNCHANGED current /\ (LifeCycle \in left' <=> LifeCycle \in left)
           \/ current' = <<>> /\ LifeCycle \notin left
    PROVE  \A k : Carried(k)' = Carried(k)
<1> TAKE k
<1>1. (current' = <<k>> /\ LifeCycle \in left') <=> (current = <<k>> /\ LifeCycle \in left)
    OBVIOUS
<1> QED
    BY <1>1 DEF Carried, One

LEMMA StageKept ==
    ASSUME NEW CONSTANT st, Staged(st), \A k : Carried(k)' = Carried(k),
           UNCHANGED <<owed, sent, childrenCnfCount, walk, confirmed>>,
           current' # <<>> => current' = current,
           \/ UNCHANGED <<children, state>>
           \/ state = "INIT" /\ state' = "INIT"
           \/ state = "INIT" /\ state' = "CTOR_FINISHED" /\ UNCHANGED children
    PROVE  Staged(st)'
<1>1. Ordered(st)'
    BY DEF Staged, Ordered, StateOf, Requests
<1>2. ASSUME NEW k \in Requests
      PROVE  InStage(k, st[k])'
    BY <1>2, SameStage DEF Staged, Ordered
<1> QED
    BY <1>1, <1>2 DEF Staged

\* What the stages say of a message on its way.
LEMMA CarriedRequest ==
    ASSUME KInv, NEW CONSTANT st, Staged(st), NEW CONSTANT k \in Requests, Carried(k) # 0
    PROVE  /\ st[k] = "asked" /\ Carried(k) = 1 /\ k \in sent /\ "StartReq" \in sent
           /\ k = "StartReq" => st["StopReq"] = "before" /\ state = "CTOR_FINISHED"
           /\ k = "StopReq" => st["StartReq"] = "done" /\ state = "STARTED"
           /\ childrenCnfCount = 0
<1>1. st[k] = "asked" /\ Carried(k) = 1 /\ k \in sent
    BY DEF Staged, InStage, One
<1>2. /\ k = "StartReq" => st["StopReq"] = "before"
      /\ k = "StopReq" => st["StartReq"] = "done"
    BY <1>1 DEF Staged, Ordered
<1>3. "StartReq" \in sent /\ state # "INIT"
    BY <1>1, <1>2, MessagesAre DEF Staged, InStage, Ordered
<1>4. /\ k = "StartReq" => state = "CTOR_FINISHED"
      /\ k = "StopReq" => state = "STARTED"
    BY <1>1, <1>2, <1>3 DEF Staged, Ordered, StateOf
<1>5. childrenCnfCount = 0
    BY <1>1, <1>2, MessagesAre DEF Staged, Ordered
<1> QED
    BY <1>1, <1>2, <1>3, <1>4, <1>5

LEMMA CarriedCnf ==
    ASSUME KInv, NEW CONSTANT st, Staged(st), NEW CONSTANT k \in Requests,
           Carried(PrivCnfOf(k)) # 0 \/ owed[PrivCnfOf(k)] # 0
    PROVE  /\ st[k] = "collecting" /\ children > 0 /\ "StartReq" \in sent /\ PrivCnfOf(k) \in Served
           /\ owed[PrivCnfOf(k)] + Carried(PrivCnfOf(k)) = children - childrenCnfCount
           /\ k = "StartReq" => st["StopReq"] = "before" /\ state = "CTOR_FINISHED"
           /\ k = "StopReq" => st["StartReq"] = "done" /\ state = "STARTED"
<1>1. /\ owed[PrivCnfOf(k)] \in Nat /\ Carried(PrivCnfOf(k)) \in Nat
    BY LifeNumbers, CarriedIs, MessagesAre
<1>2. /\ st[k] = "collecting" /\ children > 0
      /\ owed[PrivCnfOf(k)] + Carried(PrivCnfOf(k)) = children - childrenCnfCount
    BY <1>1 DEF Staged, InStage
<1>3. /\ k = "StartReq" => st["StopReq"] = "before"
      /\ k = "StopReq" => st["StartReq"] = "done"
    BY <1>2 DEF Staged, Ordered
<1>4. "StartReq" \in sent /\ state # "INIT"
    BY <1>2, <1>3, MessagesAre DEF Staged, InStage, Ordered
<1>5. /\ k = "StartReq" => state = "CTOR_FINISHED"
      /\ k = "StopReq" => state = "STARTED"
    BY <1>2, <1>3, <1>4 DEF Staged, Ordered, StateOf
<1>6. PrivCnfOf(k) \in Served
    BY <1>2, MessagesAre DEF Served
<1> QED
    BY <1>2, <1>3, <1>4, <1>5, <1>6

LEMMA TakeStaged ==
    ASSUME KInv, Connecting, NEW CONSTANT st, Staged(st), takeEvent
    PROVE  Staged(st)'
<1> DEFINE e == Head(events)
<1>1. /\ events \in Seq(Kinds) /\ events # <<>> /\ events' = Tail(events) /\ e \in Kinds
      /\ current = <<>> /\ current' = <<e>> /\ left' = DOMAIN callbacks[e] /\ state # "INIT"
      /\ UNCHANGED <<owed, sent, children, childrenCnfCount, walk, confirmed, state>>
    BY DEF KInv, ListenTypeOK, takeEvent, Idle, walkVars, envVars
<1>2. ASSUME NEW k
      PROVE  /\ Waiting(events, k) = Waiting(events', k) + One(e = k) /\ Waiting(events', k) \in Nat
             /\ Carried(k) = Waiting(events, k)
  <2>1. Waiting(events, k) = Waiting(Tail(events), k) + One(Head(events) = k)
      BY <1>1, WaitingTail
  <2>2. Waiting(events', k) \in Nat
    <3>1. events' \in Seq(Kinds)
        BY <1>1
    <3> QED
        BY <3>1, WaitingIs
  <2>3. Carried(k) = Waiting(events, k)
      BY <1>1, CarriedIs
  <2> QED
      BY <1>1, <2>1, <2>2, <2>3
<1>3. Carried(e) # 0
    BY <1>1, <1>2 DEF One
<1>4. e \in Requests \cup FromChild => LifeCycle \in left' /\ "StartReq" \in sent
  <2>1. ASSUME e \in Requests
        PROVE  "StartReq" \in sent /\ e \in Served
      BY <1>3, <2>1, CarriedRequest, ServedIs
  <2>2. ASSUME e \in FromChild
        PROVE  "StartReq" \in sent /\ e \in Served
    <3>1. PICK k \in Requests : e = PrivCnfOf(k)
        BY <2>2, MessagesAre
    <3>2. Carried(PrivCnfOf(k)) # 0
        BY <1>3, <3>1
    <3>3. "StartReq" \in sent /\ PrivCnfOf(k) \in Served
        BY <3>2, CarriedCnf
    <3> QED
        BY <3>1, <3>3
  <2>3. "StartReq" \in sent => \A k \in Served : LifeCycle \in DOMAIN callbacks[k]
      BY DEF Connecting, Connected
  <2> QED
      BY <1>1, <2>1, <2>2, <2>3
<1>5. ASSUME NEW k \in Requests \cup FromChild
      PROVE  Carried(k)' = Carried(k)
  <2>1. (current' = <<k>> /\ LifeCycle \in left') <=> e = k
      BY <1>1, <1>4
  <2>2. Carried(k)' = Waiting(events', k) + One(e = k)
      BY <2>1 DEF Carried, One
  <2> QED
      BY <1>2, <2>2
<1> HIDE DEF e
<1>6. ASSUME NEW k \in Requests
      PROVE  InStage(k, st[k])'
  <2>1. current' = <<k>> => st[k] = "asked"
      BY <1>1, <1>3, CarriedRequest
  <2>2. k \in Requests \cup FromChild /\ PrivCnfOf(k) \in Requests \cup FromChild
      BY MessagesAre
  <2> QED
      BY <1>1, <1>5, <2>1, <2>2, SameStage DEF Staged
<1>7. Ordered(st)'
  <2>1. current' = <<"StartReq">> => st["StopReq"] = "before"
      BY <1>1, <1>3, CarriedRequest, MessagesAre
  <2> QED
      BY <1>1, <2>1 DEF Staged, Ordered, StateOf
<1> QED
    BY <1>6, <1>7 DEF Staged

\* A callback of the life cycle has got its message.
LEMMA CarriedOver ==
    ASSUME KInv, NEW CONSTANT k, current = <<k>>, LifeCycle \in left, UNCHANGED <<events, current>>,
           left' = left \ {LifeCycle}
    PROVE  /\ Carried(k) = Carried(k)' + 1 /\ Carried(k)' \in Nat
           /\ \A j : j # k => Carried(j)' = Carried(j)
<1>1. Waiting(events, k) \in Nat
    BY CarriedIs
<1> QED
    BY <1>1 DEF Carried, One

LEMMA RequestStaged ==
    ASSUME KInv, NEW CONSTANT st, Staged(st), callRequest
    PROVE  \E t : Staged(t)'
<1>1. PICK k \in Requests : current = <<k>>
  <2>1. current # <<>> /\ current[1] \in Requests
      BY DEF callRequest, MayCall
  <2>2. PICK j \in Kinds \ Own : current = <<j>>
      BY <2>1, CurrentIs
  <2> QED
      BY <2>1, <2>2
<1>2. /\ LifeCycle \in left /\ left' = left \ {LifeCycle} /\ walk = NoWalk
      /\ UNCHANGED <<events, current, sent, children, childrenCnfCount, confirmed>>
    BY DEF callRequest, MayCall
<1>3. /\ st[k] = "asked" /\ Carried(k) = 1 /\ k \in sent
      /\ k = "StartReq" => st["StopReq"] = "before" /\ state = "CTOR_FINISHED"
      /\ k = "StopReq" => st["StartReq"] = "done" /\ state = "STARTED"
      /\ childrenCnfCount = 0
  <2>1. Carried(k) # 0
      BY <1>1, <1>2, CarriedIs
  <2> QED
      BY <2>1, CarriedRequest
<1>4. /\ Carried(k)' = 0 /\ \A j : j # k => Carried(j)' = Carried(j)
    BY <1>1, <1>2, <1>3, CarriedOver
<1>5. /\ children \in Nat /\ owed \in [FromChild -> 0 .. MaxChildren]
      /\ Carried(PrivCnfOf(k)) = 0 /\ owed[PrivCnfOf(k)] = 0 /\ PrivCnfOf(k) \in FromChild
      /\ PrivCnfOf(k) # k
  <2>1. owed[PrivCnfOf(k)] + Carried(PrivCnfOf(k)) = 0
      BY <1>3 DEF Staged, InStage
  <2> QED
      BY <2>1, LifeNumbers, CarriedIs, MessagesAre
<1>6. st \in [Requests -> Stages] /\ InStage(k, st[k])
    BY DEF Staged
<1>7. CASE children = 0
  <2>1. UNCHANGED owed /\ walk' = CnfOf(k) /\ state' = IF k = "StartReq" THEN "STARTED" ELSE state
      BY <1>1, <1>7 DEF callRequest, NoChildren, StartWalk, StateInLeaf
  <2> DEFINE t == [st EXCEPT ![k] = "walking"]
  <2>2. t \in [Requests -> Stages] /\ t[k] = "walking" /\ \A j \in Requests : j # k => t[j] = st[j]
      BY <1>6 DEF Stages
  <2> HIDE DEF t
  <2>3. InStage(k, "walking")'
      BY <1>1, <1>2, <1>3, <1>4, <1>5, <1>6, <1>7, <2>1 DEF InStage, One
  <2>4. ASSUME NEW j \in Requests, j # k
        PROVE  InStage(j, st[j])'
    <3>1. /\ CnfOf(j) # CnfOf(k) /\ CnfOf(j) # NoWalk /\ PrivCnfOf(j) # k
        BY <2>4, MessagesAre DEF NoWalk
    <3>2. walk' = CnfOf(j) <=> walk = CnfOf(j)
        BY <1>2, <2>1, <3>1
    <3> QED
        BY <1>2, <1>4, <2>1, <2>4, <3>1, <3>2, SameStage DEF Staged
  <2>5. Ordered(t)'
      BY <1>1, <1>2, <1>3, <1>7, <2>1, <2>2, MessagesAre DEF Ordered, StateOf
  <2>6. Staged(t)'
      BY <2>2, <2>3, <2>4, <2>5 DEF Staged
  <2> QED
      BY <2>6
<1>8. CASE children # 0
  <2>1. /\ owed' = [owed EXCEPT ![PrivCnfOf(k)] = children] /\ UNCHANGED <<state, walk>>
      BY <1>1, <1>8 DEF callRequest, NoChildren
  <2> DEFINE t == [st EXCEPT ![k] = "collecting"]
  <2>2. t \in [Requests -> Stages] /\ t[k] = "collecting" /\ \A j \in Requests : j # k => t[j] = st[j]
      BY <1>6 DEF Stages
  <2> HIDE DEF t
  <2>3. InStage(k, "collecting")'
    <3>1. /\ owed'[PrivCnfOf(k)] = children /\ Carried(PrivCnfOf(k))' = 0
        BY <1>4, <1>5, <2>1
    <3> QED
        BY <1>1, <1>2, <1>3, <1>4, <1>5, <1>6, <1>8, <2>1, <3>1 DEF InStage, One
  <2>4. ASSUME NEW j \in Requests, j # k
        PROVE  InStage(j, st[j])'
    <3>1. PrivCnfOf(j) # k /\ PrivCnfOf(j) # PrivCnfOf(k) /\ PrivCnfOf(j) \in FromChild
        BY <2>4, MessagesAre
    <3>2. owed'[PrivCnfOf(j)] = owed[PrivCnfOf(j)]
        BY <1>5, <2>1, <3>1
    <3> QED
        BY <1>2, <1>4, <2>1, <2>4, <3>1, <3>2, SameStage DEF Staged
  <2>5. Ordered(t)'
      BY <1>1, <1>2, <1>3, <1>8, <2>1, <2>2, MessagesAre DEF Ordered, StateOf
  <2>6. Staged(t)'
      BY <2>2, <2>3, <2>4, <2>5 DEF Staged
  <2> QED
      BY <2>6
<1> QED
    BY <1>7, <1>8

LEMMA ChildCnfStaged ==
    ASSUME KInv, NEW CONSTANT st, Staged(st), callChildCnf
    PROVE  \E t : Staged(t)'
<1>1. PICK k \in Requests : current = <<PrivCnfOf(k)>>
  <2>1. current # <<>> /\ current[1] \in FromChild
      BY DEF callChildCnf, MayCall
  <2>2. PICK j \in Kinds \ Own : current = <<j>>
      BY <2>1, CurrentIs
  <2> QED
      BY <2>1, <2>2, MessagesAre
<1> DEFINE p == PrivCnfOf(k)
<1>2. /\ LifeCycle \in left /\ left' = left \ {LifeCycle} /\ walk = NoWalk
      /\ UNCHANGED <<events, current, sent, owed, children, confirmed>>
    BY DEF callChildCnf, MayCall, envVars
<1>3. /\ st[k] = "collecting" /\ children > 0
      /\ owed[p] + Carried(p) = children - childrenCnfCount
      /\ k = "StartReq" => st["StopReq"] = "before" /\ state = "CTOR_FINISHED"
      /\ k = "StopReq" => st["StartReq"] = "done" /\ state = "STARTED"
  <2>1. Carried(p) # 0
      BY <1>1, <1>2, CarriedIs
  <2> QED
      BY <2>1, CarriedCnf
<1>4. /\ Carried(p) = Carried(p)' + 1 /\ Carried(p)' \in Nat
      /\ \A j : j # p => Carried(j)' = Carried(j)
    BY <1>1, <1>2, CarriedOver
<1>5. /\ children \in Nat /\ childrenCnfCount \in Nat /\ owed[p] \in Nat
      /\ p \in FromChild /\ p # k
    BY LifeNumbers, MessagesAre
<1>6. st \in [Requests -> Stages] /\ InStage(k, st[k])
    BY DEF Staged
<1>7. CASE childrenCnfCount + 1 = children
  <2>1. /\ childrenCnfCount' = 0 /\ walk' = CnfOf(k)
        /\ state' = IF k = "StartReq" THEN "STARTED" ELSE "STOPPED"
    <3>1. CnfOf(p) = CnfOf(k) /\ (p = "PrivStartCnf" <=> k = "StartReq")
        BY MessagesAre
    <3> QED
        BY <1>1, <1>7, <3>1 DEF callChildCnf, CountReset, StartWalk
  <2> DEFINE t == [st EXCEPT ![k] = "walking"]
  <2>2. t \in [Requests -> Stages] /\ t[k] = "walking" /\ \A j \in Requests : j # k => t[j] = st[j]
      BY <1>6 DEF Stages
  <2> HIDE DEF t
  <2>3. InStage(k, "walking")'
    <3>1. Carried(p)' = 0 /\ owed'[p] = 0
        BY <1>2, <1>3, <1>4, <1>5, <1>7
    <3>2. Carried(k)' = Carried(k) /\ current' # <<k>>
        BY <1>1, <1>2, <1>4, <1>5
    <3> QED
        BY <1>2, <1>3, <1>6, <2>1, <3>1, <3>2 DEF InStage, One
  <2>4. ASSUME NEW j \in Requests, j # k
        PROVE  InStage(j, st[j])'
    <3>1. /\ CnfOf(j) # CnfOf(k) /\ CnfOf(j) # NoWalk /\ PrivCnfOf(j) # p /\ j # p
          /\ st[j] # "collecting"
        BY <1>3, <2>4, MessagesAre DEF NoWalk
    <3>2. walk' = CnfOf(j) <=> walk = CnfOf(j)
        BY <1>2, <2>1, <3>1
    <3> QED
        BY <1>2, <1>4, <2>1, <2>4, <3>1, <3>2, SameStage DEF Staged
  <2>5. Ordered(t)'
    <3>1. current' # <<"StartReq">>
        BY <1>1, <1>2, MessagesAre
    <3> QED
        BY <1>2, <1>3, <2>1, <2>2, <3>1, MessagesAre DEF Ordered, StateOf
  <2>6. Staged(t)'
      BY <2>2, <2>3, <2>4, <2>5 DEF Staged
  <2> QED
      BY <2>6
<1>8. CASE childrenCnfCount + 1 # children
  <2>1. /\ childrenCnfCount' = childrenCnfCount + 1 /\ UNCHANGED <<state, walk>>
      BY <1>8 DEF callChildCnf
  <2>2. InStage(k, st[k])'
    <3>1. owed'[p] + Carried(p)' = children' - childrenCnfCount'
        BY <1>2, <1>3, <1>4, <1>5, <2>1
    <3>2. Carried(k)' = Carried(k) /\ current' # <<k>>
        BY <1>1, <1>2, <1>4, <1>5
    <3> QED
        BY <1>2, <1>3, <1>6, <2>1, <3>1, <3>2 DEF InStage
  <2>3. ASSUME NEW j \in Requests, j # k
        PROVE  InStage(j, st[j])'
    <3>1. PrivCnfOf(j) # p /\ j # p /\ st[j] # "collecting"
        BY <1>3, <2>3, MessagesAre
    <3> QED
        BY <1>2, <1>4, <2>1, <2>3, <3>1, SameStage DEF Staged
  <2>4. Ordered(st)'
    <3>1. current' # <<"StartReq">>
        BY <1>1, <1>2, MessagesAre
    <3> QED
        BY <1>2, <1>3, <2>1, <3>1, MessagesAre DEF Staged, Ordered, StateOf
  <2>5. Staged(st)'
      BY <1>6, <2>2, <2>3, <2>4 DEF Staged
  <2> QED
      BY <2>5
<1> QED
    BY <1>7, <1>8

\* The request whose walk it is.
LEMMA WalkIs ==
    ASSUME KInv, NEW CONSTANT st, Staged(st), walk # NoWalk
    PROVE  \E k \in Requests :
              /\ walk = CnfOf(k) /\ st[k] = "walking" /\ walk \notin confirmed /\ state # "INIT"
              /\ k = "StartReq" => st["StopReq"] = "before" /\ state = "STARTED"
              /\ k = "StopReq" => /\ st["StartReq"] = "done"
                                  /\ state = IF children > 0 THEN "STOPPED" ELSE "STARTED"
<1>1. walk \in Own
    BY DEF KInv, ListenTypeOK
<1>2. PICK k \in Requests : walk = CnfOf(k)
    BY <1>1, MessagesAre DEF Own
<1>3. st[k] = "walking" /\ walk \notin confirmed
    BY <1>2 DEF Staged, InStage
<1>4. state # "INIT"
    BY BusyIsBuilt
<1> QED
    BY <1>2, <1>3, <1>4, MessagesAre DEF Staged, Ordered, StateOf

LEMMA PublishStaged ==
    ASSUME KInv, NEW CONSTANT st, Staged(st), publishCnf
    PROVE  \E t : Staged(t)'
<1>1. /\ walk # NoWalk /\ walk' = NoWalk /\ confirmed' = confirmed \cup {walk}
      /\ state' = IF walk = "StopCnf" THEN "STOPPED" ELSE state
      /\ UNCHANGED <<current, left, sent, owed, children, childrenCnfCount>>
    BY DEF publishCnf, envVars
<1>2. PICK k \in Requests :
          /\ walk = CnfOf(k) /\ st[k] = "walking" /\ walk \notin confirmed /\ state # "INIT"
          /\ k = "StartReq" => st["StopReq"] = "before" /\ state = "STARTED"
          /\ k = "StopReq" => /\ st["StartReq"] = "done"
                              /\ state = IF children > 0 THEN "STOPPED" ELSE "STARTED"
    BY <1>1, WalkIs
<1>3. UNCHANGED events
  <2>1. walk \in Own /\ listened \cap Own = {}
      BY <1>1 DEF KInv, ListenTypeOK, Wired, EventsWired
  <2> QED
      BY <2>1 DEF publishCnf
<1>4. \A j : Carried(j)' = Carried(j)
    BY <1>1, <1>3, SameCarried
<1>5. st \in [Requests -> Stages] /\ InStage(k, st[k])
    BY DEF Staged
<1> DEFINE t == [st EXCEPT ![k] = "done"]
<1>6. t \in [Requests -> Stages] /\ t[k] = "done" /\ \A j \in Requests : j # k => t[j] = st[j]
    BY <1>5 DEF Stages
<1> HIDE DEF t
<1>7. InStage(k, "done")'
  <2>1. walk' # CnfOf(k)
      BY <1>1, <1>2
  <2> QED
      BY <1>1, <1>2, <1>4, <1>5, <2>1 DEF InStage, One
<1>8. ASSUME NEW j \in Requests, j # k
      PROVE  InStage(j, st[j])'
  <2>1. CnfOf(j) # CnfOf(k) /\ CnfOf(j) # NoWalk
      BY <1>8, MessagesAre DEF NoWalk
  <2>2. walk' # CnfOf(j) /\ walk # CnfOf(j) /\ (CnfOf(j) \in confirmed' <=> CnfOf(j) \in confirmed)
      BY <1>1, <1>2, <2>1
  <2> QED
      BY <1>1, <1>4, <1>8, <2>2, SameStage DEF Staged
<1>9. Ordered(t)'
    BY <1>1, <1>2, <1>6, MessagesAre DEF Staged, Ordered, StateOf
<1>10. Staged(t)'
    BY <1>6, <1>7, <1>8, <1>9 DEF Staged
<1> QED
    BY <1>10

\* A message the port has listened to is on its way.
LEMMA DeliveredCarried ==
    ASSUME KInv, NEW CONSTANT k \in Kinds, Delivered(k), UNCHANGED <<current, left>>
    PROVE  /\ k \in listened => Carried(k)' = Carried(k) + 1
           /\ \A j : j # k => Carried(j)' = Carried(j)
<1>1. events \in Seq(Kinds)
    BY DEF KInv, ListenTypeOK
<1>2. ASSUME NEW j
      PROVE  /\ Waiting(events, j) \in Nat
             /\ Waiting(events, j)' = IF k \in listened THEN Waiting(events, j) + One(k = j)
                                      ELSE Waiting(events, j)
  <2>1. Waiting(events, j) \in Nat
      BY <1>1, WaitingIs
  <2>2. Waiting(Append(events, k), j) = Waiting(events, j) + One(k = j)
      BY <1>1, WaitingAppend
  <2> QED
      BY <2>1, <2>2 DEF Delivered
<1>3. /\ Waiting(events, k) \in Nat
      /\ k \in listened => Waiting(events, k)' = Waiting(events, k) + 1
    BY <1>2 DEF One
<1>4. ASSUME NEW j, j # k
      PROVE  Waiting(events, j)' = Waiting(events, j)
    BY <1>2, <1>4 DEF One
<1> QED
    BY <1>3, <1>4 DEF Carried, One

LEMMA OthersStaged ==
    ASSUME KInv, Connecting, NEW CONSTANT st, Staged(st), othersPublish
    PROVE  \E t : Staged(t)'
<1>1. /\ UNCHANGED <<state, children, childrenCnfCount, current, left, walk, confirmed, owed>>
      /\ state # "INIT"
    BY MovesIs DEF othersPublish, walkVars, Moves
<1>2. PICK k \in Requests \cup {"OtherCnf"} : /\ k \notin sent /\ MaySend(k)
                                            /\ sent' = sent \cup {k} /\ Delivered(k)
    BY DEF othersPublish
<1>3. k \in Kinds
    BY MessagesAre DEF Kinds, Confirmations
<1>4. \A j : j # k => Carried(j)' = Carried(j)
    BY <1>1, <1>2, <1>3, DeliveredCarried
<1>5. st \in [Requests -> Stages] /\ \A j \in Requests : InStage(j, st[j]) /\ PrivCnfOf(j) # k
    BY MessagesAre DEF Staged
<1>6. ASSUME NEW j \in Requests, j # k
      PROVE  InStage(j, st[j])'
    BY <1>1, <1>2, <1>4, <1>5, <1>6, SameStage
<1>7. CASE k = "OtherCnf"
  <2>1. Ordered(st)'
      BY <1>1 DEF Staged, Ordered, StateOf
  <2>2. Staged(st)'
      BY <1>5, <1>6, <1>7, <2>1, MessagesAre DEF Staged
  <2> QED
      BY <2>2
<1>8. CASE k \in Requests
  <2>1. st[k] = "before"
      BY <1>2, <1>5, <1>8 DEF InStage
  <2>2. /\ k = "StartReq" => st["StopReq"] = "before"
        /\ k = "StopReq" => st["StartReq"] = "done" /\ "StartReq" \in sent
    <3>1. k = "StartReq" => st["StopReq"] = "before"
        BY <2>1 DEF Staged, Ordered
    <3>2. k = "StopReq" => st["StartReq"] = "done"
      <4>1. k = "StopReq" => "StartCnf" \in confirmed
          BY <1>2 DEF MaySend
      <4> QED
          BY <4>1, MessagesAre DEF Staged, InStage
    <3>3. st["StartReq"] = "done" => "StartReq" \in sent
        BY MessagesAre DEF Staged, InStage
    <3> QED
        BY <3>1, <3>2, <3>3
  <2>3. Connected(k)
    <3>1. k = "StartReq" => Consumed
        BY <1>2 DEF MaySend
    <3>2. k \in Served
        BY <1>8, ServedIs
    <3> QED
        BY <1>8, <2>2, <3>1, <3>2, ConsumedIs, MessagesAre DEF Connecting
  <2>4. Carried(k)' = 1
    <3>1. Carried(k) = 0
        BY <1>5, <1>8, <2>1 DEF InStage, One
    <3> QED
        BY <1>1, <1>2, <1>3, <2>3, <3>1, DeliveredCarried DEF Connected
  <2> DEFINE t == [st EXCEPT ![k] = "asked"]
  <2>5. t \in [Requests -> Stages] /\ t[k] = "asked" /\ \A j \in Requests : j # k => t[j] = st[j]
      BY <1>5, <1>8 DEF Stages
  <2> HIDE DEF t
  <2>6. InStage(k, "asked")'
    <3>1. PrivCnfOf(k) # k
        BY <1>5, <1>8
    <3> QED
        BY <1>1, <1>2, <1>4, <1>5, <1>8, <2>1, <2>4, <3>1 DEF InStage, One
  <2>7. Ordered(t)'
      BY <1>1, <1>8, <2>1, <2>2, <2>5, MessagesAre DEF Staged, Ordered, StateOf
  <2>8. Staged(t)'
      BY <1>6, <2>5, <2>6, <2>7 DEF Staged
  <2> QED
      BY <2>8
<1> QED
    BY <1>7, <1>8

LEMMA ChildConfirmsStaged ==
    ASSUME KInv, Connecting, NEW CONSTANT st, Staged(st), childConfirms
    PROVE  Staged(st)'
<1>1. /\ UNCHANGED <<state, children, childrenCnfCount, current, left, walk, confirmed, sent>>
    BY DEF childConfirms, walkVars
<1>2. PICK p \in FromChild : /\ owed[p] > 0 /\ owed' = [owed EXCEPT ![p] = @ - 1]
                            /\ Delivered(p)
    BY DEF childConfirms
<1>3. PICK k \in Requests : p = PrivCnfOf(k)
    BY MessagesAre
<1>4. /\ owed \in [FromChild -> 0 .. MaxChildren] /\ owed[p] \in Nat /\ p \in Kinds
      /\ Carried(p) \in Nat
    BY LifeNumbers, CarriedIs, MessagesAre
<1>5. owed'[p] = owed[p] - 1 /\ \A j \in FromChild : j # p => owed'[j] = owed[j]
    BY <1>2, <1>4
<1>6. Carried(p)' = Carried(p) + 1 /\ \A j : j # p => Carried(j)' = Carried(j)
  <2>1. "StartReq" \in sent /\ p \in Served
    <3>1. owed[PrivCnfOf(k)] # 0
        BY <1>2, <1>3
    <3> QED
        BY <1>3, <3>1, CarriedCnf
  <2>2. Connected(p)
      BY <2>1 DEF Connecting
  <2> QED
      BY <1>1, <1>2, <1>4, <2>2, DeliveredCarried DEF Connected
<1>7. ASSUME NEW j \in Requests
      PROVE  InStage(j, st[j])'
  <2>1. Carried(j)' = Carried(j)
      BY <1>6, MessagesAre
  <2>2. PrivCnfOf(j) \in FromChild
      BY MessagesAre
  <2>3. owed'[PrivCnfOf(j)] + Carried(PrivCnfOf(j))' = owed[PrivCnfOf(j)] + Carried(PrivCnfOf(j))
    <3>1. CASE PrivCnfOf(j) = p
        BY <1>4, <1>5, <1>6, <3>1
    <3>2. CASE PrivCnfOf(j) # p
        BY <1>5, <1>6, <2>2, <3>2
    <3> QED
        BY <3>1, <3>2
  <2> QED
      BY <1>1, <2>1, <2>3 DEF Staged, InStage
<1>8. Ordered(st)'
    BY <1>1 DEF Staged, Ordered, StateOf
<1> QED
    BY <1>7, <1>8 DEF Staged

LEMMA StagedKept ==
    ASSUME KInv, Connecting, NEW CONSTANT st, Staged(st),
           ListenNext \/ (\E k \in UserKinds : ListensNew(k)) \/ UNCHANGED listenVars
    PROVE  \E t : Staged(t)'
<1>1. ASSUME \/ \E k \in UserKinds : ListensNew(k)
             \/ UserListensAgain \/ UserUnlistens \/ processCommands \/ UNCHANGED listenVars
             \/ userReturns \/ callOwn
      PROVE  Staged(st)'
  <2>1. UNCHANGED <<events, current, left, owed, sent, children, childrenCnfCount, walk, confirmed, state>>
      BY <1>1 DEF ListensNew, UserListensAgain, UserUnlistens, processCommands, userReturns, callOwn,
                  listenVars, portSide, eventVars, walkVars, envVars
  <2>2. \A k : Carried(k)' = Carried(k)
      BY <2>1, SameCarried
  <2> QED
      BY <2>1, <2>2, StageKept
<1>2. ASSUME NewChild \/ ActorLifeCycle
      PROVE  Staged(st)'
  <2>1. /\ UNCHANGED <<events, current, left, owed, sent, childrenCnfCount, walk, confirmed>>
        /\ state = "INIT"
        /\ state' = "INIT" \/ (state' = "CTOR_FINISHED" /\ UNCHANGED children)
      BY <1>2 DEF NewChild, ActorLifeCycle, eventVars, walkVars, envVars
  <2>2. \A k : Carried(k)' = Carried(k)
      BY <2>1, SameCarried
  <2> QED
      BY <2>1, <2>2, StageKept
<1>3. ASSUME eventDone \/ callUser
      PROVE  Staged(st)'
  <2>1. /\ UNCHANGED <<events, owed, sent, children, childrenCnfCount, walk, confirmed, state>>
        /\ \/ UNCHANGED current /\ (LifeCycle \in left' <=> LifeCycle \in left)
           \/ current' = <<>> /\ LifeCycle \notin left
      BY <1>3 DEF eventDone, callUser, walkVars, envVars
  <2>2. \A k : Carried(k)' = Carried(k)
      BY <2>1, SameCarried
  <2> QED
      BY <2>1, <2>2, StageKept
<1> QED
    BY <1>1, <1>2, <1>3, ListenNextIs, TakeStaged, RequestStaged, ChildCnfStaged, PublishStaged,
       OthersStaged, ChildConfirmsStaged DEF Moves

-----------------------------------------------------------------------------
(* The callbacks for the own confirmations: called in the walk, once.       *)

Called ==
    /\ \A h \in Handles : calls[h] \in {0, 1}
    /\ \A h \in Handles : calls[h] = 1 =>
          /\ h \in Used /\ kind[h] \in Own
          /\ kind[h] \in confirmed \/ (walk = kind[h] /\ h <= at)
    /\ walk # NoWalk => \A h \in due :
          h \in DOMAIN lists[walk] /\ (h <= at => calls[h] = 1)

LEMMA CalledTyped ==
    ASSUME KInv
    PROVE  /\ ListenTypeOK /\ lists \in [Own -> Lists] /\ calls \in [Handles -> Nat]
           /\ at \in Nat /\ due \subseteq Handles /\ walk \in Own \cup {NoWalk}
           /\ Handles \subseteq Nat /\ \A h \in Handles : h > 0
           /\ walk # NoWalk => state # "INIT" /\ walk \in Own
<1>1. ListenTypeOK /\ Handles \subseteq Nat /\ \A h \in Handles : h > 0
    BY NumbersTyped DEF KInv, Handles
<1>2. /\ lists \in [Own -> Lists] /\ calls \in [Handles -> Nat]
      /\ at \in Nat /\ due \subseteq Handles /\ walk \in Own \cup {NoWalk}
    BY <1>1 DEF ListenTypeOK
<1>3. walk # NoWalk => state # "INIT"
    BY BusyIsBuilt
<1> QED
    BY <1>1, <1>2, <1>3

\* Nothing of the walk moves, and no handle is taken from a list.
LEMMA CalledSame ==
    ASSUME KInv, Called, UNCHANGED <<calls, walk, at>>, confirmed \subseteq confirmed',
           Used \subseteq Used', \A h \in Used : kind'[h] = kind[h],
           walk # NoWalk => \A h \in due' : h \in DOMAIN lists'[walk] /\ (h \in due \/ ~(h <= at))
    PROVE  Called'
<1>1. walk # NoWalk => \A h \in due' : h \in DOMAIN lists'[walk] /\ (h <= at => calls[h] = 1)
    BY DEF Called
<1>2. /\ \A h \in Handles : calls'[h] \in {0, 1}
      /\ \A h \in Handles : calls'[h] = 1 =>
            /\ h \in Used' /\ kind'[h] \in Own
            /\ kind'[h] \in confirmed' \/ (walk' = kind'[h] /\ h <= at')
    BY DEF Called
<1> QED
    BY <1>1, <1>2 DEF Called

LEMMA CalledListen ==
    ASSUME KInv, Called, NEW h, NEW k, NEW v, listen(h, k, v) \/ unlisten(h, k), walk # NoWalk
    PROVE  /\ \A g \in DOMAIN lists[walk] : g # h => g \in DOMAIN lists'[walk]
           /\ listen(h, k, v) => \A g \in DOMAIN lists[walk] : g \in DOMAIN lists'[walk]
           /\ listen(h, k, v) /\ k = walk => h \in DOMAIN lists'[walk]
<1>1. lists \in [Own -> Lists] /\ walk \in Own /\ state # "INIT"
    BY CalledTyped
<1>2. \/ lists'[walk] = lists[walk] /\ (listen(h, k, v) => k # walk)
      \/ lists'[walk] = Insert(lists[walk], h, v)
      \/ lists'[walk] = Erase(lists[walk], h) /\ unlisten(h, k) /\ ~listen(h, k, v)
  <2>1. CASE listen(h, k, v)
      BY <1>1, <2>1 DEF listen, IsDelayed, IsOwn
  <2>2. CASE ~listen(h, k, v)
      BY <1>1, <2>2 DEF unlisten, IsOwn
  <2> QED
      BY <2>1, <2>2
<1> QED
    BY <1>2 DEF Insert, Erase

LEMMA CalledUser ==
    ASSUME KInv, Called,
           (\E k \in UserKinds : ListensNew(k)) \/ UserListensAgain \/ UserUnlistens
    PROVE  Called'
<1>1. ASSUME NEW k \in UserKinds, ListensNew(k)
      PROVE  Called'
  <2> DEFINE g == Len(kind) + 1
  <2>1. /\ listen(g, k, 1) /\ due' = IF walk = k THEN due \cup {g} ELSE due
        /\ UNCHANGED <<calls, walk, at, confirmed>>
      BY <1>1 DEF ListensNew, portSide
  <2>2. /\ Used \subseteq Used' /\ \A h \in Used : kind'[h] = kind[h]
        /\ ~(g <= at)
    <3>1. KindGrows
        BY <1>1, CalledTyped, KindAppended
    <3>2. Used \subseteq Used' /\ \A h \in Used : kind'[h] = kind[h]
        BY <3>1, CalledTyped, UsedGrows
    <3>3. at \in Used \cup {0} /\ Len(kind) \in Nat
        BY CalledTyped, UsedTyped DEF KInv, Wired, RunningWired
    <3> QED
        BY <3>2, <3>3 DEF Used
  <2> HIDE DEF g
  <2>3. walk # NoWalk => \A h \in due' : h \in DOMAIN lists'[walk] /\ (h \in due \/ ~(h <= at))
      BY <2>1, <2>2, CalledListen DEF Called
  <2> QED
      BY <2>1, <2>2, <2>3, CalledSame
<1>2. ASSUME UserListensAgain
      PROVE  Called'
  <2>1. PICK h \in Used : listen(h, kind[h], changes + 2)
      BY <1>2 DEF UserListensAgain, Used
  <2>2. /\ UNCHANGED <<calls, walk, at, confirmed, due, kind>> /\ Used' = Used
      BY <1>2, CalledTyped, SameKind DEF UserListensAgain, walkVars
  <2>3. walk # NoWalk => \A g \in due' : g \in due /\ g \in DOMAIN lists'[walk]
      BY <2>1, <2>2, CalledListen DEF Called
  <2> QED
      BY <2>2, <2>3, CalledSame
<1>3. ASSUME UserUnlistens
      PROVE  Called'
  <2>1. PICK h \in Used : unlisten(h, kind[h]) /\ due' = due \ {h}
      BY <1>3 DEF UserUnlistens, Used
  <2>2. /\ UNCHANGED <<calls, walk, at, confirmed, kind>> /\ Used' = Used
      BY <1>3, CalledTyped, SameKind DEF UserUnlistens
  <2>3. walk # NoWalk => \A g \in due' : g \in due /\ g \in DOMAIN lists'[walk]
      BY <2>1, CalledListen DEF Called
  <2> QED
      BY <2>2, <2>3, CalledSame
<1> QED
    BY <1>1, <1>2, <1>3

\* The walk owes a call to what was asked for.
LEMMA DueIs ==
    ASSUME AskedInv, state # "INIT", NEW k \in Own, NEW h \in Used, kind[h] = k, asked[h] # 0
    PROVE  h \in DOMAIN lists[k]
<1>1. AsAsked(h) /\ h \notin early
    BY DEF AskedInv, Versioned
<1>2. InForce(h) = In(lists[k], h)
    BY InForceIs
<1>3. In(lists[k], h) # 0
    BY <1>1, <1>2 DEF AsAsked
<1> QED
    BY <1>3 DEF In

LEMMA CalledStart ==
    ASSUME AskedInv, Called, walk = NoWalk, state # "INIT", NEW k \in Own, StartWalk(k),
           UNCHANGED <<calls, kind, lists, confirmed>>
    PROVE  Called'
<1>1. walk' = k /\ at' = 0 /\ due' = {h \in Used : kind[h] = k /\ asked[h] # 0} /\ Used' = Used
    BY DEF StartWalk, Used
<1>2. Used \subseteq Handles /\ \A h \in Handles : h > 0 /\ h \in Nat
    BY CalledTyped, UsedTyped DEF AskedInv
<1>3. NoWalk \notin Own
    BY NumbersTyped
<1>4. \A h \in due' : h \in DOMAIN lists'[walk'] /\ ~(h <= at')
    BY <1>1, <1>2, DueIs
<1>5. \A h \in Handles : calls'[h] \in {0, 1}
    BY DEF Called
<1>6. \A h \in Handles : calls'[h] = 1 => h \in Used' /\ kind'[h] \in Own /\ kind'[h] \in confirmed'
    BY <1>1, <1>3 DEF Called
<1> QED
    BY <1>4, <1>5, <1>6 DEF Called

LEMMA CalledOwn ==
    ASSUME KInv, Called, NEW CONSTANT st, Staged(st), callOwn
    PROVE  Called'
<1>1. walk \in Own /\ walk # NoWalk /\ UNCHANGED <<walk, due, lists, kind, confirmed>> /\ Used' = Used
    BY AheadIs, NumbersTyped DEF callOwn, userVars, Used
<1>2. PICK h \in Ahead : /\ \A j \in Ahead : h <= j
                        /\ at' = h /\ calls' = [calls EXCEPT ![h] = @ + 1]
                        /\ h \in DOMAIN lists[walk] /\ h > at /\ h \in Used /\ kind[h] = walk
                        /\ h \in Handles
    BY AheadIs
<1>3. /\ at \in Nat /\ Handles \subseteq Nat /\ calls \in [Handles -> Nat] /\ due \subseteq Handles
    BY CalledTyped
<1>4. calls[h] = 0
  <2>1. walk \notin confirmed
      BY <1>1, WalkIs
  <2>2. ~(h <= at)
      BY <1>2, <1>3
  <2> QED
      BY <1>2, <2>1, <2>2 DEF Called
<1>5. \A g \in Handles : calls'[g] = IF g = h THEN 1 ELSE calls[g]
    BY <1>2, <1>3, <1>4
<1>6. \A g \in Handles : calls'[g] \in {0, 1}
    BY <1>5 DEF Called
<1>7. ASSUME NEW g \in Handles, calls'[g] = 1
      PROVE  /\ g \in Used' /\ kind'[g] \in Own
             /\ kind'[g] \in confirmed' \/ (walk' = kind'[g] /\ g <= at')
  <2>1. CASE g = h
      BY <1>1, <1>2, <1>3, <2>1
  <2>2. CASE g # h
    <3>1. /\ g \in Used /\ kind[g] \in Own
          /\ kind[g] \in confirmed \/ (walk = kind[g] /\ g <= at)
        BY <1>5, <1>7, <2>2 DEF Called
    <3>2. g <= at => g <= h
        BY <1>2, <1>3
    <3> QED
        BY <1>1, <1>2, <3>1, <3>2
  <2> QED
      BY <2>1, <2>2
<1>8. ASSUME NEW g \in due'
      PROVE  g \in DOMAIN lists'[walk'] /\ (g <= at' => calls'[g] = 1)
  <2>1. g \in due /\ g \in DOMAIN lists[walk] /\ (g <= at => calls[g] = 1) /\ g \in Handles /\ g \in Nat
      BY <1>1, <1>3 DEF Called
  <2>2. g > at => g \in Ahead /\ h <= g
      BY <1>2, <2>1 DEF Ahead
  <2>3. g <= h => g = h \/ g <= at
      BY <1>2, <1>3, <2>1, <2>2
  <2> QED
      BY <1>1, <1>2, <1>5, <2>1, <2>3
<1> QED
    BY <1>6, <1>7, <1>8 DEF Called

LEMMA CalledKept ==
    ASSUME AskedInv, Called, NEW CONSTANT st, Staged(st),
           ListenNext \/ (\E k \in UserKinds : ListensNew(k)) \/ UNCHANGED listenVars
    PROVE  Called'
<1>1. KInv
    BY DEF AskedInv
<1>2. ASSUME UNCHANGED <<calls, walk, at, due, lists, kind>>, confirmed \subseteq confirmed'
      PROVE  Called'
    BY <1>1, <1>2, CalledSame DEF Called, Used
<1>3. ASSUME \/ processCommands \/ takeEvent \/ eventDone \/ userReturns
             \/ NewChild \/ othersPublish \/ childConfirms \/ UNCHANGED listenVars
      PROVE  Called'
  <2>1. UNCHANGED <<calls, walk, at, due, lists, kind, confirmed>>
      BY <1>3 DEF processCommands, takeEvent, eventDone, userReturns, NewChild, othersPublish,
                  childConfirms, listenVars, walkVars, userVars
  <2> QED
      BY <1>2, <2>1
<1>4. ASSUME callUser
      PROVE  Called'
  <2>1. PICK k \in Kinds \ Own : current = <<k>>
      BY <1>1, <1>4, CurrentIs DEF callUser, MayCall
  <2>2. UNCHANGED <<calls, walk, at, due, lists, kind, confirmed>>
      BY <1>4, <2>1 DEF callUser, OnPort, userVars
  <2> QED
      BY <1>2, <2>2
<1>5. ASSUME ActorLifeCycle
      PROVE  Called'
  <2>1. walk = NoWalk /\ UNCHANGED <<calls, walk, at, due, kind, confirmed>>
      BY <1>1, <1>5, CalledTyped DEF ActorLifeCycle, walkVars, userVars
  <2> QED
      BY <1>1, <2>1, CalledSame DEF Used
<1>6. ASSUME callRequest \/ callChildCnf
      PROVE  Called'
  <2>1. /\ walk = NoWalk /\ UNCHANGED <<calls, kind, lists, confirmed>> /\ state # "INIT"
      BY <1>1, <1>6, MovesIs DEF callRequest, callChildCnf, MayCall, userVars, Moves
  <2>2. UNCHANGED <<walk, at, due>> \/ StartWalk(CnfOf(current[1]))
      BY <1>6 DEF callRequest, callChildCnf
  <2>3. CnfOf(current[1]) \in Own
      BY DEF CnfOf, Own
  <2> QED
      BY <1>2, <2>1, <2>2, <2>3, CalledStart
<1>7. ASSUME publishCnf
      PROVE  Called'
  <2>1. /\ walk' = NoWalk /\ confirmed' = confirmed \cup {walk} /\ UNCHANGED <<calls, kind>>
      BY <1>7 DEF publishCnf, userVars
  <2> QED
      BY <2>1 DEF Called, Used
<1> QED
    BY <1>1, <1>3, <1>4, <1>5, <1>6, <1>7, ListenNextIs, CalledUser, CalledOwn DEF Moves

-----------------------------------------------------------------------------
(* The invariant of the life, and what follows from it.                     *)

LifeInv == AskedInv /\ Connecting /\ Called /\ \E st : Staged(st)

LEMMA LifeInvInit ==
    ASSUME ListenInit
    PROVE  LifeInv
<1>1. AskedInv
    BY AskedInvInit
<1>2. Connecting
    BY NumbersTyped DEF ListenInit, Connecting, Served, Requests, FromChild
<1>3. Called
    BY DEF ListenInit, Called
<1> DEFINE st == [k \in Requests |-> "before"]
<1>4. \A k \in Requests \cup FromChild : Carried(k) = 0
    BY WaitingEmpty DEF ListenInit, Carried, One
<1>5. Staged(st)
  <2>1. st \in [Requests -> Stages] /\ \A k \in Requests : st[k] = "before"
      BY DEF Stages
  <2> HIDE DEF st
  <2>2. Ordered(st)
      BY <2>1, MessagesAre DEF ListenInit, Ordered
  <2>3. ASSUME NEW k \in Requests
        PROVE  InStage(k, "before")
    <3>1. CnfOf(k) # NoWalk /\ PrivCnfOf(k) \in FromChild
        BY MessagesAre DEF NoWalk
    <3> QED
        BY <1>4, <3>1 DEF ListenInit, InStage, One
  <2> QED
      BY <2>1, <2>2, <2>3 DEF Staged
<1> QED
    BY <1>1, <1>2, <1>3, <1>5 DEF LifeInv

\* The steps of the actor, of the others, and of a listen of SmlActor.
LEMMA LifeInvKept ==
    ASSUME LifeInv,
           ListenNext \/ (\E k \in UserKinds : ListensNew(k)) \/ UNCHANGED listenVars
    PROVE  LifeInv'
<1>1. AskedInv'
    BY ListenNextAsked, ListensNewAsked, AskedInvStutters DEF LifeInv
<1>2. Connecting'
    BY ConnectingKept DEF LifeInv, AskedInv
<1>3. PICK st : Staged(st)
    BY DEF LifeInv
<1>4. KInv /\ AskedInv /\ Connecting /\ Called
    BY DEF LifeInv, AskedInv
<1>5. Called'
    BY <1>3, <1>4, CalledKept
<1>6. \E t : Staged(t)'
    BY <1>3, <1>4, StagedKept
<1> QED
    BY <1>1, <1>2, <1>5, <1>6 DEF LifeInv

LEMMA CalledOnce ==
    ASSUME LifeInv
    PROVE  OwnCalledOnce
BY DEF LifeInv, Called, OwnCalledOnce

LEMMA StateIs ==
    ASSUME LifeInv
    PROVE  StateInCallback
<1>1. PICK st : Staged(st)
    BY DEF LifeInv
<1>2. KInv /\ children \in Nat
    BY LifeNumbers DEF LifeInv, AskedInv
<1> SUFFICES ASSUME running # Nobody
             PROVE  LET k == kind[running] IN
                    /\ k = "StartCnf" => state = "STARTED"
                    /\ k = "StopCnf" => state = IF children = 0 THEN "STARTED" ELSE "STOPPED"
                    /\ k = "StartReq" => state = "CTOR_FINISHED" \/ (children = 0 /\ state = "STARTED")
                    /\ k = "StopReq" => state = "STARTED" \/ (children = 0 /\ state = "STOPPED")
    BY DEF StateInCallback
<1> DEFINE k == kind[running]
<1>3. /\ state # "INIT"
      /\ \/ k \in Own /\ walk = k
         \/ k \notin Own /\ current = <<k>>
  <2>1. state # "INIT" /\ current # <<>>
      BY <1>2, BusyIsBuilt
  <2>2. \/ k \in Own /\ walk = k
        \/ k \notin Own /\ k = current[1]
      BY <1>2 DEF KInv, Wired, RunningWired
  <2>3. PICK j \in Kinds \ Own : current = <<j>>
      BY <1>2, <2>1, CurrentIs
  <2> QED
      BY <2>1, <2>2, <2>3
<1> HIDE DEF k
<1>4. ASSUME k \in Own
      PROVE  /\ k = "StartCnf" => state = "STARTED"
             /\ k = "StopCnf" => state = IF children = 0 THEN "STARTED" ELSE "STOPPED"
  <2>1. walk = k /\ walk # NoWalk
      BY <1>3, <1>4, NumbersTyped
  <2>2. PICK j \in Requests :
            /\ walk = CnfOf(j)
            /\ j = "StartReq" => state = "STARTED"
            /\ j = "StopReq" => state = IF children > 0 THEN "STOPPED" ELSE "STARTED"
      BY <1>1, <1>2, <2>1, WalkIs
  <2> QED
      BY <1>2, <2>1, <2>2, MessagesAre
<1>5. ASSUME k = "StartReq"
      PROVE  state = "CTOR_FINISHED" \/ (children = 0 /\ state = "STARTED")
  <2>1. /\ current = <<"StartReq">> /\ state = StateOf(st) /\ st["StopReq"] \in {"before", "asked"}
        /\ children > 0 => st["StartReq"] \in {"asked", "collecting"}
      BY <1>1, <1>3, <1>5, MessagesAre, NumbersTyped DEF Staged, Ordered, InStage
  <2> QED
      BY <1>2, <2>1 DEF StateOf
<1>6. ASSUME k = "StopReq"
      PROVE  state = "STARTED" \/ (children = 0 /\ state = "STOPPED")
  <2>1. /\ current = <<"StopReq">> /\ state = StateOf(st)
        /\ st["StopReq"] # "before" /\ st["StartReq"] = "done"
        /\ children > 0 => st["StopReq"] \in {"asked", "collecting"}
      BY <1>1, <1>3, <1>6, MessagesAre, NumbersTyped DEF Staged, Ordered, InStage
  <2> QED
      BY <1>2, <2>1 DEF StateOf
<1> QED
    BY <1>4, <1>5, <1>6 DEF Own, k

LEMMA OwnFirst ==
    ASSUME LifeInv,
           ListenNext \/ (\E k \in UserKinds : ListensNew(k)) \/ UNCHANGED listenVars
    PROVE  \A k \in confirmed' \ confirmed : \A h \in due : calls[h] = 1
<1> SUFFICES ASSUME NEW k \in confirmed' \ confirmed, NEW h \in due
             PROVE  calls[h] = 1
    OBVIOUS
<1>1. publishCnf
    BY ListenNextIs DEF NewChild, ActorLifeCycle, processCommands, Moves, takeEvent, eventDone, callUser,
       userReturns, callRequest, callChildCnf, callOwn, othersPublish, childConfirms,
       UserListensAgain, UserUnlistens, ListensNew, listenVars, portSide
<1>2. walk # NoWalk /\ h \in DOMAIN lists[walk] /\ (h <= at => calls[h] = 1) /\ Ahead = {}
    BY <1>1 DEF publishCnf, LoopDone, LifeInv, Called
<1>3. at \in Nat /\ h \in Nat /\ ~(h > at)
    BY <1>2, CalledTyped DEF LifeInv, AskedInv, Ahead
<1> QED
    BY <1>2, <1>3

-----------------------------------------------------------------------------
(* What a step does to the queue, the handles and the calls.                *)

LEMMA KindKept ==
    ASSUME KInv, ListenNext \/ (\E k \in UserKinds : ListensNew(k)) \/ UNCHANGED listenVars
    PROVE  Used \subseteq Used' /\ \A h \in Used : kind'[h] = kind[h]
<1>1. ListenTypeOK
    BY DEF KInv
<1>2. ASSUME NEW k \in UserKinds, ListensNew(k)
      PROVE  KindGrows
    BY <1>1, <1>2, KindAppended
<1>3. ASSUME UNCHANGED kind
      PROVE  KindGrows
    BY <1>1, <1>3, SameKind
<1>4. KindGrows
    BY <1>2, <1>3, ListenNextIs, MovesIs DEF NewChild, ActorLifeCycle, processCommands, UserListensAgain,
       UserUnlistens, listenVars, listening, userVars
<1> QED
    BY <1>1, <1>4, UsedGrows

\* A request that was published is not published again.
LEMMA WaitingKept ==
    ASSUME KInv, ListenNext \/ (\E k \in UserKinds : ListensNew(k)) \/ UNCHANGED listenVars,
           NEW CONSTANT k \in Requests, k \in sent
    PROVE  k \in sent' /\ (Waiting(events, k) = 0 => Waiting(events, k)' = 0)
<1>1. events \in Seq(Kinds) /\ Requests \cap FromChild = {} /\ Requests \cap Own = {}
    BY NumbersTyped, MessagesAre DEF KInv, ListenTypeOK
<1>2. ASSUME NEW j \in Kinds, j # k, Delivered(j)
      PROVE  Waiting(events, k)' = Waiting(events, k)
  <2>1. Waiting(Append(events, j), k) = Waiting(events, k) + One(j = k)
      BY <1>1, WaitingAppend
  <2>2. Waiting(events, k) \in Nat
      BY <1>1, WaitingIs
  <2> QED
      BY <1>2, <2>1, <2>2 DEF Delivered, One
<1>3. CASE othersPublish
  <2>1. PICK j \in Requests \cup {"OtherCnf"} : j \notin sent /\ sent' = sent \cup {j} /\ Delivered(j)
      BY <1>3 DEF othersPublish
  <2>2. j \in Kinds /\ j # k
      BY <2>1, MessagesAre DEF Kinds, Confirmations
  <2> QED
      BY <1>2, <2>1, <2>2
<1>4. CASE childConfirms
  <2>1. PICK j \in FromChild : Delivered(j)
      BY <1>4 DEF childConfirms
  <2>2. j \in Kinds /\ j # k
      BY <1>1, <2>1, MessagesAre
  <2> QED
      BY <1>2, <1>4, <2>1, <2>2 DEF childConfirms
<1>5. CASE takeEvent
  <2>1. /\ events # <<>> /\ events' = Tail(events) /\ events' \in Seq(Kinds) /\ UNCHANGED sent
      BY <1>1, <1>5 DEF takeEvent, envVars
  <2>2. Waiting(events, k) = Waiting(Tail(events), k) + One(Head(events) = k)
      BY <1>1, <2>1, WaitingTail
  <2>3. Waiting(events', k) \in Nat
      BY <2>1, WaitingIs
  <2> QED
      BY <2>1, <2>2, <2>3 DEF One
<1>6. CASE publishCnf
  <2>1. walk \in Own /\ listened \cap Own = {} /\ UNCHANGED sent
      BY <1>6 DEF KInv, ListenTypeOK, Wired, EventsWired, publishCnf, envVars
  <2> QED
      BY <1>6, <2>1 DEF publishCnf
<1>7. CASE UNCHANGED <<events, sent>>
    BY <1>7
<1> QED
    BY <1>3, <1>4, <1>5, <1>6, <1>7, ListenNextIs DEF NewChild, ActorLifeCycle, processCommands, Moves,
       eventDone, callUser, userReturns, callRequest, callChildCnf, callOwn, UserListensAgain,
       UserUnlistens, ListensNew, listenVars, portSide, eventVars, envVars

\* A request the port is at work on is not in the queue again.
Taken == \A k \in Requests : current = <<k>> => k \in sent /\ Waiting(events, k) = 0

LEMMA TakenKept ==
    ASSUME LifeInv, Taken, ListenNext \/ (\E k \in UserKinds : ListensNew(k)) \/ UNCHANGED listenVars
    PROVE  Taken'
<1> SUFFICES ASSUME NEW k \in Requests, current' = <<k>>
             PROVE  k \in sent' /\ Waiting(events, k)' = 0
    BY DEF Taken
<1>1. KInv
    BY DEF LifeInv, AskedInv
<1>2. CASE current = <<k>>
    BY <1>1, <1>2, WaitingKept DEF Taken
<1>3. CASE current # <<k>>
  <2>1. takeEvent
      BY <1>3, ListenNextIs DEF NewChild, ActorLifeCycle, processCommands, Moves,
         eventDone, callUser, userReturns, callRequest, callChildCnf, callOwn, publishCnf, othersPublish,
         childConfirms, UserListensAgain, UserUnlistens, ListensNew, listenVars, portSide, eventVars
  <2>2. /\ events \in Seq(Kinds) /\ events # <<>> /\ events' = Tail(events) /\ current = <<>>
        /\ Head(events) = k /\ UNCHANGED sent
      BY <1>1, <2>1 DEF KInv, ListenTypeOK, takeEvent, Idle, envVars
  <2>3. Waiting(events, k) = Waiting(Tail(events), k) + 1 /\ Waiting(Tail(events), k) \in Nat
    <3>1. Waiting(events, k) = Waiting(Tail(events), k) + One(Head(events) = k)
        BY <2>2, WaitingTail
    <3>2. Tail(events) \in Seq(Kinds)
        BY <2>2
    <3> QED
        BY <2>2, <3>1, <3>2, WaitingIs DEF One
  <2>4. Carried(k) = Waiting(events, k)
      BY <1>1, <2>2, CarriedIs
  <2>5. Carried(k) = 1 /\ k \in sent
    <3>1. PICK st : Staged(st)
        BY DEF LifeInv
    <3>2. Carried(k) # 0
        BY <2>3, <2>4
    <3> QED
        BY <1>1, <3>1, <3>2, CarriedRequest
  <2> QED
      BY <2>2, <2>3, <2>4, <2>5
<1> QED
    BY <1>2, <1>3

\* Only the walk calls for an own confirmation.
LEMMA CallsKept ==
    ASSUME KInv, ListenNext \/ (\E k \in UserKinds : ListensNew(k)) \/ UNCHANGED listenVars
    PROVE  /\ callOwn \/ UNCHANGED calls
           /\ callOwn \/ callUser \/ UNCHANGED running \/ running' = Nobody
<1>1. callUser => UNCHANGED calls
  <2> SUFFICES ASSUME callUser
               PROVE  UNCHANGED calls
      OBVIOUS
  <2>1. PICK k \in Kinds \ Own : current = <<k>>
      BY CurrentIs DEF callUser, MayCall
  <2> QED
      BY <2>1 DEF callUser, OnPort
<1> QED
    BY <1>1, ListenNextIs DEF NewChild, ActorLifeCycle, processCommands, Moves,
       takeEvent, eventDone, userReturns, callRequest, callChildCnf, publishCnf, othersPublish,
       childConfirms, UserListensAgain, UserUnlistens, ListensNew, listenVars, portSide, walkVars
=============================================================================
