------------------------------- MODULE Listen -------------------------------
(***************************************************************************)
(* What one actor listens to: Actor::listen and Actor::unlisten with the   *)
(* listens the constructor has to delay, the two lists of callbacks for    *)
(* the actor's own confirmations, the commands and callbacks of its port,  *)
(* and the part of ActorLifeCycle and newChild that calls them.            *)
(*                                                                         *)
(* A message is its type.  Three of the types are confirmations (derived   *)
(* from StartCnfHelper or StopCnfHelper): the actor's own two, and the one *)
(* of some other actor.  A callback is a version of what its handle stands *)
(* for, so that a second listen with the same handle is told from the      *)
(* first.  Threads, and when the port is scheduled, are Messaging's: here  *)
(* the actor has one thread and consumes whenever there is work.           *)
(***************************************************************************)
EXTENDS Naturals, Sequences, FiniteSets, FiniteSetsExt

CONSTANTS
    MaxHandles,      \* bound: the user listens with so many handles
    MaxChanges,      \* bound: and so often unlistens, or listens again with a handle
    MaxChildren,     \* bound: children the constructor may create
    UnlistensItself  \* may a callback for an own confirmation unlisten itself?

ASSUME ListenAssumption ==
    /\ MaxHandles \in Nat \ {0}
    /\ MaxChanges \in Nat
    /\ MaxChildren \in Nat
    /\ UnlistensItself \in BOOLEAN

Own == {"StartCnf", "StopCnf"}
Confirmations == Own \cup {"OtherCnf"}
Requests == {"StartReq", "StopReq"}
FromChild == {"PrivStartCnf", "PrivStopCnf"}
Kinds == Confirmations \cup Requests \cup FromChild
UserKinds == Confirmations \cup Requests

Handles == 1 .. MaxHandles
LifeCycle == 0              \* the handle of a listen ActorLifeCycle or newChild makes
Versions == 1 .. MaxChanges + 1
Nobody == MaxHandles + 1    \* no callback of the user is running
NoWalk == "none"

VARIABLES
    state,           \* state_
    children,        \* children_.size()
    childrenCnfCount,
    kind,            \* kind[h]: the message handle h listens to; Len(kind) = handleCounter_
    delayedListens,  \* delayedListens_: [h, v]
    lists,           \* publicStartCallbackList_, publicStopCallbackList_: handle -> version
    commands,        \* commandsQueue_ of the port: [k, h, v], version 0 is an unlisten
    callbacks,       \* callbacks_ of the port: per message, handle -> version
    listened,        \* the messages the port has listened to on the network
    events,          \* eventQueue_ of the port
    current,         \* the event whose callbacks are being called, <<>> if none
    left,            \* and the handles whose callbacks are not called yet
    walk,            \* the own confirmation whose list is being walked
    at,              \* the handle the walk stands on
    running,         \* the handle whose callback of the user is running
    undefined,       \* has an element been erased under a loop?
    sent,            \* environment: messages others have published to this actor
    owed,            \* environment: confirmations the children still owe
    changes,         \* history: how often the user has unlistened or listened again
    asked,           \* history: the version the user wants for a handle, 0: none
    early,           \* history: handles unlistened in the constructor
    calls,           \* history: how often an own confirmation reached a handle
    due,             \* history: handles the current walk owes a call
    confirmed        \* history: own confirmations published

portVars == <<commands, callbacks, listened>>
eventVars == <<events, current, left>>
walkVars == <<walk, at, due, calls>>
userVars == <<kind, asked, early, changes>>
envVars == <<sent, owed>>
listenVars == <<state, children, childrenCnfCount, delayedListens, lists, running, undefined,
                confirmed, portVars, eventVars, walkVars, userVars, envVars>>

NoCallbacks == [h \in {} |-> 0]

ListenInit ==
    /\ state = "INIT"
    /\ children = 0
    /\ childrenCnfCount = 0
    /\ kind = <<>>
    /\ delayedListens = <<>>
    /\ lists = [k \in Own |-> NoCallbacks]
    /\ commands = <<>>
    /\ callbacks = [k \in Kinds |-> NoCallbacks]
    /\ listened = {}
    /\ events = <<>>
    /\ current = <<>>
    /\ left = {}
    /\ walk = NoWalk
    /\ at = 0
    /\ running = Nobody
    /\ undefined = FALSE
    /\ sent = {}
    /\ owed = [k \in FromChild |-> 0]
    /\ changes = 0
    /\ asked = [h \in Handles |-> 0]
    /\ early = {}
    /\ calls = [h \in Handles |-> 0]
    /\ due = {}
    /\ confirmed = {}

-----------------------------------------------------------------------------
(* std::map::insert keeps what is there, container_[handle] = replaces it. *)

Insert(list, h, v) ==
    [i \in DOMAIN list \cup {h} |-> IF i \in DOMAIN list THEN list[i] ELSE v]
Replace(list, h, v) ==
    [i \in DOMAIN list \cup {h} |-> IF i = h THEN v ELSE list[i]]
Erase(list, h) == [i \in DOMAIN list \ {h} |-> list[i]]

Command(k, h, v) == [k |-> k, h |-> h, v |-> v]

(* The type ids of the own confirmations are void until the constructor of
   ActorLifeCycle stores them, just before CTOR_FINISHED. *)
IsOwn(k) == k \in Own /\ state # "INIT"

\* Fault: no listen is delayed.
NeverDelayed(k) == FALSE

IsDelayed(k) == k \in Confirmations /\ state = "INIT"

(* Actor::listen(handle, callBack) *)
listen(h, k, v) ==
    \/ /\ IsDelayed(k)
       /\ delayedListens' = Append(delayedListens, [h |-> h, v |-> v])
       /\ UNCHANGED <<lists, commands>>
    \/ /\ IsOwn(k)
       /\ lists' = [lists EXCEPT ![k] = Insert(@, h, v)]
       /\ UNCHANGED <<delayedListens, commands>>
    \/ /\ ~IsDelayed(k) /\ ~IsOwn(k)
       /\ commands' = Append(commands, Command(k, h, v))
       /\ UNCHANGED <<delayedListens, lists>>

(* Actor::unlisten(handle).  Erasing the element a loop of std::map stands on
   invalidates the iterator the loop increments next. *)
unlisten(h, k) ==
    /\ \/ /\ IsOwn(k)
          /\ lists' = [lists EXCEPT ![k] = Erase(@, h)]
          /\ undefined' = (walk = k /\ at = h)
          /\ UNCHANGED commands
       \/ /\ ~IsOwn(k)
          /\ commands' = Append(commands, Command(k, h, 0))
          /\ UNCHANGED <<lists, undefined>>
    /\ UNCHANGED delayedListens

(* The code of the user runs in the constructor and in callbacks. *)
UserRuns == ~undefined /\ (state = "INIT" \/ running # Nobody)

(* listen(callBack) of the user, with the next handle. *)
UserListens ==
    /\ UserRuns
    /\ Len(kind) < MaxHandles
    /\ \E k \in UserKinds :
          LET h == Len(kind) + 1 IN
          /\ kind' = Append(kind, k)
          /\ asked' = [asked EXCEPT ![h] = 1]
          /\ listen(h, k, 1)
          /\ due' = IF walk = k THEN due \cup {h} ELSE due
    /\ UNCHANGED <<state, children, childrenCnfCount, callbacks, listened, eventVars, walk, at,
                   calls, running, undefined, early, changes, confirmed, envVars>>

(* listen(handle, callBack) of the user, with a handle used before. *)
UserListensAgain ==
    /\ UserRuns
    /\ changes < MaxChanges
    /\ changes' = changes + 1
    /\ \E h \in 1 .. Len(kind) :
          /\ asked' = [asked EXCEPT ![h] = changes + 2]
          /\ listen(h, kind[h], changes + 2)
          /\ early' = early \ {h}
    /\ UNCHANGED <<state, children, childrenCnfCount, callbacks, listened, eventVars, walkVars,
                   kind, running, undefined, confirmed, envVars>>

UserUnlistens ==
    /\ UserRuns
    /\ changes < MaxChanges
    /\ changes' = changes + 1
    /\ \E h \in 1 .. Len(kind) :
          /\ asked[h] # 0
          /\ walk = kind[h] /\ at = h => UnlistensItself
          /\ asked' = [asked EXCEPT ![h] = 0]
          /\ early' = IF IsDelayed(kind[h]) THEN early \cup {h} ELSE early
          /\ unlisten(h, kind[h])
          /\ due' = due \ {h}
    /\ UNCHANGED <<state, children, childrenCnfCount, callbacks, listened, eventVars, walk, at,
                   calls, kind, running, confirmed, envVars>>

(* newChild in the constructor.  The children are of different types, each
   with confirmations of its own, which are one kind here. *)
NewChild ==
    /\ state = "INIT"
    /\ children < MaxChildren
    /\ children' = children + 1
    /\ commands' = commands \o <<Command("PrivStartCnf", LifeCycle, 1),
                                 Command("PrivStopCnf", LifeCycle, 1)>>
    /\ UNCHANGED <<state, childrenCnfCount, delayedListens, lists, callbacks, listened, eventVars,
                   walkVars, running, undefined, userVars, confirmed, envVars>>

(* A delayed listen goes to the own list or to the port once the type ids are
   known, in the order of the listens: an own list keeps the first of a handle. *)
DelayedFor(k) == {h \in {delayedListens[i].h : i \in DOMAIN delayedListens} : kind[h] = k}
FirstOf(h) == Min({i \in DOMAIN delayedListens : delayedListens[i].h = h})
Replayed(k) == [h \in DelayedFor(k) |-> delayedListens[FirstOf(h)].v]

DelayedCommand(i) ==
    Command(kind[delayedListens[i].h], delayedListens[i].h, delayedListens[i].v)

\* Fault: the port gets the own confirmations too.
AllToPort == [i \in DOMAIN delayedListens |-> DelayedCommand(i)]

ReplayedToPort ==
    LET port[i \in 0 .. Len(delayedListens)] ==
            IF i = 0 THEN <<>>
            ELSE IF kind[delayedListens[i].h] \in Own THEN port[i - 1]
            ELSE Append(port[i - 1], DelayedCommand(i))
    IN  port[Len(delayedListens)]

(* The constructor of ActorLifeCycle. *)
ActorLifeCycle ==
    /\ state = "INIT"
    /\ state' = "CTOR_FINISHED"
    /\ lists' = [k \in Own |-> Replayed(k)]
    /\ delayedListens' = <<>>
    /\ commands' = commands \o ReplayedToPort \o <<Command("StartReq", LifeCycle, 1),
                                                   Command("StopReq", LifeCycle, 1)>>
    /\ UNCHANGED <<children, childrenCnfCount, callbacks, listened, eventVars, walkVars, running,
                   undefined, userVars, confirmed, envVars>>

-----------------------------------------------------------------------------
(* Port::consume: the commands first, then one event, then commands again.  *)

Idle == current = <<>> /\ ~undefined /\ state # "INIT"

processCommands ==
    /\ Idle
    /\ commands # <<>>
    /\ LET c == Head(commands) IN
          IF c.v = 0
          THEN /\ callbacks' = [callbacks EXCEPT ![c.k] = Erase(@, c.h)]
               /\ UNCHANGED listened
          ELSE /\ callbacks' = [callbacks EXCEPT ![c.k] = Replace(@, c.h, c.v)]
               /\ listened' = listened \cup {c.k}
    /\ commands' = Tail(commands)
    /\ UNCHANGED <<state, children, childrenCnfCount, delayedListens, lists, eventVars, walkVars,
                   running, undefined, userVars, confirmed, envVars>>

takeEvent ==
    /\ Idle
    /\ commands = <<>>
    /\ events # <<>>
    /\ current' = <<Head(events)>>
    /\ left' = DOMAIN callbacks[Head(events)]
    /\ events' = Tail(events)
    /\ UNCHANGED <<state, children, childrenCnfCount, delayedListens, lists, portVars, walkVars,
                   running, undefined, userVars, confirmed, envVars>>

(* One callback of the event at a time, in no particular order (unordered_map). *)
MayCall == current # <<>> /\ running = Nobody /\ walk = NoWalk /\ ~undefined

eventDone ==
    /\ MayCall
    /\ left = {}
    /\ current' = <<>>
    /\ UNCHANGED <<state, children, childrenCnfCount, delayedListens, lists, portVars, events,
                   left, walkVars, running, undefined, userVars, confirmed, envVars>>

OnPort(h) == IF current[1] \in Own THEN [calls EXCEPT ![h] = @ + 1] ELSE calls

callUser ==
    /\ MayCall
    /\ \E h \in left \ {LifeCycle} :
          /\ running' = h
          /\ left' = left \ {h}
          /\ calls' = OnPort(h)
    /\ UNCHANGED <<state, children, childrenCnfCount, delayedListens, lists, portVars, events,
                   current, walk, at, due, undefined, userVars, confirmed, envVars>>

userReturns ==
    /\ running # Nobody
    /\ ~undefined
    /\ running' = Nobody
    /\ UNCHANGED <<state, children, childrenCnfCount, delayedListens, lists, portVars, eventVars,
                   walkVars, undefined, userVars, confirmed, envVars>>

-----------------------------------------------------------------------------
(* The callbacks of the life cycle.                                         *)

CnfOf(k) == IF k \in {"StartReq", "PrivStartCnf"} THEN "StartCnf" ELSE "StopCnf"
PrivCnfOf(k) == IF k = "StartReq" THEN "PrivStartCnf" ELSE "PrivStopCnf"

(* Begin the loop over the callbacks for the own confirmation. *)
StartWalk(k) ==
    /\ walk' = k
    /\ at' = 0
    /\ due' = {h \in 1 .. Len(kind) : kind[h] = k /\ asked[h] # 0}

\* Fault: the actor does not wait for its children.
Childless == TRUE

NoChildren == children = 0

\* Fault: a leaf is stopped before the loop.
StoppedFirst(k) == IF k = "StartReq" THEN "STARTED" ELSE "STOPPED"

StateInLeaf(k) == IF k = "StartReq" THEN "STARTED" ELSE state

(* StartReq and StopReq: forward to the children.  A leaf is started before
   the loop, and stopped after it. *)
callRequest ==
    /\ MayCall
    /\ LifeCycle \in left
    /\ current[1] \in Requests
    /\ left' = left \ {LifeCycle}
    /\ IF NoChildren
       THEN /\ state' = StateInLeaf(current[1])
            /\ StartWalk(CnfOf(current[1]))
            /\ UNCHANGED owed
       ELSE /\ owed' = [owed EXCEPT ![PrivCnfOf(current[1])] = children]
            /\ UNCHANGED <<state, walk, at, due>>
    /\ UNCHANGED <<children, childrenCnfCount, delayedListens, lists, portVars, events, current,
                   calls, running, undefined, userVars, confirmed, sent>>

\* Fault: the counter is not reset.
CountKept == childrenCnfCount + 1

CountReset == 0

(* A child's confirmation: the last one makes the state, then the loop. *)
callChildCnf ==
    /\ MayCall
    /\ LifeCycle \in left
    /\ current[1] \in FromChild
    /\ left' = left \ {LifeCycle}
    /\ IF childrenCnfCount + 1 = children
       THEN /\ childrenCnfCount' = CountReset
            /\ state' = IF current[1] = "PrivStartCnf" THEN "STARTED" ELSE "STOPPED"
            /\ StartWalk(CnfOf(current[1]))
       ELSE /\ childrenCnfCount' = childrenCnfCount + 1
            /\ UNCHANGED <<state, walk, at, due>>
    /\ UNCHANGED <<children, delayedListens, lists, portVars, events, current, calls, running,
                   undefined, userVars, confirmed, envVars>>

(* The loop over the std::map: the elements in the order of their handles,
   those inserted behind the current one included. *)
Ahead == {h \in DOMAIN lists[walk] : h > at}

callOwn ==
    /\ walk # NoWalk /\ running = Nobody /\ ~undefined
    /\ Ahead # {}
    /\ LET h == CHOOSE i \in Ahead : \A j \in Ahead : i <= j IN
          /\ at' = h
          /\ running' = h
          /\ calls' = [calls EXCEPT ![h] = @ + 1]
    /\ UNCHANGED <<state, children, childrenCnfCount, delayedListens, lists, portVars, eventVars,
                   walk, due, undefined, userVars, confirmed, envVars>>

\* Fault: the confirmation is published before the loop.
NotAwaited == TRUE

LoopDone == Ahead = {}

(* Behind the loop the confirmation is published: to the parent and to every
   port that has listened to it. *)
publishCnf ==
    /\ walk # NoWalk /\ running = Nobody /\ ~undefined
    /\ LoopDone
    /\ state' = IF walk = "StopCnf" THEN "STOPPED" ELSE state
    /\ confirmed' = confirmed \cup {walk}
    /\ events' = IF walk \in listened THEN Append(events, walk) ELSE events
    /\ walk' = NoWalk
    /\ UNCHANGED <<children, childrenCnfCount, delayedListens, lists, portVars, current, left, at,
                   due, calls, running, undefined, userVars, envVars>>

-----------------------------------------------------------------------------
(* The others.  The parent requests the start when every actor has consumed
   what its constructor left, and the stop when it is started; some other
   actor confirms at some time; children confirm what was requested.         *)

Consumed == state # "INIT" /\ commands = <<>> /\ current = <<>> /\ events = <<>>
MaySend(k) ==
    CASE k = "StartReq" -> Consumed
      [] k = "StopReq" -> "StartCnf" \in confirmed
      [] OTHER -> state # "INIT"

Delivered(k) == events' = IF k \in listened THEN Append(events, k) ELSE events

othersPublish ==
    /\ \E k \in Requests \cup {"OtherCnf"} :
          /\ k \notin sent /\ MaySend(k)
          /\ sent' = sent \cup {k}
          /\ Delivered(k)
    /\ UNCHANGED <<state, children, childrenCnfCount, delayedListens, lists, portVars, current,
                   left, walkVars, running, undefined, userVars, confirmed, owed>>

childConfirms ==
    /\ \E k \in FromChild :
          /\ owed[k] > 0
          /\ owed' = [owed EXCEPT ![k] = @ - 1]
          /\ Delivered(k)
    /\ UNCHANGED <<state, children, childrenCnfCount, delayedListens, lists, portVars, current,
                   left, walkVars, running, undefined, userVars, confirmed, sent>>

Constructs == NewChild \/ ActorLifeCycle
User == UserListens \/ UserListensAgain \/ UserUnlistens
Consumes == \/ processCommands \/ takeEvent \/ eventDone \/ callUser \/ userReturns
            \/ callRequest \/ callChildCnf \/ callOwn \/ publishCnf
ListenNext == Constructs \/ User \/ Consumes \/ othersPublish \/ childConfirms

(* The dispatcher runs the actor while its port has work, the callbacks of the
   user return, and the children confirm (LifeCycle). *)
ListenFairness == WF_listenVars(Consumes) /\ WF_listenVars(childConfirms)

-----------------------------------------------------------------------------
(* Properties. *)

Lists == UNION {[D -> Versions] : D \in SUBSET Handles}
PortLists == UNION {[D -> Versions] : D \in SUBSET (Handles \cup {LifeCycle})}

(* Every variable has its type. *)
ListenTypeOK ==
    /\ state \in {"INIT", "CTOR_FINISHED", "STARTED", "STOPPED"}
    /\ children \in 0 .. MaxChildren /\ childrenCnfCount \in 0 .. MaxChildren
    /\ kind \in Seq(UserKinds) /\ Len(kind) <= MaxHandles
    /\ delayedListens \in Seq([h : Handles, v : Versions])
    /\ lists \in [Own -> Lists]
    /\ commands \in Seq([k : Kinds, h : Handles \cup {LifeCycle}, v : {0} \cup Versions])
    /\ callbacks \in [Kinds -> PortLists]
    /\ listened \subseteq Kinds
    /\ events \in Seq(Kinds) /\ current \in {<<>>} \cup {<<k>> : k \in Kinds}
    /\ left \subseteq Handles \cup {LifeCycle}
    /\ walk \in Own \cup {NoWalk} /\ at \in Handles \cup {0}
    /\ running \in Handles \cup {Nobody} /\ undefined \in BOOLEAN
    /\ sent \subseteq Requests \cup {"OtherCnf"} /\ owed \in [FromChild -> 0 .. MaxChildren]
    /\ asked \in [Handles -> {0} \cup Versions] /\ early \subseteq Handles
    /\ changes \in 0 .. MaxChanges
    /\ calls \in [Handles -> Nat] /\ due \subseteq Handles /\ confirmed \subseteq Own

(* The version in force for a handle when everything delayed is replayed and
   every command of the port is processed. *)
LastOf(seq, h, otherwise) ==
    LET ours == {i \in DOMAIN seq : seq[i].h = h}
    IN  IF ours = {} THEN otherwise ELSE seq[Max(ours)].v
In(list, h) == IF h \in DOMAIN list THEN list[h] ELSE 0
InForce(h) ==
    IF kind[h] \in Own
    THEN IF state = "INIT" THEN In(Replayed(kind[h]), h) ELSE In(lists[kind[h]], h)
    ELSE LastOf(delayedListens, h, LastOf(commands, h, In(callbacks[kind[h]], h)))

(* What is in force is what the user asked for last, wherever the code keeps
   it: delayed, in an own list, in a command or in the port.  There are two
   exceptions.  A listen of the constructor to a confirmation outlives an
   unlisten of the constructor (the delayed listen is not looked for), and a
   second listen to an own confirmation keeps the first callback (insert). *)
ListensAsAsked ==
    \A h \in 1 .. Len(kind) :
        \/ InForce(h) = asked[h]
        \/ h \in early
        \/ kind[h] \in Own /\ 0 < InForce(h) /\ InForce(h) < asked[h]

(* An own confirmation reaches a handle once: from the walk, and not again
   from the message the actor publishes behind it and may listen to. *)
OwnCalledOnce == \A h \in Handles : calls[h] <= 1

(* A callback for an own confirmation runs in STARTED, where it may publish,
   except for the StopCnf of an actor with children, which is already STOPPED.
   A callback for a request of an actor with children runs before the state
   changes; in a leaf that depends on the order of the port's callbacks. *)
StateInCallback ==
    running # Nobody =>
        LET k == kind[running] IN
        /\ k = "StartCnf" => state = "STARTED"
        /\ k = "StopCnf" => state = IF children = 0 THEN "STARTED" ELSE "STOPPED"
        /\ k = "StartReq" => state = "CTOR_FINISHED" \/ (children = 0 /\ state = "STARTED")
        /\ k = "StopReq" => state = "STARTED" \/ (children = 0 /\ state = "STOPPED")

(* The actor's own callbacks come first: when a confirmation is published,
   each one asked for when the walk began, or with a new handle during it, and
   not unlistened, has been called. *)
OwnBeforeOthers ==
    [][\A k \in confirmed' \ confirmed : \A h \in due : calls[h] = 1]_listenVars

(* A request that was published is confirmed in the end, whatever the user
   listens to and unlistens in the callbacks on the way. *)
RequestConfirmed ==
    /\ "StartReq" \in sent ~> "StartCnf" \in confirmed
    /\ "StopReq" \in sent ~> "StopCnf" \in confirmed

(* actor.hpp:120: a listen with a handle is there "if you want to unlisten in
   the callback": no element is erased under the loop that stands on it. *)
UnlistenInCallbackIsDefined == ~undefined
=============================================================================
