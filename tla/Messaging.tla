----------------------------- MODULE Messaging -----------------------------
(***************************************************************************)
(* The Network and the Ports of the actors (rapi_core network.hpp,         *)
(* port.hpp, port.cpp): publish walks, under the mutex of the network,     *)
(* over the ports registered for the type and pushes the message into the  *)
(* queue of each; listen and unlisten are commands in a second queue of    *)
(* the port, which the actor processes before it looks at a message.       *)
(*                                                                         *)
(* An actor runs its callbacks one after the other (Actor refines          *)
(* Executor with one worker), so the port's consume() is a thread of its   *)
(* own that starts when it is in the actor's queue.  One action per        *)
(* critical section of eventMutex_ and of the network's callbacksMutex_.   *)
(* The port's own callbacksMutex_ is taken by that one thread only.        *)
(***************************************************************************)
EXTENDS Naturals, Sequences, SequencesExt

CONSTANTS
    Ports,       \* one per actor
    Types,
    Messages,    \* each is published at most once
    Handles,     \* each is the handle of at most one listen
    TypeOf,      \* the type of a message, and the type a handle listens to
    PortOf,      \* the port that gave out a handle
    CtorHandles, \* the listens made by the constructors
    Main,        \* a thread that is not an actor's: it publishes StartReq
    NoMessage, NoHandle

Threads == Ports \cup {Main}

ASSUME MessagingAssumption ==
    /\ Main \notin Ports
    /\ NoMessage \notin Messages
    /\ NoHandle \notin Handles
    /\ TypeOf \in [Messages \cup Handles -> Types]
    /\ PortOf \in [Handles -> Ports]
    /\ CtorHandles \subseteq Handles
    /\ IsFiniteSet(CtorHandles)

VARIABLES
    registered,     \* Network::callbacks_, by the listen that led to the entry
    published,      \* the messages published so far (history)
    sending,        \* the message each thread is inside Network::publish with
    todo,           \* the network callbacks that publish has still to call
    callbacks,      \* Port::callbacks_ of all the ports
    commandsQueue,  \* commandsQueue_
    eventQueue,     \* eventQueue_
    scheduled,      \* scheduled_
    queued,         \* how many consume() of the port the actor has queued
    pc,             \* where each port's consume() is
    current,        \* the handle whose command or callback is executing
    calls,          \* the callbacks still to be called with the current event
    handled,        \* what each port has taken out of its queue (history)
    asked           \* what the actor has asked for each handle (history)

network == <<registered, published, sending, todo>>
queues == <<commandsQueue, eventQueue, scheduled, queued>>
consumer == <<callbacks, pc, current, calls, handled>>
vars == <<network, queues, consumer, asked>>

Of(S, p) == {h \in S : PortOf[h] = p}

Command(op, h) == [op |-> op, handle |-> h]

\* The constructors have queued their listens.
Init ==
    /\ registered = {}
    /\ published = {}
    /\ sending = [t \in Threads |-> NoMessage]
    /\ todo = [t \in Threads |-> {}]
    /\ callbacks = {}
    /\ commandsQueue = [p \in Ports |->
            SetToSeq({Command("listen", h) : h \in Of(CtorHandles, p)})]
    /\ eventQueue = [p \in Ports |-> <<>>]
    /\ scheduled = [p \in Ports |-> Of(CtorHandles, p) # {}]
    /\ queued = [p \in Ports |-> IF Of(CtorHandles, p) # {} THEN 1 ELSE 0]
    /\ pc = [p \in Ports |-> "idle"]
    /\ current = [p \in Ports |-> NoHandle]
    /\ calls = [p \in Ports |-> {}]
    /\ handled = [p \in Ports |-> <<>>]
    /\ asked = [h \in Handles |-> IF h \in CtorHandles THEN "listen" ELSE "nothing"]

-----------------------------------------------------------------------------

\* Fault: the port is put into the actor's queue for every message.
NeverScheduled(p) == TRUE

NotScheduled(p) == ~scheduled[p]

ScheduleOnOwner(p) ==
    /\ scheduled' = [scheduled EXCEPT ![p] = TRUE]
    /\ queued' = [queued EXCEPT ![p] = IF NotScheduled(p) THEN @ + 1 ELSE @]

\* Whether the thread is executing the code of a callback.
InCallback(t) ==
    /\ t \in Ports
    /\ pc[t] = "event"
    /\ current[t] # NoHandle
    /\ sending[t] = NoMessage

\* Fault: publish does not exclude another publish.
NetworkUnguarded == TRUE

\* callbacksMutex_ of the network.
NetworkFree == \A t \in Threads : sending[t] = NoMessage

\* Fault: commands run with eventMutex_ held.
EventMutexHeldByCommand(p) == pc[p] # "register"

\* No thread holds eventMutex_ across steps: commands run without it.
EventMutexFree(p) == TRUE

-----------------------------------------------------------------------------
(* Network::publish. *)

Receivers(t, m) == {h \in registered : TypeOf[h] = TypeOf[m]}

BeginPublish(t, m) ==
    /\ t = Main \/ InCallback(t)
    /\ m \notin published
    /\ NetworkFree
    /\ published' = published \cup {m}
    /\ sending' = [sending EXCEPT ![t] = m]
    /\ todo' = [todo EXCEPT ![t] = Receivers(t, m)]
    /\ UNCHANGED <<registered, queues, consumer, asked>>

\* Port::schedule, called by publish for one entry, in no particular order.
Push(t) ==
    \E h \in todo[t] :
        /\ EventMutexFree(PortOf[h])
        /\ eventQueue' = [eventQueue EXCEPT ![PortOf[h]] = Append(@, sending[t])]
        /\ ScheduleOnOwner(PortOf[h])
        /\ todo' = [todo EXCEPT ![t] = @ \ {h}]
        /\ UNCHANGED <<registered, published, sending, commandsQueue, consumer, asked>>

EndPublish(t) ==
    /\ sending[t] # NoMessage
    /\ todo[t] = {}
    /\ sending' = [sending EXCEPT ![t] = NoMessage]
    /\ UNCHANGED <<registered, published, todo, queues, consumer, asked>>

-----------------------------------------------------------------------------
(* Port::consume. *)

\* The actor takes the port's consume() out of its queue.
Take(p) ==
    /\ pc[p] = "idle"
    /\ queued[p] > 0
    /\ queued' = [queued EXCEPT ![p] = @ - 1]
    /\ pc' = [pc EXCEPT ![p] = "commands"]
    /\ UNCHANGED <<network, commandsQueue, eventQueue, scheduled,
                   callbacks, current, calls, handled, asked>>

\* Fault: every listen registers the port.
AlwaysFirst(h) == TRUE

\* The port has no callback vector for the type yet.
FirstOfType(h) ==
    \A g \in Of(registered, PortOf[h]) : TypeOf[g] # TypeOf[h]

\* Fault: messages come before commands.
CommandsAfterEvents(p) == commandsQueue[p] # <<>> /\ eventQueue[p] = <<>>

CommandsWait(p) == commandsQueue[p] # <<>>

\* One turn of processCommandsAndGetQueuedEventsCount.  The first listen to a
\* type goes on to the network, without eventMutex_.
RunCommand(p) ==
    /\ pc[p] = "commands"
    /\ CommandsWait(p)
    /\ commandsQueue' = [commandsQueue EXCEPT ![p] = Tail(@)]
    /\ LET c == Head(commandsQueue[p]) IN
           \/ /\ c.op = "listen"
              /\ FirstOfType(c.handle)
              /\ pc' = [pc EXCEPT ![p] = "register"]
              /\ current' = [current EXCEPT ![p] = c.handle]
              /\ UNCHANGED callbacks
           \/ /\ c.op = "listen"
              /\ ~FirstOfType(c.handle)
              /\ callbacks' = callbacks \cup {c.handle}
              /\ UNCHANGED <<pc, current>>
           \/ /\ c.op = "unlisten"
              /\ callbacks' = callbacks \ {c.handle}
              /\ UNCHANGED <<pc, current>>
    /\ UNCHANGED <<network, eventQueue, scheduled, queued, calls, handled, asked>>

\* Network::listen, then the callback enters the vector of the port.
Register(p) ==
    /\ pc[p] = "register"
    /\ NetworkFree
    /\ registered' = registered \cup {current[p]}
    /\ callbacks' = callbacks \cup {current[p]}
    /\ pc' = [pc EXCEPT ![p] = "commands"]
    /\ current' = [current EXCEPT ![p] = NoHandle]
    /\ UNCHANGED <<published, sending, todo, queues, calls, handled, asked>>

\* The commands are done: the number of events decides about the loop.
CountEvents(p) ==
    /\ pc[p] = "commands"
    /\ ~CommandsWait(p)
    /\ pc' = [pc EXCEPT ![p] = IF eventQueue[p] # <<>> THEN "pop" ELSE "finish"]
    /\ UNCHANGED <<network, queues, callbacks, current, calls, handled, asked>>

PopEvent(p) ==
    /\ pc[p] = "pop"
    /\ eventQueue' = [eventQueue EXCEPT ![p] = Tail(@)]
    /\ handled' = [handled EXCEPT ![p] = Append(@, Head(eventQueue[p]))]
    /\ calls' = [calls EXCEPT ![p] =
            {h \in Of(callbacks, p) : TypeOf[h] = TypeOf[Head(eventQueue[p])]}]
    /\ pc' = [pc EXCEPT ![p] = "event"]
    /\ UNCHANGED <<network, commandsQueue, scheduled, queued, callbacks, current, asked>>

\* The callbacks of an event are called in no particular order.
CallBack(p) ==
    /\ pc[p] = "event"
    /\ sending[p] = NoMessage
    /\ \E h \in calls[p] :
           /\ current' = [current EXCEPT ![p] = h]
           /\ calls' = [calls EXCEPT ![p] = @ \ {h}]
    /\ UNCHANGED <<network, queues, callbacks, pc, handled, asked>>

EventDone(p) ==
    /\ pc[p] = "event"
    /\ sending[p] = NoMessage
    /\ calls[p] = {}
    /\ current' = [current EXCEPT ![p] = NoHandle]
    /\ pc' = [pc EXCEPT ![p] = "commands"]
    /\ UNCHANGED <<network, queues, callbacks, calls, handled, asked>>

\* Fault: consume does not look at the queues again.
NoSecondLook(p) == FALSE

WorkArrived(p) == eventQueue[p] # <<>> \/ commandsQueue[p] # <<>>

\* scheduled_ becomes false and, when something arrived meanwhile, true again.
Finish(p) ==
    /\ pc[p] = "finish"
    /\ pc' = [pc EXCEPT ![p] = "idle"]
    /\ scheduled' = [scheduled EXCEPT ![p] = WorkArrived(p)]
    /\ queued' = [queued EXCEPT ![p] = IF WorkArrived(p) THEN @ + 1 ELSE @]
    /\ UNCHANGED <<network, commandsQueue, eventQueue,
                   callbacks, current, calls, handled, asked>>

-----------------------------------------------------------------------------
(* What the code of a callback asks its own port for. *)

Listen(p, h) ==
    /\ InCallback(p)
    /\ PortOf[h] = p
    /\ asked[h] = "nothing"
    /\ asked' = [asked EXCEPT ![h] = "listen"]
    /\ commandsQueue' = [commandsQueue EXCEPT ![p] = Append(@, Command("listen", h))]
    /\ ScheduleOnOwner(p)
    /\ UNCHANGED <<network, eventQueue, consumer>>

Unlisten(p, h) ==
    /\ InCallback(p)
    /\ PortOf[h] = p
    /\ asked[h] = "listen"
    /\ asked' = [asked EXCEPT ![h] = "unlisten"]
    /\ commandsQueue' = [commandsQueue EXCEPT ![p] = Append(@, Command("unlisten", h))]
    /\ ScheduleOnOwner(p)
    /\ UNCHANGED <<network, eventQueue, consumer>>

\* unlistenAll does not schedule the port: a callback may rely on consume()
\* to look again.  A handle is in one vector only.
UnlistenAll(p, h) ==
    /\ InCallback(p)
    /\ PortOf[h] = p
    /\ asked[h] = "listen"
    /\ asked' = [asked EXCEPT ![h] = "unlisten"]
    /\ commandsQueue' = [commandsQueue EXCEPT ![p] = Append(@, Command("unlisten", h))]
    /\ UNCHANGED <<network, eventQueue, scheduled, queued, consumer>>

-----------------------------------------------------------------------------

\* Nothing is left to do; whoever could publish need not.
Quiet ==
    /\ NetworkFree
    /\ \A p \in Ports : pc[p] = "idle" /\ queued[p] = 0
    /\ UNCHANGED vars

Consume(p) ==
    \/ Take(p)
    \/ RunCommand(p)
    \/ Register(p)
    \/ CountEvents(p)
    \/ PopEvent(p)
    \/ CallBack(p)
    \/ EventDone(p)
    \/ Finish(p)

Next ==
    \/ \E t \in Threads, m \in Messages : BeginPublish(t, m)
    \/ \E t \in Threads : Push(t)
    \/ \E t \in Threads : EndPublish(t)
    \/ \E p \in Ports : Consume(p)
    \/ \E p \in Ports, h \in Handles : Listen(p, h)
    \/ \E p \in Ports, h \in Handles : Unlisten(p, h)
    \/ \E p \in Ports, h \in Handles : UnlistenAll(p, h)
    \/ Quiet

Spec == Init /\ [][Next]_vars

(***************************************************************************)
(* The actor runs what is in its queue (Actor: AllRun), callbacks return,  *)
(* a thread inside publish goes on.  Nobody has to publish or to listen.   *)
(* Weak fairness of Register is enough because the messages are finite.    *)
(***************************************************************************)
Fairness ==
    /\ \A p \in Ports : WF_vars(Consume(p))
    /\ \A t \in Threads : WF_vars(Push(t) \/ EndPublish(t))

FairSpec == Spec /\ Fairness

-----------------------------------------------------------------------------

(* Every variable has its type; the actor never has two consume() of the   *)
(* same port in its queue.                                                 *)
TypeOK ==
    /\ registered \in SUBSET Handles
    /\ published \in SUBSET Messages
    /\ sending \in [Threads -> Messages \cup {NoMessage}]
    /\ todo \in [Threads -> SUBSET Handles]
    /\ callbacks \in SUBSET Handles
    /\ commandsQueue \in [Ports -> Seq([op : {"listen", "unlisten"}, handle : Handles])]
    /\ eventQueue \in [Ports -> Seq(Messages)]
    /\ scheduled \in [Ports -> BOOLEAN]
    /\ queued \in [Ports -> {0, 1}]
    /\ pc \in [Ports -> {"idle", "commands", "register", "pop", "event", "finish"}]
    /\ current \in [Ports -> Handles \cup {NoHandle}]
    /\ calls \in [Ports -> SUBSET Handles]
    /\ handled \in [Ports -> Seq(Messages)]
    /\ asked \in [Handles -> {"nothing", "listen", "unlisten"}]

Received(p) == handled[p] \o eventQueue[p]

Before(p, m, n) ==
    \E i, j \in DOMAIN Received(p) :
        i < j /\ Received(p)[i] = m /\ Received(p)[j] = n

(* Two ports never see the same two messages in opposite orders, whichever *)
(* threads published them: publish is one critical section of the network. *)
TotalOrder ==
    \A p, q \in Ports, m, n \in Messages : Before(p, m, n) => ~Before(q, n, m)

(* port.hpp:184, "first process all Commands (CallBack manipulation) then  *)
(* process the events": a message meets exactly the callbacks its actor    *)
(* has asked for so far, in its constructor or in an earlier callback.     *)
ListenTakesEffect ==
    \A p \in Ports : pc[p] = "pop" =>
        Of(callbacks, p) = {h \in Of(Handles, p) : asked[h] = "listen"}

(* port.hpp:192 "If Port has either Command or Message to dispatch it      *)
(* schedules itself on the Actor": a port with work is in the actor's      *)
(* queue, or its consume() is running and will look at the queues again.   *)
PortAttended ==
    \A p \in Ports :
        eventQueue[p] # <<>> \/ commandsQueue[p] # <<>> => queued[p] > 0 \/ pc[p] # "idle"

(* port.cpp:21, listening while another thread publishes must not "end in  *)
(* a deadlock": the mutex of the network becomes free again.               *)
PublishReturns == ~NetworkFree ~> NetworkFree

(* What waits in a port is handled, messages and commands, even if it      *)
(* comes while consume() is running: both queues become empty.             *)
AllHandled ==
    \A p \in Ports :
        (eventQueue[p] # <<>> \/ commandsQueue[p] # <<>>) ~>
            (eventQueue[p] = <<>> /\ commandsQueue[p] = <<>>)

-----------------------------------------------------------------------------
(* The promise: publish is atomic, each port a queue. *)

\* The message that is on its way to a port while its publisher is pushing.
OnItsWay(p) ==
    LET senders == {t \in Threads : Of(todo[t], p) # {}}
    IN  IF senders = {} THEN <<>>
        ELSE <<sending[CHOOSE t \in senders : TRUE]>>

Atomic == INSTANCE Broadcast WITH
    Typed <- TypeOf,
    subscribed <- [t \in Types |-> {PortOf[h] : h \in {g \in registered : TypeOf[g] = t}}],
    inbox <- [p \in Ports |-> eventQueue[p] \o OnItsWay(p)],
    delivered <- handled

(* Whatever threads publish and whenever ports register, the network and   *)
(* the ports together behave like an atomic broadcast.                     *)
ImplementsBroadcast == Atomic!Spec

=============================================================================
