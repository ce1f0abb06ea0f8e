----------------------------- MODULE LifeCycle -----------------------------
(***************************************************************************)
(* How a tree of actors starts and stops: ActorLifeCycle, Actor::newChild  *)
(* and Core of rapi_core.  Core sends the request to start to the root,    *)
(* every actor forwards it to its children and confirms when all of them   *)
(* have confirmed; a Stop message makes Core do the same with the request  *)
(* to stop, and run() returns after the confirmation of the root.          *)
(*                                                                         *)
(* A message is addressed to the class of an actor, not to the actor: all  *)
(* instances receive it.  A publish reaches all receivers in one step      *)
(* (Messaging refines Broadcast), and an actor runs one callback at a time *)
(* (Actor refines Executor with one worker); between two publishes of one  *)
(* callback the other actors go on.                                        *)
(***************************************************************************)
EXTENDS Naturals, Sequences, FiniteSets, SequencesExt, Queues

CONSTANTS
    Actors,
    Root,
    Children,  \* the children each actor creates in its constructor
    Classes,
    ClassOf,
    NoClass,
    Late,      \* the confirmations of others that an actor listens to in its
               \* callback of StartReq: pairs of an actor and a message
    Users      \* what the users of the library may have written: sets of pairs
               \* <<a, k>> of an actor a that listens to StartCnf<k> and
               \* publishes Stop in that callback

Kinds == {"StartReq", "StopReq", "StartCnf", "StopCnf", "PrivStartCnf",
          "PrivStopCnf", "Stop"}

Message(kind, class) == [kind |-> kind, class |-> class]
StopMessage == Message("Stop", NoClass)

Parents(a) == {p \in Actors : a \in Children[p]}

ASSUME LifeCycleAssumption ==
    /\ IsFiniteSet(Actors)
    /\ Root \in Actors
    /\ Children \in [Actors -> SUBSET Actors]
    /\ Parents(Root) = {}
    /\ \A a \in Actors \ {Root} : Cardinality(Parents(a)) = 1
    /\ \A S \in (SUBSET Actors) \ {{}} : \E a \in S : Parents(a) \cap S = {}
    /\ ClassOf \in [Actors -> Classes]
    /\ \A a \in Actors \ {Root} : ClassOf[a] # ClassOf[Root]
    /\ NoClass \notin Classes
    /\ Users \subseteq SUBSET (Actors \X Classes)
    /\ Late \subseteq Actors \X [kind : {"StartCnf", "StopCnf"}, class : Classes]
    /\ \A l \in Late :
           /\ {a \in Actors : ClassOf[a] = ClassOf[l[1]]} = {l[1]}
           /\ l[2].class # ClassOf[l[1]]
           /\ \A u \in Users : <<l[1], l[2].class>> \notin u

VARIABLES
    stopOn,            \* one of Users; it never changes
    state,             \* state_
    childrenCnfCount,  \* childrenCnfCount_
    listening,         \* the actors whose constructor's listens are in force
    listens,           \* how far each late listen has come
    heard,             \* history: how often it has been called back
    inbox,             \* what each actor has still to handle
    message,           \* the message each actor is handling or has handled last
    left,              \* the callbacks still to be run with it
    outbox,            \* what the running callback has still to publish
    running,           \* Core::running_
    mpc,               \* where the thread in Core::run is
    error              \* whether onErrorCallBack_ has ended the program

actor == <<stopOn, state, childrenCnfCount, message, left, outbox>>
core == <<running, mpc>>
ports == <<listening, listens, heard>>
vars == <<actor, ports, inbox, core, error>>

Init ==
    /\ stopOn \in Users
    /\ state = [a \in Actors |-> "CTOR_FINISHED"]
    /\ childrenCnfCount = [a \in Actors |-> 0]
    /\ listening = {}
    /\ listens = [l \in Late |-> "none"]
    /\ heard = [l \in Late |-> 0]
    /\ inbox = [a \in Actors |-> <<>>]
    /\ message = [a \in Actors |-> StopMessage]
    /\ left = [a \in Actors |-> 0]
    /\ outbox = [a \in Actors |-> <<>>]
    /\ running = FALSE
    /\ mpc = "init"
    /\ error = FALSE

-----------------------------------------------------------------------------

InForce(a, m) == <<a, m>> \in Late /\ listens[<<a, m>>] = "inForce"

\* How many callbacks an actor has for a message.  newChild listens once per
\* child, even for two children of a class; Core listens through the root; a
\* listen to the own StartCnf is not a listen on the port.  The callback of
\* StartReq that listens late is part of Take.
Listeners(a, m) ==
    CASE m.kind \in {"StartReq", "StopReq"} -> IF m.class = ClassOf[a] THEN 1 ELSE 0
      [] m.kind = "PrivStartCnf" ->
            Cardinality({c \in Children[a] : ClassOf[c] = m.class})
      [] m.kind = "PrivStopCnf" ->
            IF a = Root /\ m.class = ClassOf[Root] THEN 1
            ELSE Cardinality({c \in Children[a] : ClassOf[c] = m.class})
      [] m.kind = "Stop" -> IF a = Root THEN 1 ELSE 0
      [] m.kind = "StartCnf" ->
            IF \/ <<a, m.class>> \in stopOn /\ m.class # ClassOf[a]
               \/ InForce(a, m)
            THEN 1 ELSE 0
      [] m.kind = "StopCnf" -> IF InForce(a, m) THEN 1 ELSE 0

Publish(m) ==
    inbox' = [a \in Actors |-> IF a \in listening /\ Listeners(a, m) > 0
                               THEN Append(inbox[a], m)
                               ELSE inbox[a]]

\* The first consume() of the actor after the priority has started.
Listen(a) ==
    /\ ~error
    /\ mpc # "init"
    /\ a \notin listening
    /\ listening' = listening \cup {a}
    /\ UNCHANGED <<actor, listens, heard, inbox, core, error>>

Idle(a) == left[a] = 0 /\ outbox[a] = <<>>

Asked(a) == {l \in Late : l[1] = a /\ listens[l] = "asked"}

\* Fault: events are handled before the commands that came in earlier.
NobodyAsked(a) == {}

\* The commands that the port has to process before the next event.
CommandsOf(a) == Asked(a)

\* A late listen is a command: nobody sees it before the event is over, in
\* whatever order the callbacks of StartReq run.
ListensAfter(a, m) ==
    [l \in Late |-> IF l[1] = a /\ m.kind = "StartReq" THEN "asked" ELSE listens[l]]

Take(a) ==
    /\ ~error
    /\ Idle(a)
    /\ CommandsOf(a) = {}
    /\ inbox[a] # <<>>
    /\ message' = [message EXCEPT ![a] = Head(inbox[a])]
    /\ left' = [left EXCEPT ![a] = Listeners(a, Head(inbox[a]))]
    /\ inbox' = [inbox EXCEPT ![a] = Tail(@)]
    /\ listens' = ListensAfter(a, Head(inbox[a]))
    /\ UNCHANGED <<stopOn, state, childrenCnfCount, listening, heard, outbox, core, error>>

ListenLate(a) ==
    /\ ~error
    /\ Idle(a)
    /\ \E l \in Asked(a) : listens' = [listens EXCEPT ![l] = "inForce"]
    /\ UNCHANGED <<actor, listening, heard, inbox, core, error>>

PublishNext(a) ==
    /\ ~error
    /\ outbox[a] # <<>>
    /\ Publish(Head(outbox[a]))
    /\ outbox' = [outbox EXCEPT ![a] = Tail(@)]
    /\ UNCHANGED <<stopOn, state, childrenCnfCount, message, left, ports, core, error>>

\* The actor runs the next callback for a message of this kind.
Calls(a, kind) ==
    /\ ~error
    /\ left[a] > 0
    /\ outbox[a] = <<>>
    /\ message[a].kind = kind
    /\ left' = [left EXCEPT ![a] = @ - 1]

-----------------------------------------------------------------------------
(* ActorLifeCycle and newChild. *)

\* The state that the callbacks of the actor's own StartCnf see.
StateInStartCnf(a) == "STARTED"

\* Fault: the private confirmation is forgotten.
PublicStartCnf(a) == <<Message("StartCnf", ClassOf[a])>>

StartCnfs(a) == <<Message("StartCnf", ClassOf[a]), Message("PrivStartCnf", ClassOf[a])>>
StopCnfs(a) == <<Message("StopCnf", ClassOf[a]), Message("PrivStopCnf", ClassOf[a])>>

\* SetState(STARTED), the callbacks of the own StartCnf, publishStartCnf.
Started(a) ==
    /\ state' = [state EXCEPT ![a] = "STARTED"]
    /\ \/ /\ <<a, ClassOf[a]>> \in stopOn
          /\ outbox' = [outbox EXCEPT ![a] = <<StopMessage>> \o StartCnfs(a)]
          /\ error' = (StateInStartCnf(a) # "STARTED")
       \/ /\ <<a, ClassOf[a]>> \notin stopOn
          /\ outbox' = [outbox EXCEPT ![a] = StartCnfs(a)]
          /\ UNCHANGED error

\* Callbacks of the own StopCnf have no part in the protocol and are left out.
Stopped(a) ==
    /\ state' = [state EXCEPT ![a] = "STOPPED"]
    /\ outbox' = [outbox EXCEPT ![a] = StopCnfs(a)]
    /\ UNCHANGED error

\* children_ is an unordered_map: the requests leave in any order.
Forward(a, kind) ==
    \E order \in SetToSeqs(Children[a]) :
        outbox' = [outbox EXCEPT ![a] =
            [i \in DOMAIN order |-> Message(kind, ClassOf[order[i]])]]

HandleStartReq(a) ==
    /\ Calls(a, "StartReq")
    /\ \/ /\ Children[a] = {}
          /\ Started(a)
       \/ /\ Children[a] # {}
          /\ Forward(a, "StartReq")
          /\ UNCHANGED <<state, error>>
    /\ UNCHANGED <<stopOn, childrenCnfCount, message, inbox, ports, core>>

NoChildren(a) == Children[a] = {}

HandleStopReq(a) ==
    /\ Calls(a, "StopReq")
    /\ \/ /\ NoChildren(a)
          /\ Stopped(a)
       \/ /\ ~NoChildren(a)
          /\ Forward(a, "StopReq")
          /\ UNCHANGED <<state, error>>
    /\ UNCHANGED <<stopOn, childrenCnfCount, message, inbox, ports, core>>

\* Fault: one confirmation is enough.
FirstConfirmed(a) == TRUE

AllConfirmed(a) == childrenCnfCount[a] + 1 = Cardinality(Children[a])

\* Fault: the counter is not reset between starting and stopping.
CounterKept(a) == childrenCnfCount' = [childrenCnfCount EXCEPT ![a] = @ + 1]

\* One counter serves the confirmations of both kinds.
Count(a) ==
    childrenCnfCount' = [childrenCnfCount EXCEPT ![a] = IF AllConfirmed(a) THEN 0 ELSE @ + 1]

Counting(a) ==
    /\ ~AllConfirmed(a)
    /\ UNCHANGED <<state, outbox, error>>

HandlePrivStartCnf(a) ==
    /\ Calls(a, "PrivStartCnf")
    /\ Count(a)
    /\ (AllConfirmed(a) /\ Started(a)) \/ Counting(a)
    /\ UNCHANGED <<stopOn, message, inbox, ports, core>>

HandlePrivStopCnf(a) ==
    /\ Calls(a, "PrivStopCnf")
    /\ message[a].class # ClassOf[Root]
    /\ Count(a)
    /\ (AllConfirmed(a) /\ Stopped(a)) \/ Counting(a)
    /\ UNCHANGED <<stopOn, message, inbox, ports, core>>

\* The user's callback for the StartCnf of another class: only an actor that
\* has started may publish.
HandleStartCnf(a) ==
    /\ Calls(a, "StartCnf")
    /\ <<a, message[a].class>> \in stopOn
    /\ outbox' = [outbox EXCEPT ![a] = <<StopMessage>>]
    /\ error' = (state[a] # "STARTED")
    /\ UNCHANGED <<stopOn, state, childrenCnfCount, message, inbox, ports, core>>

HearLate(a) ==
    /\ Calls(a, "StartCnf") \/ Calls(a, "StopCnf")
    /\ InForce(a, message[a])
    /\ heard' = [heard EXCEPT ![<<a, message[a]>>] = @ + 1]
    /\ UNCHANGED <<stopOn, state, childrenCnfCount, message, outbox, inbox,
                   listening, listens, core, error>>

-----------------------------------------------------------------------------
(* Core. *)

HandleStop ==
    /\ Calls(Root, "Stop")
    /\ outbox' = [outbox EXCEPT ![Root] = <<Message("StopReq", ClassOf[Root])>>]
    /\ UNCHANGED <<stopOn, state, childrenCnfCount, message, inbox, ports, core, error>>

HandleRootStopCnf ==
    /\ Calls(Root, "PrivStopCnf")
    /\ message[Root].class = ClassOf[Root]
    /\ running' = FALSE
    /\ UNCHANGED <<stopOn, state, childrenCnfCount, message, outbox, inbox, ports, mpc, error>>

Run ==
    /\ mpc = "init"
    /\ running' = TRUE
    /\ mpc' = "waitForIdle"
    /\ UNCHANGED <<actor, ports, inbox, error>>

\* Fault: run does not wait for idle.
NobodyAwaited == TRUE

\* The priority is idle for the first time (Priority: IdleIsQuiescent).
AllListening == listening = Actors

WaitForIdle ==
    /\ ~error
    /\ mpc = "waitForIdle"
    /\ AllListening
    /\ mpc' = "request"
    /\ UNCHANGED <<actor, ports, inbox, running, error>>

SendStartReq ==
    /\ ~error
    /\ mpc = "request"
    /\ Publish(Message("StartReq", ClassOf[Root]))
    /\ mpc' = "wait"
    /\ UNCHANGED <<actor, ports, running, error>>

\* stopEvent_.wait, spurious wakeups included: the flag decides.
WaitForStop ==
    /\ ~error
    /\ mpc = "wait"
    /\ ~running
    /\ mpc' = "stop"
    /\ UNCHANGED <<actor, ports, inbox, running, error>>

\* Priority::stop returns when nothing is queued and nobody is inside a
\* callback (Priority: StoppedIsQuiescent).
StopPriority ==
    /\ ~error
    /\ mpc = "stop"
    /\ \A a \in Actors : Idle(a) /\ Asked(a) = {} /\ inbox[a] = <<>>
    /\ mpc' = "returned"
    /\ UNCHANGED <<actor, ports, inbox, running, error>>

\* Without a user who publishes Stop the started system runs for ever.
NobodyStops == stopOn = {} /\ mpc = "wait" /\ \A a \in Actors : state[a] = "STARTED"

Terminated ==
    /\ error \/ mpc = "returned" \/ NobodyStops
    /\ UNCHANGED vars

-----------------------------------------------------------------------------

Actor(a) ==
    \/ Listen(a)
    \/ Take(a)
    \/ PublishNext(a)
    \/ HandleStartReq(a)
    \/ HandleStopReq(a)
    \/ HandlePrivStartCnf(a)
    \/ HandlePrivStopCnf(a)
    \/ HandleStartCnf(a)
    \/ ListenLate(a)
    \/ HearLate(a)

RootOfCore == HandleStop \/ HandleRootStopCnf

RunThread == Run \/ WaitForIdle \/ SendStartReq \/ WaitForStop \/ StopPriority

Next ==
    \/ \E a \in Actors : Actor(a)
    \/ RootOfCore
    \/ RunThread
    \/ Terminated

Spec == Init /\ [][Next]_vars

(***************************************************************************)
(* Actors with work are dispatched (Priority: AllDispatched), callbacks    *)
(* return, and the thread in run() goes on when what it waits for is true. *)
(***************************************************************************)
Fairness ==
    /\ \A a \in Actors : WF_vars(Actor(a))
    /\ WF_vars(RootOfCore)
    /\ WF_vars(RunThread)

FairSpec == Spec /\ Fairness

-----------------------------------------------------------------------------

Messages == [kind : Kinds, class : Classes \cup {NoClass}]

(* Every variable has its type; the counter stays below the children.      *)
TypeOK ==
    /\ stopOn \in Users
    /\ state \in [Actors -> {"CTOR_FINISHED", "STARTED", "STOPPED"}]
    /\ childrenCnfCount \in [Actors -> Nat]
    /\ \A a \in Actors :
           childrenCnfCount[a] <= Cardinality(Children[a])
    /\ listening \in SUBSET Actors
    /\ listens \in [Late -> {"none", "asked", "inForce"}]
    /\ heard \in [Late -> Nat]
    /\ inbox \in [Actors -> Seq(Messages)]
    /\ message \in [Actors -> Messages]
    /\ left \in [Actors -> Nat]
    /\ outbox \in [Actors -> Seq(Messages)]
    /\ running \in BOOLEAN
    /\ mpc \in {"init", "waitForIdle", "request", "wait", "stop", "returned"}
    /\ error \in BOOLEAN

(* actor.hpp:299, STARTED is "entered after start confirm (all the         *)
(* children started)": no actor has started before its children.           *)
StartedAfterChildren ==
    \A a \in Actors : state[a] = "STARTED" =>
        \A c \in Children[a] : state[c] # "CTOR_FINISHED"

(* actor_life_cycle.hpp:13, the confirmation comes "if all the children    *)
(* are finsihed aswell": no actor has stopped before its children.         *)
StoppedAfterChildren ==
    \A a \in Actors : state[a] = "STOPPED" =>
        \A c \in Children[a] : state[c] = "STOPPED"


\* The confirmations that are on their way from an actor to its parent p.
InFlight(kind, a, p) ==
    LET m == Message(kind, ClassOf[a])
    IN  Waiting(outbox[a], m) + Waiting(inbox[p], m)
            + (IF message[p] = m THEN left[p] ELSE 0)

(* No confirmation is lost or counted twice: while an actor waits, the     *)
(* children that have reached the state it waits for have either been      *)
(* counted or have one confirmation on its way.                            *)
ConfirmationsAddUp ==
    \A p \in Actors : Children[p] # {} =>
        LET Reached(s) == {c \in Children[p] : state[c] = s}
            OnTheWay(kind, S) == {c \in S : InFlight(kind, c, p) = 1}
        IN  /\ state[p] = "CTOR_FINISHED" =>
                   childrenCnfCount[p] + Cardinality(OnTheWay("PrivStartCnf", Reached("STARTED")))
                       = Cardinality(Reached("STARTED"))
            /\ state[p] = "STARTED" =>
                   childrenCnfCount[p] + Cardinality(OnTheWay("PrivStopCnf", Reached("STOPPED")))
                       = Cardinality(Reached("STOPPED"))

(* A listen made in the callback of StartReq is in force before the actor  *)
(* confirms, provided it has children: such an actor hears the start of    *)
(* the root and every stop, once (start_stop.cpp:152).                     *)
LateListensHear ==
    mpc = "returned" =>
        \A l \in Late : Children[l[1]] # {} =>
            \/ heard[l] = 1
            \/ l[2].kind = "StartCnf" /\ l[2].class # ClassOf[Root]

(* start_stop.cpp:154 expects the root to hear the start of a grandchild,  *)
(* to which it listens in its callback of StartReq.                        *)
LateStartHeard == mpc = "returned" => \A l \in Late : heard[l] = 1

(* After Core::run has sent the request every actor starts.                *)
AllStart == <>(\A a \in Actors : state[a] # "CTOR_FINISHED")

(* message.hpp:17 "When Stop is published core shuts down execution and    *)
(* core.run(..) returns."                                                  *)
RunReturns == Contains(inbox[Root], StopMessage) ~> (mpc = "returned")

-----------------------------------------------------------------------------

Promise == INSTANCE StartStop WITH returned <- (mpc = "returned")

(* The tree starts and stops from the leaves up, each actor once, and      *)
(* run() returns after the root.                                           *)
ImplementsStartStop == Promise!Spec

=============================================================================
