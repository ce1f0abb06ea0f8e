# Verification of the test engine core

This directory holds TLA+ models of the actor runtime in `rapi_core`, the TLC
configurations that check them on small instances and the TLAPS proofs of what
matters most for instances of any size. The gateway of this repository is built
on that runtime: it is where threads, locks, queues and the start and stop
protocol are. Paths below are relative to `src/`; `rapi_core/include/core` is
written `core/`.

## The system

    main thread --> Core --start, waitForIdle, stop--> Priority (dispatcher threads)
                     |                                     ^ |
                 StartReq, StopReq            actor entries | | consume()
                     v                                     | v
    callbacks --publish--> Network --push--> Port --push--> Actor (mailbox)
        ^                                                    |
        +--------------- one callback at a time -------------+

| Part | State | Operations | What is hard |
|---|---|---|---|
| **Priority** `rapi_core/src/priority.cpp` | phase, `actorQueue_`, `startCount_`, `sleepingCount_`, dispatcher threads | `schedule`, `start`, `waitForIdle`, `stop`, destructor | condition variables shared between calls, counters that lag behind the threads, callbacks that schedule |
| **Actor mailbox** `rapi_core/src/actor.cpp` | `scheduled_`, `callBackQueue_` | `schedule`, `consume`, `ctorFinished`, `waitForReadyToDtor` | one actor never on two dispatchers; construction and destruction overlap with arrivals |
| **Port** `rapi_core/src/port.cpp`, `core/port.hpp` | command and event queue, callbacks per type, `scheduled_` | `listen`, `unlisten`, `unlistenAll`, `schedule`, `consume` | two queues, one order; commands run without the lock |
| **Network** `core/network.hpp` | network callbacks per type | `publish`, `listen` | publish calls into all ports under one mutex; listen wants the same mutex |
| **Life cycle** `core/impl/actor_life_cycle.hpp`, `newChild` in `core/actor.hpp` | `state_`, `childrenCnfCount_`, children | forwarding StartReq and StopReq, counting confirmations | messages are addressed to types; one counter serves two phases |
| **Listens of an actor** `core/actor.hpp` 440-553 | `delayedListens_`, callback lists for the own confirmations | `listen`, `unlisten`, with and without a handle | listens made before the type ids are known; listens and unlistens inside the list that is being walked |
| **Core** `core/core.hpp`, `rapi_core/src/core.cpp` | `running_`, root | `init`, `run` | StartReq must follow every listen; `run` returns only if a whole chain of messages does |
| **SmlActor** `sml_actor/` | a boost::sml machine | `forwardToSml` | its listens and those of the life cycle hear the same messages |
| **Configuration** `common/cxx/config_cxx` | a tree of YAML nodes | constructor, `parse`, `getValue` | one flag and one name stand for a grammar with a stack; two sources, errors between them |
| **Logging** `common/cxx/adstlog_cxx` | a P7 client | constructor | what it reads from the configuration |
| Error callback, utilities, gateway components, `main.cpp` | | | no protocol of their own |

A message travels like this. `Actor::publish` checks the state of the publisher
and calls `Network::publish`, which pushes the message, under the network's
mutex, into the event queue of every port registered for its type. The port puts
its `consume` into the mailbox of its actor, the actor puts its own `consume`
into the queue of the priority, and a dispatcher runs it. Listening takes the
other queue of the port and registers with the network when the actor runs next.

What makes each part correct:

- Priority: no callback lost or run twice; no dispatcher asleep while work is
  queued; a stopped pool is quiescent; every call returns, but for a
  `waitForIdle` before `start`.
- Actor: at most one dispatcher at a time; no callback stranded; the destructor
  waits for the dispatcher and is alone afterwards.
- Network and Port: publish behaves like one atomic broadcast, in the same order
  for everybody; each message reaches a port once and meets exactly the
  callbacks asked for; publish and listen cannot deadlock.
- Life cycle and Core: the tree starts and stops from the leaves up; each
  confirmation counts once; `run` returns after a Stop.
- Listens: what is in force is what was asked for last, wherever it waits; the
  own callbacks for a confirmation come before everybody else's, once, in the
  right state.
- Configuration: what the document says is found, and nothing else.

## Modules

| Module | Models | Relies on |
|---|---|---|
| `Executor` | the promise of a FIFO pool: phases new, open, draining, closed | |
| `Priority`, `MCPriority`, `PriorityProofs` | Priority, implements `Executor` | |
| `Actor`, `MCActor`, `ActorProofs` | the mailbox, implements `Executor` with one worker | a queued entry is taken by one worker (`Executor`) |
| `Broadcast` | the promise of publish and listen: atomic, ordered, no loss after registration | |
| `Messaging`, `MCMessaging`, `MessagingProofs` | Network and Port, implements `Broadcast` | an actor is one sequential thread (`Actor!ImplementsSerial`) |
| `StartStop` | the promise of the life cycle | |
| `LifeCycle`, `MCLifeCycle`, `LifeCycleProofs` | ActorLifeCycle, newChild, Core, implements `StartStop` | publish is atomic (`Messaging!ImplementsBroadcast`), waitForIdle and stop (`Priority`) |
| `Listen`, `ListenProofs` | the listens of one actor and the callbacks of the life cycle that walk them | the port's consume (`Messaging!ListenTakesEffect`, `AllHandled`) |
| `SmlActor`, `MCSmlActor`, `SmlActorProofs` | SmlActor on top of `Listen`; the empty transition table is an actor of the user | |
| `Yaml`, `MCYaml`, `YamlProofs` | YamlWrapper, and the Logger that reads from it | |
| `Queues`, `QueueTheorems` | counting in a queue; induction, recursion and counting for the proofs | |

Each layer is checked against the promise that the next one is built on, so the
layers are composed through the abstract modules and never multiplied into one
state space.

### How state and actions correspond to the code

*Priority.* A variable per field. One action per critical section of
`stateChangeMutex_` or `startedMutex_`; `dpc` says where a dispatcher is between
two of them, with "blocked in a condition variable" and "notified, contends for
the mutex" as different places. A notification that finds nobody waiting is
therefore lost, as in the program. Waits may end spuriously. The client may make
any call in any order; an error ends the behaviour because the error callback
does not return (`error_handler.hpp`:24). `waitForIdle` tests no state
(`priority.cpp`:71-77): in a pool that was not started it blocks the only thread
that could start it, in the model as in the code.

*Actor.* One action per critical section of `callBackMutex_`. `entries` counts
the `consume()` the priority holds, `wpc` the dispatchers inside it. `opc`
follows the thread that constructs and destroys the actor. `DerivedCalls` says
which of `ctorFinished` and `waitForReadyToDtor` the derived class calls itself.

*Messaging.* One action per critical section of the port's `eventMutex_` and of
the network's mutex, which a publisher holds from `BeginPublish` through one
`Push` per receiver to `EndPublish`. `pc` is the place inside `Port::consume`: a
command that registers with the network runs without `eventMutex_`, and the count
of events is taken in an earlier critical section than the event. `registered`
holds a handle for each network callback, named after the listen that caused it.
The order in which `unordered_map` is walked is left open. The port's own
`callbacksMutex_` is only taken by the one thread that consumes, so it does not
appear. A callback may publish, listen, unlisten, and each message and handle is
used once.

*LifeCycle.* `inbox` is the event queue of an actor, `left` the callbacks still
to run with the current message, `outbox` what the running callback has still to
publish: other actors run between two publishes of one callback. Messages carry
the class of an actor, as in the code, so two actors of one class receive each
other's messages. `listening` grows when an actor first runs; messages published
before that are dropped. `stopOn` is user code: an actor that publishes Stop in a
callback for a StartCnf, its own or another's. It is chosen once, in the initial
state. `Late` is user code too: an actor that listens, in its callback of
StartReq, to a confirmation of another. Such a listen is a command of its port:
it cannot be seen before the event is over, so `Take` notes it as asked for, and
`ListenLate` puts it in force before the next `Take`.

*Listen.* One actor, one thread: `Messaging` has the interleaving with the
network, here the actor consumes when there is work. A message is its type and a
callback a version, so that a second listen with a handle is told from the first.
`lists` are the two `std::map` of own confirmations, `walk` and `at` the loop that
is going through one of them; callbacks of the user run inside it and listen and
unlisten, which is what the loop then sees. `sent` and `owed` are the parent and
the children: they send what `LifeCycle` shows them to send, when it does. Erasing
the element the loop stands on is undefined in C++: `undefined` ends the
behaviour. `asked`, `early`, `due`, `calls` and `confirmed` are histories that the
properties compare with.

*SmlActor.* `forwardToSml` visits one event type of the transition table; the
callbacks it leaves hand their event to the machine, of which `processed` keeps
the record. The machine may do in an action what a user may do in a callback.

*Yaml.* One action per kind of event of libyaml. `open` and `denoted` are libyaml's
side: the grammar of a stream of events, and what the documents say, as a function
from paths, computed from the grammar alone. A path is the sequence of its
elements. An alias, a mapping or sequence as a key and a document that is a bare
scalar are the events `parse` has no notion of; any number of them may come, and
`odd` remembers that one did.
`CallbackReturns` covers an error callback that throws or ends the program and one
that returns, after which the constructor goes on to its second source with what
the first left in the tree.

## What the runs check

| Run | Instance | Shows |
|---|---|---|
| `priority` | 3 dispatchers, 3 callbacks | `TypeOK`, `SleepAccounting`, `StartedMeansUp`, `NoLostWakeup`, `StoppedIsQuiescent`, `IdleIsQuiescent`, `ImplementsExecutor`, `AllDispatched`, `CallsReturn` |
| `actor` | 3 workers, 3 callbacks | `TypeOK`, `OnceInPriority`, `NotStranded`, `DestroyedAlone`, `ImplementsSerial`, `AllRun`, `DestructorEnds` |
| `actor_ctor_finished_twice` | the derived class calls `ctorFinished` | **violation** of `OnceInPriority` |
| `messaging` | 2 ports and a third thread, 2 types, 2 messages, 4 listens | `TypeOK`, `TotalOrder`, `ListenTakesEffect`, `ImplementsBroadcast`, `PublishReturns`, `AllHandled` |
| `lifecycle` | 5 actors on 3 levels, 3 late listens, nobody or one of three actors stops | `TypeOK`, `ConfirmationsAddUp`, `LateListensHear`, `ImplementsStartStop`, `AllStart`, `RunReturns` |
| `lifecycle_stop_while_starting` | 3 actors, one stops too early or two stop | **violation** of `StoppedAfterChildren` |
| `lifecycle_twins` | two children of one class | **violation** of `StartedAfterChildren` |
| `lifecycle_listen_late` | 5 actors, the root listens to a grandchild as in `start_stop.cpp` | **violation** of `LateStartHeard` |
| `listen` | 2 handles, 2 changes, up to 2 children, 4 transition tables | `TypeOK`, `ListensAsAsked`, `OwnCalledOnce`, `StateInCallback`, `MachineInOrder`, `OwnBeforeOthers`, `RequestConfirmed` |
| `listen_unlisten_in_callback` | a callback that unlistens itself | **violation** of `UnlistenInCallbackIsDefined` |
| `yaml` | documents of up to 7 nodes, 3 levels, 2 nodes or pairs in a collection | `TypeOK`, `ParseFollowsGrammar`, `SaidIsRead`, `ReadIsSaid`, `LoggerFollowsDocument` |
| `yaml_logger_name` | documents of up to 5 nodes with a name for the logger | **violation** of `LoggerHasConfiguredName` |

Every property of a passing run has a faulty variant of the code that breaks it:
operators preceded by `\* Fault:` next to the definition they would replace, such
as a notification left out or a counter not reset. No specification uses them.

### What the violations say

- `core/actor.hpp`:51 and :78 ask derived classes to call `waitForReadyToDtor`
  and `ctorFinished`; `ActorLifeCycle` has made both calls already. Following the
  comments puts the actor into the priority twice, or throws in a destructor.
- The life cycle counts the confirmations of starts and stops in one counter. A
  Stop during the start makes a parent STOPPED while a child has not started.
  Two Stop messages, published by actors that do not know of each other, send
  every request to stop twice; the two confirmations of one child are taken for
  those of two.
- Requests and confirmations are addressed by type: with two children of one
  class a parent is STARTED before its second child.
- `start_stop.cpp`:154 expects a root that listens in its callback of StartReq to
  hear the start of a grandchild. The listen takes effect after the event in which
  the requests to the children leave; with enough dispatchers the grandchild
  confirms first. What such a listen is sure to hear is `LateListensHear`: the start
  of the root, and every stop, if the actor that listens has children.
- A callback for an own confirmation that unlistens itself, for which
  `core/actor.hpp`:120 recommends a listen with a handle, erases the element its
  caller's loop stands on. For every other message this is safe, because unlisten
  is a command that the port processes later.
- The logger asks for its name with the path `logging/name`, which lacks the
  leading separator of the other four: a configured name is never found.

More disagreements that have no run:

- `waitForIdle` "Blocks calling thread until all dispatcher thread in idle state,
  eg no callback to dispatch" (`core/priority.hpp`:58). Its predicate
  (`priority.cpp`:75) does not look at the queue, and a dispatcher that has been
  notified counts as asleep until it has the mutex: the call may return while a
  callback waits. Core is not affected, since it schedules before `start` only;
  that is what `IdleIsQuiescent` says, and the history variable `late` notes any
  later call of `schedule` from outside.
- `waitForIdle` before `start` never returns: no dispatcher is asleep, and the one
  client is blocked. No comment forbids the call and no code reports it, unlike the
  other wrong orders (`priority.cpp`:118, 138, 157). Nobody makes it: `Core::run`
  starts the pool one line earlier. `CallsReturn` leaves out exactly this call, by
  `state # "START"`: it is the only one that blocks in that state.
- `unlistenAll` (`core/port.hpp`:107) is the only operation that queues a command
  and does not schedule the port, against the comment at `core/port.hpp`:192. From
  a callback this is harmless, because `consume` looks again; only a test calls it
  from another thread.
- An unlisten in the constructor does not find a listen to a confirmation, which
  is delayed (`core/actor.hpp`:129). A second listen with a handle to an own
  confirmation keeps the first callback, against `core/port.hpp`:93.
  `ListensAsAsked` states both exceptions.
- An empty scalar counts as the valid number 0: `strtol` consumes all of it.
- A Core that is built and destroyed without `run` waits in `waitForReadyToDtor`
  for dispatchers that were never started.
- The pattern of `core/actor.hpp`:144-148, where a new child announces itself,
  cannot be followed: publish needs STARTED, and the child waits for its request.

### Bounds, and why they are enough

- Three dispatchers are the least for a notified, a sleeping and a busy one at
  once; three callbacks let the queue empty and fill while one callback
  schedules. Each callback runs once, so that being lost or repeated is visible.
- Three workers let a second and a third dispatcher contend for one actor;
  callbacks arrive in construction, operation and destruction.
- Two ports and two messages of a type both listen to are the least for two
  orders to differ; the third thread publishes without being a receiver. One port
  listens to a second type, so it registers while it may be pushed to, and may
  listen to the first type again, unlisten, or both.
- Three levels make a parent wait that is a child itself; two inner children
  and two leaves let confirmations arrive in either order at two levels. Late
  listens are made by an inner actor, to the root and to another branch, and by a
  leaf.
- Two handles of any kind and two changes are enough to listen, listen again,
  unlisten and listen behind, at, or before the element a walk stands on; two
  children make a confirmation that is not the last. The run with the violation
  has three handles.
- Seven nodes on three levels let a collection follow a collection under a
  mapping and in a sequence, a key repeat, a second document follow, and several odd
  nodes stand before, between and after the others; a path of the logger has four elements
  and is reached. Numbers are 4 bits wide, with one value that fits and one that
  is cut.
- No counter is cut off by a constraint: the finite sets of callbacks, messages
  and handles, and the named bounds of `Listen` and `Yaml`, end every run.

### Fairness

Weak fairness only. In `Priority`: every thread that can take a step eventually
does, where waiting for a mutex is such a step; the critical sections are short
and nothing waits inside them. Callbacks return. In `Actor`: the constructor
ends, an entry in the priority's queue is taken (proved for `Executor` as a safety
property, checked as `AllDispatched` for its liveness), and the destructor's wait
gets the mutex. In `Messaging`: `consume` goes on when the actor has it in its
queue (`AllRun`) and a publisher does not stop inside `publish`; registering
competes for the network's mutex, and because messages are finite weak fairness
is enough. In `LifeCycle`: actors with work run, and the main thread goes on when
what it waits for holds. In `Listen`: the actor consumes while it has work, its
callbacks return, and a child that owes a confirmation sends it (`AllStart`,
`RunReturns`). Nobody is obliged to call, publish, listen or destroy. `Yaml` is
sequential and has no liveness property.

## What is proved

`PriorityProofs` holds for any finite set of dispatchers and any set of
callbacks, from `PriorityAssumption`.

- `Typing`, `Sleeping`, `Started`, `Wakeup`, `Stopped` state the invariants of
  `priority` of the same meaning; `Starting` and `Once` two more, `StartAccounting`
  and `ExactlyOnce`.
- `Idling`: `IdleIsQuiescent`, if there is a dispatcher at all.
- `Implementation`: `Spec => ImplementsExecutor`.

`NoLostWakeup` and `StoppedIsQuiescent` are not inductive. The strengthening
`IInv` adds that the counters count exactly the right sets of threads
(`sleepingCount_` those that are asleep, notified or gone; `startCount_` those
that have not reported), which places of the main thread go with which phase, and
that a stopped pool has nobody left in its loop. When `stop` reads
`sleepingCount_ == size`, the counting conjunct turns the number into "every
dispatcher is resting", which needs the lemmas on cardinality at the top of the
module. `Once` is proved on top of `IInv`; `Implementation` maps each step to a
step of `Executor` or a stutter.

`ActorProofs` holds for any workers and callbacks, from `ActorAssumption` and
under `Single`: the derived class does not call `ctorFinished` itself. Without
`Single` the theorems are false, which is what `actor_ctor_finished_twice` shows.

- `Typing`, `MutualExclusion`, `Attendance`, `Destruction`, `Implementation`.

The inductive invariant says that `scheduled_` is exactly "under construction, or
an entry is queued, or a dispatcher is inside": the flag stands for a token that
the constructor hands to the priority and the dispatcher gives back.

`MessagingProofs` holds for any ports, types, messages and handles, from
`MessagingAssumption`; the constructors use finitely many handles.

- `Typing`, and `Attendance`: a port with work is scheduled or consuming.
- `Effect`: `ListenTakesEffect`. On top of the invariant below, `Kept` follows one
  handle: what its actor asked for is in the callbacks, waits as a command or is
  being registered, and an unlisten waits behind its listen.
- `Ordering`: `TotalOrder`. `Ordered` says that a message that is being pushed is the
  last one of every port that has it, and that the ports still to come have not.
  Without these two the order of two ports is not inductive.
- `Implementation`: `Spec => ImplementsBroadcast`. A message is in the inbox of every
  port its publisher has still to push it to, so that the publish happens at
  `BeginPublish`.

Its `IInv` says that `scheduled_` is a token as in `Actor`, what `consume` knows where
it is, that at most one thread is inside publish, and that a port has one network
callback per type. Handles and commands are compared through `CommandIs`, queues
through the lemmas on sequences at the top of the module.

`LifeCycleProofs` holds for trees of any shape and size, any classes, any late
listens and any users, from `LifeCycleAssumption`; that assumption says that the
actors are a finite tree, in particular that no actor is its own ancestor.

- `Typing`, without a further hypothesis.
- `NoneLost`, `LeavesFirst` and `Implements`: `ConfirmationsAddUp`,
  `StartedAfterChildren` and `StoppedAfterChildren`, `ImplementsStartStop`, under
  `Orderly`: every actor has a class of its own, and a user stops the system once,
  when the root has started. The runs that expect a violation show that each part
  of `Orderly` is needed.

Its `IInv` is `TypeOK`, `Counters` (a counter is the number of children that
have been counted), `Plumbing` (who can have sent what is in a queue, and that
nothing moves before the main thread asks) and, for some assignment of a phase to
every actor, `InPhase`: the phase determines the state, the requests and
confirmations of the actor that exist and where, and what its parent has counted
of it. The assignment is a bound variable: the code has no such field, and one
copy of a message in one place is exactly what no single variable says.

- `NothingIsMissed`: `LateListensHear`, if besides every late listen names the class
  of an actor (of nobody's class there is nothing to hear).

`LInv` adds to `IInv` how far the late listens have come in each phase (`ListensIn`: not
asked for before the request to start is handled, in force before the confirmation of a
child is), that what has been said has been heard once or is on its way once
(`HeardOnce`), and that nothing is on its way when run() has returned. A listen that is
not in force yet misses nothing because its actor has not started, and then the root has
not and nobody has stopped (`StartedBelow`).

`ListenProofs` and `SmlActorProofs` hold for any number of handles, changes and
children and any transition tables, from `ListenAssumption` and
`TablesAssumption` (a table does not name more events than there are handles).
The theorems are about `SmlActor`'s specification, which includes an actor
without a machine.

- `Typing`, `ListeningIsAsAsked`, `CallingOnce`, `StateIsRight`, `OwnComeFirst`
  (an action property) and `MachineToldInOrder`.

`KInv` is the wiring: which handle and message can stand in which list, queue or
callback, and what is empty while the constructor runs. `AskedInv` adds what is in
force for each handle, through delayed listens and commands, with a bound on
versions; it is `ListensAsAsked` made inductive. `Connecting` says that each message
of the life cycle is connected or waits as a command, and is connected when the
request to start is out. `Staged` gives each of the two requests a stage (before,
asked, collecting, walking, done) that determines the copies of the messages, the
counter, the walk and, with `StateOf`, the state. `Called` ties `calls` and `due` to the
position of the walk. `Inv` in `SmlActorProofs` adds what the machine has been told:
for every entry of `processed` what must have happened before.

`YamlProofs` holds for documents of any length, depth and width, any keys and texts
and any width of an int, from `YamlAssumption` and `WidthAssumption` (a power of two
is a number: the provers do not know exponentiation).

- `Typing`, `GrammarFollowed`, `SaidIsAlwaysRead`, `ReadIsAlwaysSaid`,
  `LoggerAsDocumented`: the five invariants of `yaml`.

Its first half is about trees: `At` walks a path and `PathsIn` gives the path of each
node; `LandsOn` says that a walk ends at a node with that path, `Stable` that a new node
takes no path from an older one, and `NewReached` when the new node is found at all. Its
invariant has four parts. `TreeInv` is `TypeOK` with the open collections. `StackInv`: some
sequence of nodes, each the parent of the next, from the root to `current`, agrees with
the stack of open collections in kind, path, number of elements and in whether a walk
along the path ends there; the key waits at the innermost one only. The code keeps no
such stack, so the sequence is a bound variable. `SaidInv`: what is said is found, and
what is found is said. `LoggerInv` relates the logger to the tree, and `SaidInv` the tree
to the document.

Induction over numbers and the existence of recursive functions are lemmas of
`QueueTheorems`, stated about sets and functions so that they can be cited
(`Induction`, `Recursion`); with them the recursive functions of the models can be
reasoned about.

Only model-checked: all liveness (`AllDispatched`, `CallsReturn`, `AllRun`,
`DestructorEnds`, `PublishReturns`, `AllHandled`, `AllStart`, `RunReturns`,
`RequestConfirmed`): `~>` and fairness are out of the prover's reach. Every invariant of a
run that passes is the statement of a theorem.

## What is not modelled

- Children created after the constructor. `core/actor.hpp`:139 calls only the
  constructor safe. A child that is created and started later would confirm into
  a counter that nobody has reset for it.
- The destruction of the tree after `run` has returned, and a port that outlives
  its actor in the network (`core/network.hpp` never forgets one). `Actor` has the
  destruction of one actor.
- `Port::notify` and the maximum of `Port::consume`: nothing uses them.
- A second thread in `Priority::stop` while the destructor runs: the main thread
  is the only client.
- The getters of YamlWrapper for floating point, unsigned and bool, which have no
  client; the bytes of a path and of a scalar.
- Logging behind its constructor: a front end to P7, and signal handlers that
  keep a pointer to the logger (`adstlog.cpp`:50). Utilities, `GwSystemRoot` (an actor
  without behaviour), `gw_iceoryx` (empty) and `main.cpp`: no state that a property
  could be about. boost::sml, libyaml and P7 are external.

## Plan

In this order; the first eleven lines are done.

1. `Executor`, `Priority`, `PriorityProofs`: everything runs on it.
2. `Actor`, `ActorProofs`: what makes a callback sequential.
3. `Broadcast`, `Messaging`, `MessagingProofs`: what makes a message arrive.
4. `StartStop`, `LifeCycle`: the protocol users see, late listens included.
5. `Listen`: what is in force, and the walks over the own confirmations.
6. `SmlActor`: a machine as the user of `Listen`.
7. `Yaml`: `parse` and `getValue` against the tree a document denotes.
8. `LifeCycleProofs`: the tree starts and stops from the leaves up.
9. `ListenProofs`, `SmlActorProofs`: all safety properties of the listens.
10. `YamlProofs`: the tree against the document.
11. `LifeCycleProofs`: what an actor hears to which it listens late.
12. `LifeCycle`, extended: the destruction of the tree from the root, and children
    created in a callback together with what their parent then counts.
