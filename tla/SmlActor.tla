------------------------------ MODULE SmlActor ------------------------------
(***************************************************************************)
(* SmlActor: an actor whose behaviour is a boost::sml state machine.  Its   *)
(* constructor listens to the events of the transition table, one after    *)
(* the other, with callbacks that hand the event to the machine; the       *)
(* machine's actions have the Actor and may listen like any user.  What    *)
(* the machine does with an event is the library's; here it keeps a record.*)
(* The empty table is an actor without a machine.                          *)
(***************************************************************************)
EXTENDS Listen

CONSTANT Tables  \* transition tables: the sequences of their event types

(* What the actor listens to for an event of the machine. *)
SelfMessage ==
    [SmlStartReq |-> "StartReq", SmlStartCnf |-> "StartCnf",
     SmlStopReq |-> "StopReq", SmlStopCnf |-> "StopCnf", OtherCnf |-> "OtherCnf"]

\* A machine listens within the bound on handles.
ASSUME TablesAssumption ==
    \A t \in Tables :
        /\ t \in Seq(DOMAIN SelfMessage \cup {"initial"})
        /\ Cardinality({i \in DOMAIN t : t[i] \in DOMAIN SelfMessage}) <= MaxHandles

VARIABLES
    table,     \* the event types Caller has not visited yet
    forwards,  \* handles whose callback calls process_event
    processed  \* history: what process_event was called with

smlVars == <<table, forwards, processed>>
vars == <<listenVars, smlVars>>

Init ==
    /\ ListenInit
    /\ table \in Tables
    /\ forwards = {}
    /\ processed = <<>>

(* forwardToSml for the next event type; the library's `initial` is skipped. *)
forwardToSml ==
    /\ state = "INIT"
    /\ table # <<>>
    /\ table' = Tail(table)
    /\ IF Head(table) = "initial"
       THEN UNCHANGED <<listenVars, forwards>>
       ELSE LET k == SelfMessage[Head(table)]
                h == Len(kind) + 1
            IN  /\ kind' = Append(kind, k)
                /\ asked' = [asked EXCEPT ![h] = 1]
                /\ listen(h, k, 1)
                /\ forwards' = forwards \cup {h}
                /\ UNCHANGED <<state, children, childrenCnfCount, callbacks, listened, eventVars,
                               walkVars, early, changes, running, undefined, confirmed, envVars>>
    /\ UNCHANGED processed

(* The constructor of SmlActor visits the whole table before it ends, and
   there is no code of the user in it. *)
Forwarding == table # <<>>

(* A callback of the machine hands it its event. *)
ProcessEvent ==
    processed' = IF running = Nobody /\ running' \in forwards
                 THEN Append(processed, kind[running'])
                 ELSE processed

Next ==
    \/ forwardToSml
    \/ ~Forwarding /\ ListenNext /\ ProcessEvent /\ UNCHANGED <<table, forwards>>

Spec == Init /\ [][Next]_vars
FairSpec == Spec /\ ListenFairness

-----------------------------------------------------------------------------
(* Properties. *)

(* Every variable has its type. *)
TypeOK ==
    /\ ListenTypeOK
    /\ table \in Seq(DOMAIN SelfMessage \cup {"initial"})
    /\ forwards \subseteq Handles
    /\ processed \in Seq(UserKinds)

InOrder(a, b) ==
    \A i, j \in DOMAIN processed : processed[i] = a /\ processed[j] = b => i < j

(* A machine sees its life in order, and no part of it twice: nothing of the
   stop before anything of the start.  With children a request comes before
   its confirmation; in a leaf the two are callbacks of one event, and which
   one comes first is the order of an unordered_map. *)
MachineInOrder ==
    /\ \A a \in {"StartReq", "StartCnf"}, b \in {"StopReq", "StopCnf"} : InOrder(a, b)
    /\ children > 0 => InOrder("StartReq", "StartCnf") /\ InOrder("StopReq", "StopCnf")
    /\ forwards # {} => Cardinality({i \in DOMAIN processed : processed[i] \in Own})
                            <= Cardinality({h \in forwards : kind[h] \in Own})
=============================================================================
