-------------------------------- MODULE Yaml --------------------------------
(***************************************************************************)
(* YamlWrapper (config_cxx): the constructor reads a file or, failing      *)
(* that, a built-in document, and keeps a tree of nodes; getValue walks    *)
(* the tree.  Logger, its one client, reads its settings from it.          *)
(*                                                                         *)
(* libyaml is external: it delivers the events of any well-formed stream   *)
(* of documents, or an error after any of them.  `open' and `denoted' are  *)
(* its side of the matter: which collections are open, and what the        *)
(* documents say, computed from the grammar and not from the variables of  *)
(* YamlWrapper::parse.  A path is given by its elements: std::getline      *)
(* turns "/a/0" into <<"", "a", "0">> and drops a trailing separator.      *)
(***************************************************************************)
EXTENDS Integers, Sequences, SequencesExt, FiniteSets, FiniteSetsExt, Functions, TLC

CONSTANTS
    Keys,        \* the scalars that occur as keys, for each depth of a mapping
    Texts,       \* the other scalars, for each depth
    Numbers,     \* text -> what strtol makes of it, for those it consumes whole
    IntWidth,    \* bits of an int
    CallbackReturns,  \* whether the error callback may return
    MaxEvents,   \* bound: nodes begun in all sources together
    MaxOpen,     \* bound: collections open at once
    MaxWidth     \* bound: nodes, or pairs of key and value, in one collection

Scalars == (UNION Range(Keys)) \cup (UNION Range(Texts))

NOT_FOUND == "Not Found"
NoKey == "no key"        \* libyaml expects a key
OtherKey == "other key"  \* the key was no scalar

ASSUME YamlAssumption ==
    /\ Keys \in [1..MaxOpen -> SUBSET STRING]
    /\ NoKey \notin UNION Range(Keys)
    /\ Texts \in [0..MaxOpen -> SUBSET STRING]
    /\ DOMAIN Numbers \subseteq STRING
    /\ NOT_FOUND \notin DOMAIN Numbers
    /\ \A t \in DOMAIN Numbers : Numbers[t] \in Int
    /\ IntWidth \in Nat \ {0}
    /\ CallbackReturns \in BOOLEAN
    /\ MaxEvents \in Nat
    /\ MaxOpen \in Nat
    /\ MaxWidth \in Nat

\* What IntWidth \in Nat \ {0} comes to.
ASSUME WidthAssumption == 2 ^ (IntWidth - 1) \in Nat \ {0}

VARIABLES
    pc,          \* where the constructor is
    nodes,       \* the tree below root_, in the order of creation
    current,     \* parse's current, 0 for root_
    prevWasKey,
    keyName,
    logger,      \* what Logger has read, NoLogger before
    open,        \* libyaml: the collections that have started and not ended
    denoted,     \* what the documents say: path -> value
    odd,         \* an alias, a key that is no scalar or a scalar document came
    events       \* how many nodes there were

tree == <<nodes, current, prevWasKey, keyName>>
grammar == <<open, denoted, odd>>
vars == <<pc, tree, logger, grammar, events>>

NoLogger == [name |-> NOT_FOUND, sink |-> NOT_FOUND, pool |-> -1]

Init ==
    /\ pc = "ctor"
    /\ nodes = <<>>
    /\ current = 0
    /\ prevWasKey = FALSE
    /\ keyName = ""
    /\ logger = NoLogger
    /\ open = <<>>
    /\ denoted = <<>>
    /\ odd = FALSE
    /\ events = 0

-----------------------------------------------------------------------------
(* The tree (YamlNode).  root_ is the parent of itself.                    *)

TypeOf(n) == IF n = 0 THEN "DOC" ELSE nodes[n].type
ParentOf(n) == IF n = 0 THEN 0 ELSE nodes[n].parent
ChildrenOf(n) == {i \in DOMAIN nodes : nodes[i].parent = n}

ValueOf(type) == IF type = "MAPPING" THEN "YamlMappingValue" ELSE "YamlSequenceValue"

ElementName(n) == ToString(Cardinality(ChildrenOf(n)))

ChildName ==
    IF prevWasKey THEN keyName
    ELSE IF TypeOf(current) = "SEQUENCE" THEN ElementName(current)
    ELSE ""

\* Fault: the child goes below the node made last.
AddBelowLast(type, value) ==
    nodes' = Append(nodes, [parent |-> Len(nodes), name |-> ChildName,
                            type |-> type, value |-> value])

AddChild(type, value) ==
    nodes' = Append(nodes, [parent |-> current, name |-> ChildName,
                            type |-> type, value |-> value])

-----------------------------------------------------------------------------
(* getValueImpl and getValue.                                              *)

Missing == -1

Named(n, name) == {i \in ChildrenOf(n) : nodes[i].name = name}

\* Fault: the last node of the name is taken.
LastNamed(n, name) == IF Named(n, name) = {} THEN Missing ELSE Max(Named(n, name))

FirstNamed(n, name) == IF Named(n, name) = {} THEN Missing ELSE Min(Named(n, name))

NodeAt(path) ==
    LET at[i \in 0..Len(path)] ==
            IF i = 0 THEN 0
            ELSE IF at[i - 1] = Missing THEN Missing
            ELSE FirstNamed(at[i - 1], path[i])
    IN  at[Len(path)]

getValueImpl(path) ==
    IF path = <<>> \/ NodeAt(path) = Missing THEN NOT_FOUND ELSE nodes[NodeAt(path)].value

\* A signed integer of IntWidth bits.
Wrapped(i) ==
    LET half == 2 ^ (IntWidth - 1)
    IN  ((i + half) % (2 * half)) - half

Valid(value) == [first |-> TRUE, second |-> value]
Invalid == [first |-> FALSE, second |-> NOT_FOUND]

getValueString(path) ==
    IF getValueImpl(path) = NOT_FOUND THEN Invalid ELSE Valid(getValueImpl(path))

getValueInt(path) ==
    IF getValueImpl(path) \in DOMAIN Numbers
    THEN Valid(Wrapped(Numbers[getValueImpl(path)]))
    ELSE Invalid

-----------------------------------------------------------------------------
(* libyaml: where the next node stands, and what it adds to the document.  *)

Top == Last(open)

Role ==
    IF open = <<>> THEN "document"
    ELSE IF Top.kind = "SEQUENCE" THEN "element"
    ELSE IF Top.key = NoKey THEN "key"
    ELSE "value"

PathHere ==
    CASE Role = "document" -> <<"">>
      [] Role = "element"  -> Append(Top.path, ToString(Top.count))
      [] OTHER             -> Append(Top.path, Top.key)

\* A later document, or a later node under the same key, is not reached.
FirstHere == (open = <<>> \/ Top.reached) /\ PathHere \notin DOMAIN denoted

Denote(value) ==
    denoted' = IF FirstHere /\ ~odd'
               THEN [path \in DOMAIN denoted \cup {PathHere} |->
                        IF path \in DOMAIN denoted THEN denoted[path] ELSE value]
               ELSE denoted

\* The open collections once a node stands here; key is what it is as a key.
Advanced(key) ==
    CASE Role = "document" -> open
      [] Role = "key"      -> [open EXCEPT ![Len(open)].key = key]
      [] OTHER -> [open EXCEPT ![Len(open)].key = NoKey, ![Len(open)].count = @ + 1]

Opened(kind) ==
    Append(Advanced(OtherKey),
           [kind |-> kind, key |-> NoKey, count |-> 0, path |-> PathHere,
            reached |-> FirstHere])

\* A node that parse has no notion of: what follows is not denoted.
Odd == odd' = TRUE

Parsing ==
    /\ pc \in {"file", "builtIn"}
    /\ events < MaxEvents
    /\ open # <<>> => Top.count < MaxWidth
    /\ events' = events + 1
    /\ UNCHANGED logger

-----------------------------------------------------------------------------
(* YamlWrapper::parse, one action per kind of event.                       *)

\* Fault: the key is not used up by the collection that is its value.
KeyKept == prevWasKey

KeyAfterCollection == FALSE

StartEvent(type) ==
    /\ Parsing
    /\ Len(open) < MaxOpen
    /\ AddChild(type, ValueOf(type))
    /\ current' = Len(nodes')
    /\ prevWasKey' = KeyAfterCollection
    /\ IF Role = "key" THEN Odd ELSE UNCHANGED odd
    /\ open' = Opened(type)
    /\ Denote(ValueOf(type))
    /\ UNCHANGED <<pc, keyName>>

\* Fault: parse stays at the node that has ended.
StayAt(n) == n

BackFrom(n) == ParentOf(n)

EndEvent ==
    /\ pc \in {"file", "builtIn"}
    /\ open # <<>>
    /\ Top.kind = "MAPPING" => Top.key = NoKey
    /\ current' = BackFrom(current)
    /\ open' = Front(open)
    /\ UNCHANGED <<pc, nodes, prevWasKey, keyName, logger, denoted, odd, events>>

ScalarEvent(text) ==
    /\ Parsing
    /\ text \in IF Role = "key" THEN Keys[Len(open)] ELSE Texts[Len(open)]
    /\ \/ /\ ~prevWasKey
          /\ TypeOf(current) # "SEQUENCE"
          /\ prevWasKey' = TRUE
          /\ keyName' = text
          /\ UNCHANGED nodes
       \/ /\ prevWasKey \/ TypeOf(current) = "SEQUENCE"
          /\ AddChild("VALUE", text)
          /\ prevWasKey' = FALSE
          /\ UNCHANGED keyName
    /\ IF Role = "document" THEN Odd ELSE UNCHANGED odd
    /\ open' = Advanced(text)
    /\ IF Role = "key" THEN UNCHANGED denoted ELSE Denote(text)
    /\ UNCHANGED <<pc, current>>

\* parse ignores the event.
AliasEvent ==
    /\ Parsing
    /\ open # <<>>
    /\ Odd
    /\ open' = Advanced(OtherKey)
    /\ UNCHANGED <<pc, tree, denoted>>

\* parse returns true.
StreamEnd ==
    /\ pc \in {"file", "builtIn"}
    /\ open = <<>>
    /\ pc' = "constructed"
    /\ UNCHANGED <<tree, logger, grammar, events>>

-----------------------------------------------------------------------------
(* The constructor.  Whether there is a readable file and a built-in       *)
(* document is the caller's choice.  What follows an error depends on the  *)
(* callback: the library's own ends the program, another one may return.   *)

\* The locals of a call of parse.
EnterParse(source) ==
    /\ pc' = source
    /\ current' = 0
    /\ prevWasKey' = FALSE
    /\ keyName' = ""
    /\ open' = <<>>
    /\ UNCHANGED <<nodes, denoted, odd, events, logger>>

\* The callback ends the program, of which nothing remains.
Abort ==
    /\ pc' = "aborted"
    /\ nodes' = <<>>
    /\ current' = 0
    /\ prevWasKey' = FALSE
    /\ keyName' = ""
    /\ open' = <<>>
    /\ denoted' = <<>>
    /\ odd' = FALSE
    /\ events' = 0
    /\ UNCHANGED logger

\* The callback ends the program, or returns and leaves the tree as it is.
ConstructorError ==
    \/ Abort
    \/ /\ CallbackReturns
       /\ pc' = "constructed"
       /\ UNCHANGED <<tree, grammar, events, logger>>

\* No file name, or no such file.
NoFile ==
    /\ pc = "ctor"
    /\ \/ EnterParse("builtIn")
       \/ ConstructorError

\* yaml_parser_parse fails: the nodes made so far stay in the tree, and the
\* built-in document, if there is one, follows a file that failed.
ParserError ==
    /\ pc \in {"file", "builtIn"}
    /\ \/ ConstructorError
       \/ pc = "file" /\ CallbackReturns /\ EnterParse("builtIn")

ReadFile ==
    /\ pc = "ctor"
    /\ EnterParse("file")

-----------------------------------------------------------------------------
(* Logger::Logger and getClientConfigStr.  Format and Trc.Verb are read as *)
(* Sink and Pool are.                                                      *)

DefaultName == "TEST_ENGINE"
DefaultSink == "Console"
DefaultPool == 3   \* 32768, scaled down to IntWidth

NamePath == <<"logging", "name">>
SinkPath == <<"", "logging", "client", "Sink">>
PoolPath == <<"", "logging", "client", "Pool">>

\* Fault: a value that is not valid is used.
SecondAnyway(read, default) == read.second

OrDefault(read, default) == IF read.first THEN read.second ELSE default

CreateLogger ==
    /\ pc = "constructed"
    /\ pc' = "logger"
    /\ logger' = [name |-> OrDefault(getValueString(NamePath), DefaultName),
                  sink |-> OrDefault(getValueString(SinkPath), DefaultSink),
                  pool |-> OrDefault(getValueInt(PoolPath), DefaultPool)]
    /\ UNCHANGED <<tree, grammar, events>>

-----------------------------------------------------------------------------

Event ==
    \/ \E type \in {"MAPPING", "SEQUENCE"} : StartEvent(type)
    \/ EndEvent
    \/ \E text \in Scalars : ScalarEvent(text)
    \/ AliasEvent
    \/ StreamEnd

\* The settings are read once, and an aborted program does nothing: a stutter.
Terminated == pc \in {"logger", "aborted"} /\ UNCHANGED vars

Next == ReadFile \/ NoFile \/ Event \/ ParserError \/ CreateLogger \/ Terminated

Spec == Init /\ [][Next]_vars

-----------------------------------------------------------------------------

Types == {"VALUE", "SEQUENCE", "MAPPING"}
Names == {""} \cup Scalars \cup {ToString(n) : n \in 0..MaxEvents}

(* Every variable has its type; a node is below an earlier one, which is   *)
(* a collection, so that the nodes are a tree.                             *)
TypeOK ==
    /\ pc \in {"ctor", "file", "builtIn", "constructed", "logger", "aborted"}
    /\ \A i \in DOMAIN nodes :
          /\ nodes[i].type \in Types
          /\ nodes[i].parent \in 0..(i - 1)
          /\ TypeOf(nodes[i].parent) # "VALUE"
          /\ nodes[i].name \in Names
    /\ current \in 0..Len(nodes)
    /\ prevWasKey \in BOOLEAN
    /\ keyName \in {""} \cup Scalars
    /\ logger.pool \in Int
    /\ odd \in BOOLEAN
    /\ events \in 0..MaxEvents

\* The names from the root to each node.
Paths ==
    LET path[i \in 0..Len(nodes)] ==
            IF i = 0 THEN <<>> ELSE Append(path[nodes[i].parent], nodes[i].name)
    IN  path

Reached == {i \in DOMAIN nodes : NodeAt(Paths[i]) = i}

(* parse has one flag and one name for a grammar with a stack: as long as  *)
(* no event is ignored and keys are scalars, they are right at every       *)
(* event (yaml_wrapper.cpp:83-85).                                         *)
ParseFollowsGrammar ==
    pc \in {"file", "builtIn"} /\ ~odd =>
        /\ Paths[current] = IF open = <<>> THEN <<>> ELSE Top.path
        /\ TypeOf(current) = IF open = <<>> THEN "DOC" ELSE Top.kind
        /\ prevWasKey <=> Role = "value"
        /\ prevWasKey => keyName = Top.key

(* What the document says at a path, getValue returns for that path        *)
(* (yaml_wrapper.hpp:258 "Nested maps should be searched with their        *)
(* respective keys, sequences should be searched by index").  What stands  *)
(* before an alias or a key that is no scalar stays readable after it.     *)
SaidIsRead == \A path \in DOMAIN denoted : getValueImpl(path) = denoted[path]

(* getValue finds nothing that the document does not say: in particular    *)
(* nothing of a second node under one key, or of a second document.        *)
ReadIsSaid == ~odd => \A i \in Reached : Paths[i] \in DOMAIN denoted

Says(path) == path \in DOMAIN denoted /\ denoted[path] # NOT_FOUND
SaysNumber(path) == path \in DOMAIN denoted /\ denoted[path] \in DOMAIN Numbers
Fits(i) == Wrapped(i) = i

(* Each setting of the logger is the document's where the document has it  *)
(* in the right type, and the default otherwise (adstlog.cpp:84-103); a    *)
(* number that is too large for an int counts as valid and is cut.         *)
LoggerFollowsDocument ==
    pc = "logger" /\ ~odd =>
        /\ logger.sink = IF Says(SinkPath) THEN denoted[SinkPath] ELSE DefaultSink
        /\ ~SaysNumber(PoolPath) => logger.pool = DefaultPool
        /\ SaysNumber(PoolPath) /\ Fits(Numbers[denoted[PoolPath]])
               => logger.pool = Numbers[denoted[PoolPath]]

(* adstlog.cpp:49 "now handler with the proper name": the logger has the   *)
(* name that the document gives it.                                        *)
LoggerHasConfiguredName ==
    pc = "logger" /\ Says(<<"">> \o NamePath)
        => logger.name = denoted[<<"">> \o NamePath]

=============================================================================
