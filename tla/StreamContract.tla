--------------------------- MODULE StreamContract ---------------------------
(***************************************************************************)
(* From an authored graph to the graph the runtime loads: the stream       *)
(* contract (domain/session_stream.cpp) decides which blocks are managed   *)
(* streams and under which names; Gr4RuntimeManager::prepare_locked then   *)
(* reserves an endpoint for each, rewrites the graph into the loader's     *)
(* form by rules of its own, and looks the blocks up again BY NAME to hand *)
(* the endpoints out. The two sets of rules read the same fields and have  *)
(* to name the same blocks alike.                                          *)
(*                                                                         *)
(* A block is a record of the fields that either side reads. The value of  *)
(* a field is a name, the empty string, something that is no string        *)
(* (Other), or Missing. "parameters" or "raw_parameters" that are no map   *)
(* are maps without entries to both sides.                                 *)
(***************************************************************************)
EXTENDS Naturals, Sequences, FiniteSets

CONSTANTS
    Names,               \* non-empty strings
    Empty,               \* the empty string
    Other,               \* a value that is no string (and no map)
    Missing,             \* no such key
    BlockTypes,          \* the names under which the plugins have a block
    AuthoredBlocks,      \* i :> the blocks that may be authored in place i
    AuthoredConnections  \* the connections that may be authored

ASSUME FieldsDiffer ==
    /\ Empty # Other /\ Empty # Missing /\ Other # Missing
    /\ {Empty, Other, Missing} \cap Names = {}
    /\ BlockTypes \subseteq Names

VARIABLES
    phase,          \* how far prepare has come
    blocks,         \* the authored blocks: session.grc_content
    connection,     \* one authored connection
    bindings,       \* stream_bindings: the plan with its endpoints
    runtimeBlocks,  \* the blocks of the graph that is loaded
    runtimeConnection

vars == <<phase, blocks, connection, bindings, runtimeBlocks,
          runtimeConnection>>

Text == Names \cup {Empty}
Field == Text \cup {Other, Missing}
Transports == {"http_snapshot", "http_poll", "websocket", "grpc"}
Value == Field \cup Transports

(* The blocks an author can write; a "stream" of any scalar kind is Other. *)
Map == [id : Value, transport : Value, payload_format : Value]
ParameterMap ==
    [name : Value, stream : {Other, Missing} \cup Map, stream_id : Value,
     transport : Value, payload_format : Value, endpoint : Value]
Block ==
    [id : Value, block : Value, block_type : Value, instance_name : Value,
     name : Value, parameters : ParameterMap, raw_parameters : ParameterMap]

(* A port token is a word and the number behind it. Of the word it matters *)
(* whether it is one of the two plain ones or another that begins with in  *)
(* or out, and whether its last letter is a t ("input", "out_left"); of    *)
(* the number, whether it fits into 64 bits. A connection is complete when *)
(* it has four entries (list) or names both blocks by strings (map).       *)
Tokens ==
    [word : {"", "in", "out", "in..t", "in..", "other"},
     number : {"", "digits", "too long"}]
Connection ==
    [form : {"list", "map", "scalar"}, complete : BOOLEAN,
     source_port : Tokens \cup {Missing, Other},
     dest_port : Tokens \cup {Missing, Other}]

ASSUME BlocksAssumption ==
    \A i \in DOMAIN AuthoredBlocks : AuthoredBlocks[i] \subseteq Block
ASSUME ConnectionsAssumption == AuthoredConnections \subseteq Connection

NonEmpty(v) == v \notin {Empty, Other, Missing}

(* The first of two fields that holds a non-empty string. *)
a ?? b == IF NonEmpty(a) THEN a ELSE b

(* parameters, with what only raw_parameters has; both sides merge alike. *)
Parameters(b) ==
    [k \in DOMAIN b.parameters |->
        IF b.parameters[k] = Missing THEN b.raw_parameters[k]
                                     ELSE b.parameters[k]]

-----------------------------------------------------------------------------
(* domain/session_stream.cpp *)

SupportedTransports == {"http_snapshot", "http_poll", "websocket"}

(* normalize_stream_intent: a "stream" entry of any kind hides the         *)
(* flattened fields; one that is no map declares a stream without fields.  *)
StreamIntent(p) ==
    IF p.stream = Missing
    THEN [id |-> p.stream_id, transport |-> p.transport,
          payload_format |-> p.payload_format]
    ELSE IF p.stream = Other
         THEN [id |-> Missing, transport |-> Missing,
               payload_format |-> Missing]
         ELSE p.stream

Declares(p) ==
    \/ p.stream # Missing
    \/ \E k \in {"stream_id", "transport", "payload_format"} :
            p[k] \notin {Other, Missing}

(* Mutant: the key of the legacy form is forgotten. *)
BugTypeNameIgnoresLegacy(b) ==
    IF b.block \notin {Other, Missing} THEN b.block ELSE b.id

(* normalize_stream_block: the type is the first of three keys that holds  *)
(* a string, and a block whose type is the EMPTY string is passed over.    *)
TypeName(b) ==
    LET strings == {k \in {"block", "id", "block_type"} :
                        b[k] \notin {Other, Missing}}
    IN IF "block" \in strings THEN b.block
       ELSE IF "id" \in strings THEN b.id
       ELSE b.block_type

(* Mutant: a studio node's id is not taken for its name. *)
BugInstanceNameIgnoresId(b) ==
    Parameters(b).name ?? (b.instance_name ?? b.name)

InstanceName(b) ==
    Parameters(b).name
        ?? ((IF b.block = Missing THEN Missing ELSE b.id)
        ?? (b.instance_name ?? b.name))

IsStream(b) == NonEmpty(TypeName(b)) /\ Declares(Parameters(b))

StreamId(b) == StreamIntent(Parameters(b)).id ?? InstanceName(b)

(* validate_stream_block *)
Valid(b) ==
    LET intent == StreamIntent(Parameters(b))
    IN /\ NonEmpty(InstanceName(b))
       /\ intent.transport \in SupportedTransports
       /\ NonEmpty(intent.payload_format)

(* Mutant: ids are not compared. *)
BugContractIgnoresDuplicates(bs) ==
    \A i \in DOMAIN bs : IsStream(bs[i]) => Valid(bs[i])

(* validate_stream_runtime_contract *)
ContractHolds(bs) ==
    \A i \in DOMAIN bs : IsStream(bs[i]) =>
        /\ Valid(bs[i])
        /\ \A j \in 1 .. (i - 1) :
                IsStream(bs[j]) => StreamId(bs[j]) # StreamId(bs[i])

(* make_stream_path, as the pair of what distinguishes paths of a session. *)
StreamPath(id, transport) ==
    <<id, IF transport = "websocket" THEN "ws" ELSE "http">>

(* derive_stream_runtime_plan: all streams or, if one is invalid, none.    *)
(* The vector of the plan is a function here from the places of its blocks *)
(* in the graph, whose order it has.                                       *)
Managed(bs) == {i \in DOMAIN bs : IsStream(bs[i])}

Descriptor(b) ==
    [stream_id |-> StreamId(b),
     block_instance_name |-> InstanceName(b),
     path |-> StreamPath(StreamId(b), StreamIntent(Parameters(b)).transport)]

DerivePlan(bs) ==
    [i \in IF ContractHolds(bs) THEN Managed(bs) ELSE {} |-> Descriptor(bs[i])]

-----------------------------------------------------------------------------
(* runtime/gr4_runtime_manager.cpp *)

(* Mutant: instance_name goes before the id. *)
BugNormalizePrefersInstanceName(b) ==
    LET p == Parameters(b)
        name == b.instance_name ?? (b.id ?? b.name)
    IN [b EXCEPT !.id = b.block ?? (IF b.id = Missing /\ NonEmpty(b.block_type)
                                    THEN b.block_type ELSE b.id),
                 !.parameters =
                     [p EXCEPT !.name =
                         IF @ = Missing /\ NonEmpty(name) THEN name ELSE @]]

(* normalize_block: "parameters.name" is filled in when the key is absent, *)
(* whatever it holds when present; the authored id is a name to it even    *)
(* where it is the type.                                                   *)
NormalizeBlock(b) ==
    LET p == Parameters(b)
        name == b.id ?? (b.instance_name ?? b.name)
    IN [b EXCEPT !.id = b.block ?? (IF b.id = Missing /\ NonEmpty(b.block_type)
                                    THEN b.block_type ELSE b.id),
                 !.parameters =
                     [p EXCEPT !.name =
                         IF @ = Missing /\ NonEmpty(name) THEN name ELSE @]]

(* normalize_port: what follows the last 't' of a word that begins with in *)
(* or out is its number, so that "in3" has none, and "out_left2" and       *)
(* "out_right2" have the same.                                             *)
Index(digits) == [index |-> digits]
Numbering == {"", "out", "in..t"}
PortThrows(t) == t.word \in Numbering /\ t.number = "too long"
NormalizePort(t) ==
    IF t.word \in {"in", "out"} /\ t.number = "" THEN Index("0")
    ELSE IF t.word \in Numbering /\ t.number # "" THEN Index(t.number)
    ELSE t

(* normalize_connection: the places 1 and 3 of a list are translated where *)
(* they are, if they are strings; a map becomes a list if all four of its  *)
(* entries are. The names of the blocks pass through and are left out.     *)
IsPort(t) == t \notin {Missing, Other}
InPlace(t) == IF IsPort(t) THEN NormalizePort(t) ELSE t
AllStrings(c) == c.complete /\ IsPort(c.source_port) /\ IsPort(c.dest_port)

NormalizeList(c) ==
    IF c.complete
    THEN [c EXCEPT !.source_port = InPlace(@), !.dest_port = InPlace(@)]
    ELSE c

NormalizeMap(c) ==
    IF AllStrings(c)
    THEN [form |-> "list", complete |-> TRUE,
          source_port |-> NormalizePort(c.source_port),
          dest_port |-> NormalizePort(c.dest_port)]
    ELSE c

NormalizeConnection(c) ==
    IF c.form = "list" THEN NormalizeList(c)
    ELSE IF c.form = "map" THEN NormalizeMap(c)
    ELSE c

PortsRead(c) ==
    IF (c.form = "list" /\ c.complete) \/ (c.form = "map" /\ AllStrings(c))
    THEN {t \in {c.source_port, c.dest_port} : IsPort(t)}
    ELSE {}
ConnectionThrows(c) == \E t \in PortsRead(c) : PortThrows(t)

(* inject_stream_bindings: a block takes the first binding with its name.  *)
(* Without bindings there is nothing to inject and nothing to miss.        *)
RuntimeName(b) == b.parameters.name ?? b.instance_name
Matching(b, bound) ==
    {k \in DOMAIN bound : /\ NonEmpty(RuntimeName(b))
                          /\ bound[k].plan.block_instance_name = RuntimeName(b)}
FirstMatch(b, bound) ==
    {k \in Matching(b, bound) : \A l \in Matching(b, bound) : k <= l}
InjectInto(b, bound) ==
    IF Matching(b, bound) = {} THEN b
    ELSE [b EXCEPT !.parameters.endpoint =
                bound[CHOOSE k \in FirstMatch(b, bound) : TRUE].endpoint]
InjectedIds(bs, bound) ==
    {bound[k].plan.stream_id : k \in UNION {FirstMatch(bs[i], bound) :
                                            i \in DOMAIN bs}}
InjectionThrows(bs, bound) ==
    Cardinality(InjectedIds(bs, bound)) # Cardinality(DOMAIN bound)

-----------------------------------------------------------------------------
Init ==
    /\ phase = "authoring"
    /\ blocks = <<>>
    /\ connection \in AuthoredConnections
    /\ bindings = <<>>
    /\ runtimeBlocks = <<>>
    /\ runtimeConnection = connection

(* The author adds a block; AuthoredBlocks bounds the graph. *)
AddBlock ==
    /\ phase = "authoring"
    /\ Len(blocks) + 1 \in DOMAIN AuthoredBlocks
    /\ \E b \in AuthoredBlocks[Len(blocks) + 1] : blocks' = Append(blocks, b)
    /\ UNCHANGED <<phase, connection, bindings, runtimeBlocks,
                   runtimeConnection>>

(* prepare_locked throws what the contract says. *)
Refuse ==
    /\ phase = "authoring"
    /\ ~ContractHolds(blocks)
    /\ phase' = "refused"
    /\ UNCHANGED <<blocks, connection, bindings, runtimeBlocks,
                   runtimeConnection>>

(* The plan is derived and each stream gets an endpoint. Which ports are   *)
(* free is up to the allocator, which gives none twice: endpoint i is the  *)
(* one of block i.                                                         *)
Bind ==
    /\ phase = "authoring"
    /\ ContractHolds(blocks)
    /\ bindings' = [i \in DOMAIN DerivePlan(blocks) |->
                        [plan |-> DerivePlan(blocks)[i], endpoint |-> i]]
    /\ phase' = "bound"
    /\ UNCHANGED <<blocks, connection, runtimeBlocks, runtimeConnection>>

(* normalize_graph_content up to the bindings. *)
Normalize ==
    /\ phase = "bound"
    /\ ~ConnectionThrows(connection)
    /\ runtimeBlocks' = [i \in DOMAIN blocks |-> NormalizeBlock(blocks[i])]
    /\ runtimeConnection' = NormalizeConnection(connection)
    /\ phase' = "normalized"
    /\ UNCHANGED <<blocks, connection, bindings>>

(* std::stoll on digits that no int64 holds. *)
NormalizeThrows ==
    /\ phase = "bound"
    /\ ConnectionThrows(connection)
    /\ phase' = "load failed"
    /\ UNCHANGED <<blocks, connection, bindings, runtimeBlocks,
                   runtimeConnection>>

Inject ==
    /\ phase = "normalized"
    /\ ~InjectionThrows(runtimeBlocks, bindings)
    /\ runtimeBlocks' = [i \in DOMAIN runtimeBlocks |->
                            InjectInto(runtimeBlocks[i], bindings)]
    /\ phase' = "injected"
    /\ UNCHANGED <<blocks, connection, bindings, runtimeConnection>>

InjectThrows ==
    /\ phase = "normalized"
    /\ InjectionThrows(runtimeBlocks, bindings)
    /\ phase' = "injection failed"
    /\ UNCHANGED <<blocks, connection, bindings, runtimeBlocks,
                   runtimeConnection>>

(* gr::loadGrc instantiates every block by its id, or throws. *)
Load ==
    /\ phase = "injected"
    /\ \A i \in DOMAIN runtimeBlocks : runtimeBlocks[i].id \in BlockTypes
    /\ phase' = "loaded"
    /\ UNCHANGED <<blocks, connection, bindings, runtimeBlocks,
                   runtimeConnection>>

LoadThrows ==
    /\ phase = "injected"
    /\ phase' = "load failed"
    /\ UNCHANGED <<blocks, connection, bindings, runtimeBlocks,
                   runtimeConnection>>

Next ==
    \/ AddBlock \/ Refuse \/ Bind \/ Normalize \/ NormalizeThrows
    \/ Inject \/ InjectThrows \/ Load \/ LoadThrows

Spec == Init /\ [][Next]_vars

-----------------------------------------------------------------------------
Phases == {"authoring", "refused", "bound", "normalized", "injected",
           "loaded", "load failed", "injection failed"}

(* The two sides may name this block differently: parameters.name is there *)
(* but holds no name, or it is absent and the id, which the contract takes *)
(* for the type, is the name to normalize_block.                           *)
UnclearName(b) ==
    \/ Parameters(b).name \in {Empty, Other}
    \/ /\ Parameters(b).name = Missing
       /\ b.block = Missing
       /\ NonEmpty(b.id)

(* Two managed blocks of one name: stream ids are unique, names need not be. *)
SharedName ==
    \E i, j \in DOMAIN blocks :
        /\ i # j
        /\ IsStream(blocks[i]) /\ IsStream(blocks[j])
        /\ InstanceName(blocks[i]) = InstanceName(blocks[j])

Ambiguous ==
    \/ SharedName
    \/ \E i \in DOMAIN blocks : IsStream(blocks[i]) /\ UnclearName(blocks[i])

(* Every phase has the data that belongs to it, and no two streams share   *)
(* an id or the path under which browsers find them.                       *)
TypeOK ==
    /\ phase \in Phases
    /\ connection \in AuthoredConnections
    /\ \A i \in DOMAIN blocks : blocks[i] \in AuthoredBlocks[i]
    /\ phase \in {"authoring", "refused"} => bindings = <<>>
    /\ \A k, l \in DOMAIN bindings : k # l =>
            /\ bindings[k].plan.stream_id # bindings[l].plan.stream_id
            /\ bindings[k].plan.path # bindings[l].plan.path

(* No block runs with a declared stream that the control plane does not    *)
(* manage: whatever keys a loadable block is written with, the contract    *)
(* has seen the declaration (an invalid one is refused). The one exception *)
(* is an empty "block" entry, which the contract takes for an empty type   *)
(* and the runtime ignores in favour of the id.                            *)
DeclaredIsManaged ==
    phase = "loaded" =>
        \A i \in DOMAIN blocks :
            Declares(Parameters(blocks[i])) /\ blocks[i].block # Empty =>
                /\ i \in DOMAIN bindings
                /\ bindings[i].plan.stream_id = StreamId(blocks[i])

(* Unless names are ambiguous, the graph that is loaded has in each managed *)
(* block the endpoint of that block's own stream, and in every other block *)
(* the authored one - except that a block which bears the name of a        *)
(* managed one gets that one's endpoint as well.                           *)
EndpointsReachTheirBlocks ==
    phase = "loaded" /\ ~Ambiguous =>
        \A i \in DOMAIN blocks :
            LET endpoint == runtimeBlocks[i].parameters.endpoint
                namesakes == {k \in DOMAIN bindings :
                    bindings[k].plan.block_instance_name =
                        RuntimeName(runtimeBlocks[i])}
            IN IF IsStream(blocks[i])
               THEN endpoint = i
               ELSE \/ endpoint = Parameters(blocks[i]).endpoint
                    \/ endpoint \in namesakes

(* A plan that satisfies the contract is injected whole; the throw at the  *)
(* end of inject_stream_bindings is reached by ambiguous names alone.      *)
InjectionFailsOnlyWhenAmbiguous ==
    phase = "injection failed" => Ambiguous

=============================================================================
