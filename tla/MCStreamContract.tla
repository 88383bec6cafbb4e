-------------------------- MODULE MCStreamContract --------------------------
(***************************************************************************)
(* Authored graphs for StreamContract.tla. The first block ranges over     *)
(* every way of writing the type and the name of a block, in the native    *)
(* form (id, parameters.name), the studio form (block, id) and the legacy  *)
(* form (block_type, instance_name, raw_parameters), with and without      *)
(* mistakes; the second is one of a few that can get in its way.           *)
(***************************************************************************)
EXTENDS StreamContract, TLC

CONSTANTS n1, n2, t

NoParameters ==
    [name |-> Missing, stream |-> Missing, stream_id |-> Missing,
     transport |-> Missing, payload_format |-> Missing, endpoint |-> Missing]

StreamMap(id, transport, format) ==
    [id |-> id, transport |-> transport, payload_format |-> format]

(* The stream declarations: none, nested, flattened, and broken ones. *)
Declarations ==
    {NoParameters,
     [NoParameters EXCEPT !.stream = StreamMap(Missing, "http_poll", n1)],
     [NoParameters EXCEPT !.stream = StreamMap(Empty, "websocket", n1),
                          !.endpoint = n2],
     [NoParameters EXCEPT !.stream = Other, !.transport = "http_poll",
                          !.payload_format = n1],
     [NoParameters EXCEPT !.transport = "http_snapshot", !.stream_id = n2,
                          !.payload_format = n1, !.endpoint = n2],
     [NoParameters EXCEPT !.transport = "grpc", !.payload_format = n1],
     [NoParameters EXCEPT !.transport = Other, !.endpoint = n2]}

(* The same declaration in parameters, in raw_parameters, or divided. *)
Blocks(ids, types, legacyTypes, instances, tops, names, declarations, raw) ==
    {[id |-> i, block |-> b, block_type |-> lt, instance_name |-> inst,
      name |-> top,
      parameters |->
        IF r THEN [NoParameters EXCEPT !.name = n] ELSE [d EXCEPT !.name = n],
      raw_parameters |-> IF r THEN [d EXCEPT !.name = n2] ELSE NoParameters] :
        i \in ids, b \in types, lt \in legacyTypes, inst \in instances,
        top \in tops, n \in names, d \in declarations, r \in raw}

FirstBlocks ==
    Blocks({Missing, Empty, Other, n1, t}, {Missing, Empty, Other, t},
           {Missing, t}, {Missing, n2}, {Missing}, {Missing, Empty, Other, n1},
           Declarations, {FALSE})
    \cup
    Blocks({Missing, t}, {Missing}, {t, Other}, {Missing, n1, Empty},
           {Missing, n2}, {Missing, Empty, n1}, Declarations, {TRUE, FALSE})

SecondBlocks ==
    Blocks({t}, {Missing}, {Missing}, {Missing}, {Missing}, {n1, n2},
           {NoParameters,
            [NoParameters EXCEPT !.stream = StreamMap(n1, "websocket", n1)]},
           {FALSE})
    \cup
    Blocks({t}, {Missing}, {Missing}, {n2}, {Missing}, {Missing},
           {[NoParameters EXCEPT !.transport = "http_poll", !.stream_id = n2,
                                 !.payload_format = n1]}, {FALSE, TRUE})

MCAuthoredBlocks == <<FirstBlocks, SecondBlocks>>

Token(word, number) == [word |-> word, number |-> number]

Join(form, complete, source_port, dest_port) ==
    [form |-> form, complete |-> complete, source_port |-> source_port,
     dest_port |-> dest_port]

MCAuthoredConnections ==
    {Join("map", TRUE, Token("out", ""), Token("in", "digits")),
     Join("map", TRUE, Token("in..t", "too long"), Token("other", "")),
     Join("map", FALSE, Missing, Token("out", "too long")),
     Join("list", TRUE, Token("", "too long"), Other),
     Join("list", FALSE, Token("in..t", "too long"), Missing),
     Join("scalar", FALSE, Missing, Missing)}

=============================================================================
