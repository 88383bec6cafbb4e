------------------------- MODULE BlockSettingsProofs -------------------------
(***************************************************************************)
(* Theorems about BlockSettings.tla: what a client is told of its settings *)
(* request is true, and what it reads is current, for any graph, any       *)
(* number of clients, and any width of integers.                           *)
(***************************************************************************)
EXTENDS BlockSettings, SequenceTheorems, TLAPS

Versions == [order : Nat, mode : {"staged", "immediate"}]

\* A request as long as its thread has nothing but an answer, when it has been
\* checked, and when it has been sent.
Short == [step : Answers \cup {"idle"}, id : Nat, effect : Effects \cup {None}]

Checked ==
    [step : {"checked"}, id : Nat, effect : {None}, op : Ops, target : Targets, sent : Int]

Sent ==
    [step : {"waiting", "ok"}, id : Nat, effect : Effects \cup {None}, op : Ops,
     target : Targets, sent : Int, block : Blocks, run : Nat, floor : Nat, read : Versions]

Messages == [id : Nat, op : Ops, block : Blocks, sent : Int]

Replies ==
    [id : Nat, op : Ops, block : Blocks, ok : BOOLEAN, settings : Versions, order : Nat]

Types ==
    /\ record \in {"running", "stopped", "absent"}
    /\ runs \in Nat /\ runs <= MaxRuns /\ run \in 0 .. runs
    /\ record = "absent" => run = 0
    /\ mutex \in Clients \cup {None}
    /\ client \in [Clients -> Short \cup Checked \cup Sent]
    /\ \A c \in Clients : client[c].step = "ok" => client[c] \in Sent
    /\ requests \in Nat
    /\ queue \in Seq(Messages) /\ inbox \in Seq(Replies)

\* A request id is given once, and sent once.
Ids ==
    /\ \A c \in Clients : client[c].id <= requests /\ (client[c].step \in {"idle", "timeout"} <=> client[c].id = 0)
    /\ \A c, d \in Clients : c # d /\ client[c].id = client[d].id => client[c].id = 0
    /\ \A i \in DOMAIN queue : queue[i].id \in 1 .. requests
    /\ \A i, j \in DOMAIN queue : queue[i].id = queue[j].id => i = j

\* The mutex is held for as long as one waits, and no run ends meanwhile.
Locking ==
    \A c \in Clients :
        /\ client[c].step = "waiting" <=> mutex = c
        /\ client[c].step = "waiting" => client[c].run = run /\ run # 0

\* What a block has told of settings never falls behind what was accepted.
Settings ==
    /\ settings \in [Blocks -> Versions] /\ staged \in [Blocks -> Versions]
    /\ orders \in Nat /\ accepted \in [Blocks -> Nat]
    /\ \A b \in Blocks :
           /\ accepted[b] <= orders
           /\ settings[b].mode = "staged" \/ settings[b].order >= accepted[b]
           /\ staged[b] # Unset => staged[b].mode = "staged"
    /\ \A i \in DOMAIN inbox :
           inbox[i].ok /\ inbox[i].op = "immediate" =>
               /\ inbox[i].order <= orders
               /\ \/ settings[inbox[i].block].mode = "staged"
                  \/ settings[inbox[i].block].order >= inbox[i].order

Resolved == [target \in Targets |-> Resolve(target)]

NotQueued(c) == \A i \in DOMAIN queue : queue[i].id # client[c].id

Current(version, c) == version.mode = "staged" \/ version.order >= client[c].floor

CarriedOut(c) ==
    client[c].effect = [block |-> client[c].block, run |-> client[c].run, mode |-> client[c].op,
                        value |-> IntegerValue(client[c].sent)]

\* A request that waits: as long as its message is in the queue nothing has
\* come of it; a reply with its id is the reply to it, and tells the truth.
Waiting(c) ==
    /\ client[c].floor = accepted[client[c].block]
    /\ \A i \in DOMAIN queue :
           queue[i].id = client[c].id =>
               /\ queue[i].op = client[c].op
               /\ queue[i].block = client[c].block
               /\ queue[i].sent = client[c].sent
               /\ client[c].effect = None
               /\ \A j \in DOMAIN inbox : inbox[j].id # client[c].id
    /\ \A i \in DOMAIN inbox :
           inbox[i].id = client[c].id =>
               /\ inbox[i].op = client[c].op
               /\ inbox[i].block = client[c].block
               /\ ~inbox[i].ok => client[c].effect = None
               /\ inbox[i].ok /\ client[c].op # "get" => CarriedOut(c)
               /\ inbox[i].ok /\ client[c].op = "get" => Current(inbox[i].settings, c)

\* What has become of a request so far, and what its client was told.
Told(c) ==
    /\ client[c].step \in {"checked"} \cup Refusals => client[c].effect = None /\ NotQueued(c)
    /\ client[c].step \in {"waiting", "ok"} =>
           /\ client[c].block \in Resolved[client[c].target]
           /\ client[c].op = "get" => client[c].effect = None
    /\ client[c].step = "waiting" => Waiting(c)
    /\ client[c].step = "ok" =>
           /\ NotQueued(c)
           /\ client[c].op # "get" => CarriedOut(c)
           /\ client[c].op = "get" => Current(client[c].read, c)

AllTold == \A c \in Clients : Told(c)

IInv == Types /\ Ids /\ Locking /\ Settings /\ AllTold

-----------------------------------------------------------------------------
(* Sequences, records and numbers. *)

LEMMA AppendIs ==
    ASSUME NEW S, NEW q \in Seq(S), NEW e \in S
    PROVE  /\ Append(q, e) \in Seq(S)
           /\ \A i \in DOMAIN Append(q, e) :
                  \/ i \in DOMAIN q /\ Append(q, e)[i] = q[i]
                  \/ i = Len(q) + 1 /\ Append(q, e)[i] = e
           /\ DOMAIN q = 1 .. Len(q) /\ Len(q) \in Nat
  OBVIOUS

LEMMA TailIs ==
    ASSUME NEW S, NEW q \in Seq(S), q # <<>>
    PROVE  /\ Tail(q) \in Seq(S)
           /\ 1 \in DOMAIN q /\ Head(q) = q[1] /\ Head(q) \in S
           /\ \A i \in DOMAIN Tail(q) :
                  i \in Nat \ {0} /\ i + 1 \in DOMAIN q /\ Tail(q)[i] = q[i + 1]
  OBVIOUS

LEMMA EmptyIs == \A S : <<>> \in Seq(S) /\ DOMAIN <<>> = {}
  OBVIOUS

LEMMA ResolveIs == \A target \in Targets : Resolved[target] \subseteq Blocks
  BY DEF Resolved, Resolve, FirstBy

LEMMA IntegerIs == \A n \in Int : IntegerValue(n) \in Int
  BY SettingsAssumption DEF IntegerValue

LEMMA UnsetIs == Unset \in Versions /\ Unset.order = 0 /\ Unset.mode = "immediate"
  BY DEF Unset, Versions

LEMMA ClientIs ==
    ASSUME Types, NEW c \in Clients
    PROVE  /\ client[c].step \in Answers \cup {"idle", "checked", "waiting"}
           /\ client[c].id \in Nat /\ client[c].effect \in Effects \cup {None}
           /\ client[c].step = "checked" => client[c] \in Checked
           /\ client[c].step \in {"waiting", "ok"} => client[c] \in Sent
<1>1. client[c] \in Short \cup Checked \cup Sent
  BY DEF Types
<1>2. CASE client[c] \in Short
  BY <1>2 DEF Types, Short, Answers, Refusals
<1>3. CASE client[c] \in Checked
  BY <1>3 DEF Checked
<1>4. CASE client[c] \in Sent
  BY <1>4 DEF Sent, Answers
<1> QED
  BY <1>1, <1>2, <1>3, <1>4

\* One thread's request changes.
LEMMA OneClient ==
    ASSUME Types, NEW c \in Clients, NEW r \in Short \cup Checked \cup Sent,
           r.step = "ok" => r \in Sent,
           client' = [client EXCEPT ![c] = r]
    PROVE  /\ client' \in [Clients -> Short \cup Checked \cup Sent]
           /\ \A d \in Clients : client'[d].step = "ok" => client'[d] \in Sent
           /\ client'[c] = r
           /\ \A d \in Clients \ {c} : client'[d] = client[d]
  BY DEF Types

\* A request that nothing new has come to is as it was.
LEMMA ToldStays ==
    ASSUME NEW d \in Clients, Told(d), client'[d] = client[d],
           \A i \in DOMAIN queue' :
               queue'[i].id # client[d].id \/ \E j \in DOMAIN queue : queue'[i] = queue[j],
           client[d].step = "waiting" =>
               /\ accepted' = accepted
               /\ \A i \in DOMAIN inbox' :
                      inbox'[i].id # client[d].id \/ \E j \in DOMAIN inbox : inbox'[i] = inbox[j]
    PROVE  Told(d)'
<1>1. NotQueued(d) => NotQueued(d)'
  BY DEF NotQueued
<1>2. client[d].step = "waiting" /\ Waiting(d) => Waiting(d)'
  <2> SUFFICES ASSUME client[d].step = "waiting", Waiting(d) PROVE Waiting(d)'
    OBVIOUS
  <2>1. (client[d].floor = accepted[client[d].block])'
    BY DEF Waiting
  <2>2. ASSUME NEW i \in DOMAIN queue', queue'[i].id = client'[d].id
        PROVE  /\ queue'[i].op = client'[d].op
               /\ queue'[i].block = client'[d].block
               /\ queue'[i].sent = client'[d].sent
               /\ client'[d].effect = None
               /\ \A j \in DOMAIN inbox' : inbox'[j].id # client'[d].id
    <3>1. PICK k \in DOMAIN queue : queue'[i] = queue[k] /\ queue[k].id = client[d].id
      BY <2>2
    <3> QED
      BY <3>1 DEF Waiting
  <2>3. ASSUME NEW i \in DOMAIN inbox', inbox'[i].id = client'[d].id
        PROVE  /\ inbox'[i].op = client'[d].op
               /\ inbox'[i].block = client'[d].block
               /\ ~inbox'[i].ok => client'[d].effect = None
               /\ inbox'[i].ok /\ client'[d].op # "get" => CarriedOut(d)'
               /\ inbox'[i].ok /\ client'[d].op = "get" => Current(inbox[i].settings, d)'
    <3>1. PICK k \in DOMAIN inbox : inbox'[i] = inbox[k] /\ inbox[k].id = client[d].id
      BY <2>3
    <3> QED
      BY <3>1 DEF Waiting, CarriedOut, Current, IntegerValue
  <2> QED
    BY <2>1, <2>2, <2>3 DEF Waiting, Current
<1>3. CarriedOut(d) => CarriedOut(d)'
  BY DEF CarriedOut, IntegerValue
<1>4. Current(client[d].read, d) => Current(client[d].read, d)'
  BY DEF Current
<1> QED
  BY <1>1, <1>2, <1>3, <1>4 DEF Told


-----------------------------------------------------------------------------
LEMMA InitHolds == Init => IInv
<1> SUFFICES ASSUME Init PROVE IInv
  OBVIOUS
<1> USE SettingsAssumption, EmptyIs, UnsetIs
<1>1. Idle \in Short /\ Idle.step = "idle" /\ Idle.id = 0 /\ Idle.effect = None
  BY DEF Idle, Short
<1>2. Types
  BY <1>1 DEF Init, Types
<1>3. Ids
  BY <1>1 DEF Init, Ids
<1>4. Locking
  BY <1>1 DEF Init, Locking
<1>5. Settings
  BY DEF Init, Settings
<1>6. AllTold
  BY <1>1 DEF Init, AllTold, Told, Refusals
<1> QED
  BY <1>2, <1>3, <1>4, <1>5, <1>6 DEF IInv

(* The threads of the clients. *)

\* A request gets an answer, or is new, or is done with; it neither waits for a
\* reply from now on, nor is it one that was accepted.
LEMMA AnswerKeepsIInv ==
    ASSUME IInv, NEW c \in Clients, NEW r \in Short \cup Checked,
           client' = [client EXCEPT ![c] = r],
           r.step \notin {"waiting", "ok"},
           r.step \in {"idle", "timeout"} <=> r.id = 0,
           \/ r.id \in {0, client[c].id} /\ requests' = requests
           \/ r.id = requests + 1 /\ requests' = requests + 1,
           r.step \in {"checked"} \cup Refusals =>
               r.effect = None /\ \A i \in DOMAIN queue : queue[i].id # r.id,
           IF client[c].step = "waiting" THEN mutex' = None ELSE mutex' = mutex,
           inbox' \in {inbox, <<>>},
           UNCHANGED <<recordVars, queue, blockVars>>
    PROVE  IInv'
<1> USE DEF IInv
<1>1. /\ client' \in [Clients -> Short \cup Checked \cup Sent]
      /\ \A d \in Clients : client'[d].step = "ok" => client'[d] \in Sent
      /\ client'[c] = r
      /\ \A d \in Clients \ {c} : client'[d] = client[d]
  BY OneClient
<1>2. Types'
  <2>1. requests' \in Nat
    BY DEF Types
  <2>2. mutex' \in Clients \cup {None}
    BY DEF Types
  <2>3. inbox' \in Seq(Replies)
    BY EmptyIs DEF Types
  <2> QED
    BY <1>1, <2>1, <2>2, <2>3 DEF Types, recordVars
<1>3. Ids'
  <2>1. /\ requests \in Nat
        /\ \A d \in Clients : client[d].id \in Nat /\ client[d].id <= requests
    BY ClientIs DEF Types, Ids
  <2>2. \A d \in Clients :
            client'[d].id <= requests' /\ (client'[d].step \in {"idle", "timeout"} <=> client'[d].id = 0)
    BY <1>1, <2>1 DEF Ids
  <2>3. \A d, e \in Clients : d # e /\ client'[d].id = client'[e].id => client'[d].id = 0
    BY <1>1, <2>1 DEF Ids
  <2>4. /\ \A i \in DOMAIN queue : queue[i].id \in 1 .. requests'
        /\ \A i, j \in DOMAIN queue : queue[i].id = queue[j].id => i = j
    BY <2>1 DEF Ids
  <2> QED
    BY <2>2, <2>3, <2>4 DEF Ids
<1>4. Locking'
  BY <1>1, SettingsAssumption DEF Locking, recordVars
<1>5. Settings'
  BY EmptyIs DEF Settings, blockVars, historyVars
<1>6. Told(c)'
  BY <1>1 DEF Told, NotQueued
<1>7. ASSUME NEW d \in Clients \ {c} PROVE Told(d)'
  BY <1>1, EmptyIs, ToldStays DEF AllTold, blockVars, historyVars
<1> QED
  BY <1>2, <1>3, <1>4, <1>5, <1>6, <1>7 DEF AllTold

LEMMA FinishIs ==
    ASSUME IInv, NEW c \in Clients, NEW step \in Answers, Finish(c, step)
    PROVE  \E r \in Short :
               /\ client' = [client EXCEPT ![c] = r]
               /\ r.step = step /\ r.id = client[c].id /\ r.effect = client[c].effect
<1>1. client[c].id \in Nat /\ client[c].effect \in Effects \cup {None}
  BY ClientIs DEF IInv
<1> DEFINE r == [step |-> step, id |-> client[c].id, effect |-> client[c].effect]
<1>2. r \in Short
  BY <1>1 DEF Short
<1>3. client' = [client EXCEPT ![c] = r]
  BY DEF Finish, IInv, Types
<1>4. r.step = step /\ r.id = client[c].id /\ r.effect = client[c].effect
  BY <1>1
<1> HIDE DEF r
<1> QED
  BY <1>2, <1>3, <1>4

LEMMA AskKeepsIInv == ASSUME IInv, NEW c \in Clients, Request(c) PROVE IInv'
<1> USE DEF IInv
<1>1. PICK op, target, value, array :
          op \in Ops /\ target \in Targets /\ value \in Int /\ Ask(c, op, target, value, array)
  <2>1. CASE \E target \in Targets : Ask(c, "get", target, 0, FALSE)
    <3>1. "get" \in Ops /\ 0 \in Int
      BY DEF Ops
    <3> QED
      BY <2>1, <3>1, Zenon
  <2>2. CASE \E u \in Updates, target \in Targets : Ask(c, u.op, target, u.value, u.array)
    <3>1. PICK u \in Updates, target \in Targets : Ask(c, u.op, target, u.value, u.array)
      BY <2>2
    <3>2. u.op \in Ops /\ u.value \in Int
      BY SettingsAssumption DEF Ops
    <3> QED
      BY <3>1, <3>2
  <2> QED
    BY <2>1, <2>2 DEF Request
<1>2. /\ client[c].step = "idle" /\ requests' = requests + 1
      /\ UNCHANGED <<recordVars, mutex, queue, inbox, blockVars>>
  BY <1>1 DEF Ask
<1>3. requests \in Nat
  BY DEF Types
<1>4. PICK r \in Short \cup Checked :
          /\ client' = [client EXCEPT ![c] = r]
          /\ r.step \in {"checked"} \cup Refusals /\ r.id = requests + 1 /\ r.effect = None
  <2>1. ASSUME NEW step \in Refusals
        PROVE  /\ Answered(step) \in Short
               /\ Answered(step).step = step
               /\ Answered(step).id = requests + 1 /\ Answered(step).effect = None
    <3> DEFINE r == [step |-> step, id |-> requests + 1, effect |-> None]
    <3>1. r \in Short /\ r.step = step /\ r.id = requests + 1 /\ r.effect = None
      BY <1>3, <2>1 DEF Short, Answers
    <3> QED
      BY <3>1 DEF Answered
  <2> DEFINE r == [step |-> "checked", id |-> requests + 1, effect |-> None,
                   op |-> op, target |-> target, sent |-> value]
  <2>2. r \in Checked /\ r.step = "checked" /\ r.id = requests + 1 /\ r.effect = None
    BY <1>1, <1>3 DEF Checked
  <2>3. client' = [client EXCEPT ![c] =
            IF record = "absent" THEN Answered("missing")
            ELSE IF record # "running" THEN Answered("conflict")
            ELSE IF array THEN Answered("validation")
            ELSE r]
    BY <1>1 DEF Ask
  <2> HIDE DEF r
  <2>4. CASE record = "absent"
    BY <2>1, <2>3, <2>4 DEF Refusals
  <2>5. CASE record # "absent" /\ record # "running"
    BY <2>1, <2>3, <2>5 DEF Refusals
  <2>6. CASE record = "running" /\ array
    BY <2>1, <2>3, <2>6 DEF Refusals
  <2>7. CASE record = "running" /\ ~array
    BY <2>2, <2>3, <2>7
  <2> QED
    BY <2>4, <2>5, <2>6, <2>7
<1>5. r.step \notin {"waiting", "ok", "idle", "timeout"} /\ r.id # 0
  BY <1>3, <1>4 DEF Refusals
<1>6. \A i \in DOMAIN queue : queue[i].id # r.id
  BY <1>3, <1>4 DEF Ids
<1>7. IF client[c].step = "waiting" THEN mutex' = None ELSE mutex' = mutex
  BY <1>2
<1>8. inbox' \in {inbox, <<>>} /\ UNCHANGED <<recordVars, queue, blockVars>>
  BY <1>2
<1> QED
  BY <1>2, <1>4, <1>5, <1>6, <1>7, <1>8, AnswerKeepsIInv

\* The request fails before anything is sent, or in the conversion of what was
\* read; the wait is over; or the answer is sent.
LEMMA EndKeepsIInv ==
    ASSUME IInv, NEW c \in Clients,
           \/ NotServing(c) \/ UnknownBlock(c) \/ ConnectFails(c)
           \/ Timeout(c) \/ ConversionThrows(c) \/ Reply(c)
    PROVE  IInv'
<1> USE DEF IInv
<1>1. /\ UNCHANGED <<recordVars, requests, queue, inbox, blockVars>>
      /\ IF client[c].step = "waiting" THEN mutex' = None ELSE mutex' = mutex
  BY DEF NotServing, UnknownBlock, ConnectFails, Timeout, ConversionThrows, Reply, Answers, Refusals
<1>2. CASE Reply(c)
  <2>1. Idle \in Short /\ Idle.step = "idle" /\ Idle.id = 0
    BY DEF Idle, Short
  <2> QED
    BY <1>1, <1>2, <2>1, AnswerKeepsIInv DEF Reply, Refusals
<1>3. CASE Timeout(c)
  <2>1. GivenUp \in Short /\ GivenUp.step = "timeout" /\ GivenUp.id = 0
    BY DEF GivenUp, Short, Answers
  <2> QED
    BY <1>1, <1>3, <2>1, AnswerKeepsIInv DEF Timeout, Refusals
<1>4. CASE ~Reply(c) /\ ~Timeout(c)
  <2>1. PICK step \in {"error", "missing"} :
            /\ Finish(c, step)
            /\ \/ client[c].step = "checked"
               \/ client[c].step = "ok" /\ client[c].op = "get"
    BY <1>4 DEF NotServing, UnknownBlock, ConnectFails, ConversionThrows
  <2>2. PICK r \in Short :
            /\ client' = [client EXCEPT ![c] = r]
            /\ r.step = step /\ r.id = client[c].id /\ r.effect = client[c].effect
    BY <2>1, FinishIs DEF Answers, Refusals
  <2>3. r.step \notin {"waiting", "ok", "idle", "timeout"} /\ r.id # 0
    BY <2>1, <2>2 DEF Ids
  <2>4. client[c].effect = None /\ NotQueued(c)
    BY <2>1 DEF AllTold, Told
  <2>5. r.step \in {"checked"} \cup Refusals =>
            r.effect = None /\ \A i \in DOMAIN queue : queue[i].id # r.id
    BY <2>2, <2>4 DEF NotQueued
  <2> QED
    BY <1>1, <2>2, <2>3, <2>5, AnswerKeepsIInv
<1> QED
  BY <1>2, <1>3, <1>4

LEMMA SendKeepsIInv == ASSUME IInv, NEW c \in Clients, Send(c) PROVE IInv'
<1> USE DEF IInv
<1>1. /\ client[c].step = "checked" /\ mutex = None /\ run # 0 /\ mutex' = c /\ inbox' = <<>>
      /\ UNCHANGED <<recordVars, requests, blockVars>>
  BY DEF Send
<1>2. client[c] \in Checked /\ client[c].id # 0 /\ client[c].id \in 1 .. requests
  BY <1>1, ClientIs DEF Ids, Types
<1>3. PICK b \in Resolve(client[c].target) :
          /\ queue' = Append(queue, [id |-> client[c].id, op |-> client[c].op,
                                     block |-> b, sent |-> client[c].sent])
          /\ client' = [client EXCEPT ![c] =
                 [step |-> "waiting", id |-> client[c].id, effect |-> None, op |-> client[c].op,
                  target |-> client[c].target, sent |-> client[c].sent, block |-> b,
                  run |-> run, floor |-> accepted[b], read |-> Unset]]
  BY DEF Send, Types
<1>4. PICK id, op, target, sent :
          /\ id = client[c].id /\ op = client[c].op
          /\ target = client[c].target /\ sent = client[c].sent
  OBVIOUS
<1>5. id \in Nat /\ op \in Ops /\ target \in Targets /\ sent \in Int
  BY <1>2, <1>4 DEF Checked
<1>6. b \in Resolved[target] /\ b \in Blocks
  BY <1>3, <1>4, <1>5, ResolveIs DEF Resolved
<1>7. accepted[b] \in Nat /\ run \in Nat
  BY <1>6 DEF Settings, Types
<1> DEFINE m == [id |-> id, op |-> op, block |-> b, sent |-> sent]
<1> DEFINE r == [step |-> "waiting", id |-> id, effect |-> None, op |-> op, target |-> target,
                 sent |-> sent, block |-> b, run |-> run, floor |-> accepted[b], read |-> Unset]
<1>8. /\ m \in Messages
      /\ m.id = id /\ m.op = op /\ m.block = b /\ m.sent = sent
  BY <1>5, <1>6 DEF Messages
<1>9. /\ r \in Sent
      /\ r.step = "waiting" /\ r.id = id /\ r.effect = None /\ r.op = op /\ r.target = target
      /\ r.sent = sent /\ r.block = b /\ r.run = run /\ r.floor = accepted[b]
  BY <1>5, <1>6, <1>7, UnsetIs DEF Sent
<1>10. queue' = Append(queue, m) /\ client' = [client EXCEPT ![c] = r]
  BY <1>3, <1>4
<1> HIDE DEF m, r
<1>11. /\ queue' \in Seq(Messages)
       /\ \A i \in DOMAIN queue' :
              \/ i \in DOMAIN queue /\ queue'[i] = queue[i]
              \/ i = Len(queue) + 1 /\ queue'[i] = m
       /\ DOMAIN queue = 1 .. Len(queue) /\ Len(queue) \in Nat
  BY <1>8, <1>10, AppendIs DEF Types
<1>12. /\ client' \in [Clients -> Short \cup Checked \cup Sent]
       /\ \A d \in Clients : client'[d].step = "ok" => client'[d] \in Sent
       /\ client'[c] = r
       /\ \A d \in Clients \ {c} : client'[d] = client[d]
  BY <1>9, <1>10, OneClient
<1>13. \A i \in DOMAIN queue : queue[i].id # id
  BY <1>1, <1>4 DEF AllTold, Told, NotQueued
<1>14. Types'
  BY <1>1, <1>11, <1>12, EmptyIs DEF Types, recordVars
<1>15. Ids'
  <2>1. /\ \A d \in Clients :
                client'[d].id <= requests /\ (client'[d].step \in {"idle", "timeout"} <=> client'[d].id = 0)
        /\ \A d, e \in Clients : d # e /\ client'[d].id = client'[e].id => client'[d].id = 0
    BY <1>2, <1>4, <1>9, <1>12 DEF Ids
  <2>2. \A i \in DOMAIN queue' : queue'[i].id \in 1 .. requests
    BY <1>2, <1>4, <1>8, <1>11 DEF Ids
  <2>3. \A i, j \in DOMAIN queue' : queue'[i].id = queue'[j].id => i = j
    BY <1>8, <1>11, <1>13 DEF Ids
  <2> QED
    BY <1>1, <2>1, <2>2, <2>3 DEF Ids
<1>16. Locking'
  BY <1>1, <1>9, <1>12, SettingsAssumption DEF Locking, recordVars
<1>17. Settings'
  BY <1>1, EmptyIs DEF Settings, blockVars, historyVars
<1>18. Told(c)'
  <2>1. Waiting(c)'
    BY <1>1, <1>8, <1>9, <1>11, <1>12, <1>13, EmptyIs DEF Waiting, blockVars, historyVars
  <2> QED
    BY <1>6, <1>9, <1>12, <2>1 DEF Told, Refusals
<1>19. ASSUME NEW d \in Clients \ {c} PROVE Told(d)'
  <2>1. client[d].id # id
    BY <1>2, <1>4 DEF Ids
  <2>2. \A i \in DOMAIN queue' :
            queue'[i].id # client[d].id \/ \E j \in DOMAIN queue : queue'[i] = queue[j]
    BY <1>8, <1>11, <2>1
  <2> QED
    BY <1>1, <1>12, <2>2, EmptyIs, ToldStays DEF AllTold, blockVars, historyVars
<1> QED
  BY <1>14, <1>15, <1>16, <1>17, <1>18, <1>19 DEF AllTold

LEMMA PollKeepsIInv == ASSUME IInv, NEW c \in Clients, Poll(c) PROVE IInv'
<1> USE DEF IInv
<1>1. /\ inbox' = <<>>
      /\ UNCHANGED <<recordVars, mutex, client, requests, queue, blockVars>>
  BY DEF Poll
<1>2. Types' /\ Ids' /\ Locking'
  BY <1>1, EmptyIs DEF Types, Ids, Locking, recordVars
<1>3. Settings'
  BY <1>1, EmptyIs DEF Settings, blockVars, historyVars
<1>4. ASSUME NEW d \in Clients PROVE Told(d)'
  BY <1>1, EmptyIs, ToldStays DEF AllTold, blockVars, historyVars
<1> QED
  BY <1>2, <1>3, <1>4 DEF AllTold

\* The reply with the request's id says what has become of the request.
LEMMA ReceiveKeepsIInv == ASSUME IInv, NEW c \in Clients, Receive(c) PROVE IInv'
<1> USE DEF IInv
<1>1. /\ client[c].step = "waiting" /\ mutex' = None /\ inbox' = <<>>
      /\ UNCHANGED <<recordVars, requests, queue, settings, staged, orders>>
  BY DEF Receive
<1>2. PICK i \in DOMAIN inbox :
          /\ inbox[i].id = client[c].id
          /\ IF inbox[i].ok
             THEN client' = [client EXCEPT ![c].step = "ok", ![c].read = inbox[i].settings]
             ELSE Finish(c, "error")
          /\ accepted' = IF inbox[i].ok /\ inbox[i].op = "immediate"
                         THEN [accepted EXCEPT ![inbox[i].block] = inbox[i].order]
                         ELSE accepted
  BY DEF Receive, Mine, Matches
<1>3. client[c] \in Sent /\ mutex = c /\ client[c].id # 0
  BY <1>1, ClientIs DEF Locking, Ids
<1>4. Waiting(c) /\ NotQueued(c)
  BY <1>1, <1>2 DEF AllTold, Told, Waiting, NotQueued
<1>5. CASE ~inbox[i].ok
  <2>1. PICK r \in Short :
            /\ client' = [client EXCEPT ![c] = r]
            /\ r.step = "error" /\ r.id = client[c].id /\ r.effect = client[c].effect
    BY <1>2, <1>5, FinishIs DEF Answers, Refusals
  <2>2. r.effect = None /\ \A k \in DOMAIN queue : queue[k].id # r.id
    BY <1>2, <1>4, <1>5, <2>1 DEF Waiting, NotQueued
  <2>3. accepted' = accepted
    BY <1>2, <1>5
  <2> QED
    BY <1>1, <1>3, <2>1, <2>2, <2>3, AnswerKeepsIInv DEF blockVars, historyVars
<1>6. CASE inbox[i].ok
  <2>1. PICK reply \in Replies : reply = inbox[i]
    BY DEF Types
  <2>2. PICK was \in Sent : was = client[c]
    BY <1>3
  <2> DEFINE r == [was EXCEPT !.step = "ok", !.read = reply.settings]
  <2>3. /\ r \in Sent
        /\ r.step = "ok" /\ r.id = was.id /\ r.effect = was.effect /\ r.op = was.op
        /\ r.target = was.target /\ r.sent = was.sent /\ r.block = was.block
        /\ r.run = was.run /\ r.floor = was.floor /\ r.read = reply.settings
    BY <2>1 DEF Sent, Replies
  <2>4. client' = [client EXCEPT ![c] = r]
    BY <1>2, <1>6, <2>1, <2>2 DEF Types
  <2> HIDE DEF r
  <2>5. /\ client' \in [Clients -> Short \cup Checked \cup Sent]
        /\ \A d \in Clients : client'[d].step = "ok" => client'[d] \in Sent
        /\ client'[c] = r
        /\ \A d \in Clients \ {c} : client'[d] = client[d]
    BY <2>3, <2>4, OneClient
  <2>6. Types'
    BY <1>1, <2>5, EmptyIs DEF Types, recordVars
  <2>7. Ids'
    BY <1>1, <1>3, <2>2, <2>3, <2>5 DEF Ids
  <2>8. Locking'
    BY <1>1, <1>3, <2>3, <2>5, SettingsAssumption DEF Locking, recordVars
  <2>9. Settings'
    <3>1. reply.block \in Blocks /\ reply.order \in Nat
      BY <2>1 DEF Replies
    <3>2. accepted' \in [Blocks -> Nat]
      BY <1>2, <2>1, <3>1 DEF Settings
    <3>3. ASSUME NEW b \in Blocks
          PROVE  /\ accepted'[b] <= orders
                 /\ settings[b].mode = "staged" \/ settings[b].order >= accepted'[b]
      BY <1>2, <2>1, <3>1 DEF Settings
    <3> QED
      BY <1>1, <3>2, <3>3, EmptyIs DEF Settings
  <2>10. Told(c)'
    <3>1. was.block \in Resolved[was.target] /\ (was.op = "get" => was.effect = None)
      BY <1>1, <2>2 DEF AllTold, Told
    <3>2. /\ was.op # "get" => CarriedOut(c)
          /\ was.op = "get" => Current(reply.settings, c)
      BY <1>2, <1>4, <1>6, <2>1, <2>2 DEF Waiting
    <3>3. NotQueued(c)'
      BY <1>1, <1>4, <2>2, <2>3, <2>5 DEF NotQueued
    <3>4. was.op # "get" => CarriedOut(c)'
      BY <2>2, <2>3, <2>5, <3>2 DEF CarriedOut, IntegerValue
    <3>5. was.op = "get" => Current(client[c].read, c)'
      BY <2>2, <2>3, <2>5, <3>2 DEF Current
    <3> QED
      BY <2>3, <2>5, <3>1, <3>3, <3>4, <3>5 DEF Told, Refusals
  <2>11. ASSUME NEW d \in Clients \ {c} PROVE Told(d)'
    <3>1. client[d].step # "waiting"
      BY <1>3 DEF Locking
    <3> QED
      BY <1>1, <2>5, <3>1, ToldStays DEF AllTold
  <2> QED
    BY <2>6, <2>7, <2>8, <2>9, <2>10, <2>11 DEF AllTold
<1> QED
  BY <1>5, <1>6


-----------------------------------------------------------------------------
(* The scheduler. *)

\* The first message leaves the queue; its id does not come again.
LEMMA Dequeued ==
    ASSUME IInv, queue # <<>>, queue' = Tail(queue)
    PROVE  \E m \in Messages :
               /\ m = Head(queue) /\ m.id \in 1 .. requests
               /\ 1 \in DOMAIN queue /\ queue[1] = m
               /\ queue' \in Seq(Messages)
               /\ \A i \in DOMAIN queue' :
                      queue'[i].id # m.id /\ \E j \in DOMAIN queue : queue'[i] = queue[j]
               /\ \A i, j \in DOMAIN queue' : queue'[i].id = queue'[j].id => i = j
<1>1. queue \in Seq(Messages) /\ queue # <<>>
  BY DEF IInv, Types
<1>2. /\ queue' \in Seq(Messages)
      /\ 1 \in DOMAIN queue /\ Head(queue) = queue[1] /\ Head(queue) \in Messages
      /\ \A i \in DOMAIN queue' :
             i \in Nat \ {0} /\ i + 1 \in DOMAIN queue /\ queue'[i] = queue[i + 1]
  BY <1>1, TailIs
<1>3. PICK m \in Messages : m = Head(queue)
  BY <1>2
<1>4. m.id \in 1 .. requests
  BY <1>2, <1>3 DEF IInv, Ids
<1>5. \A i \in DOMAIN queue' : queue'[i].id # m.id
  BY <1>2, <1>3 DEF IInv, Ids
<1>6. \A i, j \in DOMAIN queue' : queue'[i].id = queue'[j].id => i = j
  BY <1>2 DEF IInv, Ids
<1> QED
  BY <1>2, <1>3, <1>4, <1>5, <1>6

\* A reply comes, or nobody listens.
LEMMA Delivered ==
    ASSUME IInv, NEW m \in Messages, NEW ok \in BOOLEAN, NEW current \in Versions,
           orders' \in Nat, Deliver(m, ok, current)
    PROVE  \E reply \in Replies :
               /\ reply.id = m.id /\ reply.op = m.op /\ reply.block = m.block
               /\ reply.ok = ok /\ reply.settings = current /\ reply.order = orders'
               /\ inbox' \in Seq(Replies)
               /\ \A i \in DOMAIN inbox' :
                      inbox'[i] = reply \/ \E j \in DOMAIN inbox : inbox'[i] = inbox[j]
<1>1. PICK order \in Nat : order = orders'
  OBVIOUS
<1> DEFINE reply == [id |-> m.id, op |-> m.op, block |-> m.block,
                     ok |-> ok, settings |-> current, order |-> order]
<1>2. /\ reply \in Replies
      /\ reply.id = m.id /\ reply.op = m.op /\ reply.block = m.block
      /\ reply.ok = ok /\ reply.settings = current /\ reply.order = order
  BY DEF Replies, Messages
<1>3. inbox' = IF mutex = None THEN <<>> ELSE Append(inbox, reply)
  BY <1>1 DEF Deliver
<1> HIDE DEF reply
<1>4. inbox \in Seq(Replies)
  BY DEF IInv, Types
<1>5. CASE mutex = None
  BY <1>1, <1>2, <1>3, <1>5, EmptyIs
<1>6. CASE mutex # None
  <2>1. /\ inbox' \in Seq(Replies)
        /\ \A i \in DOMAIN inbox' :
               \/ i \in DOMAIN inbox /\ inbox'[i] = inbox[i]
               \/ i = Len(inbox) + 1 /\ inbox'[i] = reply
    BY <1>2, <1>3, <1>4, <1>6, AppendIs
  <2> QED
    BY <1>1, <1>2, <2>1
<1> QED
  BY <1>5, <1>6

\* A read, or a refused request: the reply says how things are.
LEMMA AnsweredKeepsIInv ==
    ASSUME IInv, queue # <<>>, queue' = Tail(queue),
           NEW ok \in BOOLEAN, NEW current \in Versions,
           Deliver(Head(queue), ok, current),
           ok => Head(queue).op = "get" /\ current = settings[Head(queue).block],
           UNCHANGED <<recordVars, mutex, client, requests, blockVars>>
    PROVE  IInv'
<1> USE DEF IInv
<1>1. PICK m \in Messages :
          /\ m = Head(queue) /\ m.id \in 1 .. requests
          /\ 1 \in DOMAIN queue /\ queue[1] = m
          /\ queue' \in Seq(Messages)
          /\ \A i \in DOMAIN queue' :
                 queue'[i].id # m.id /\ \E j \in DOMAIN queue : queue'[i] = queue[j]
          /\ \A i, j \in DOMAIN queue' : queue'[i].id = queue'[j].id => i = j
  BY Dequeued
<1>2. orders' \in Nat /\ Deliver(m, ok, current)
  BY <1>1 DEF Settings, blockVars, historyVars
<1>3. PICK reply \in Replies :
          /\ reply.id = m.id /\ reply.op = m.op /\ reply.block = m.block
          /\ reply.ok = ok /\ reply.settings = current /\ reply.order = orders'
          /\ inbox' \in Seq(Replies)
          /\ \A i \in DOMAIN inbox' :
                 inbox'[i] = reply \/ \E j \in DOMAIN inbox : inbox'[i] = inbox[j]
  BY <1>2, Delivered
<1>4. Types'
  BY <1>1, <1>3 DEF Types, recordVars
<1>5. Ids'
  BY <1>1 DEF Ids
<1>6. Locking'
  BY DEF Locking, recordVars
<1>7. Settings'
  <2>1. \A i \in DOMAIN inbox' :
            inbox'[i].ok /\ inbox'[i].op = "immediate" =>
                \E j \in DOMAIN inbox : inbox'[i] = inbox[j]
    BY <1>1, <1>3
  <2> QED
    BY <2>1 DEF Settings, blockVars, historyVars
<1>8. ASSUME NEW d \in Clients, client[d].id # m.id PROVE Told(d)'
  BY <1>1, <1>3, <1>8, ToldStays DEF AllTold, blockVars, historyVars
<1>9. ASSUME NEW d \in Clients, client[d].id = m.id PROVE Told(d)'
  <2>1. NotQueued(d)'
    BY <1>1, <1>9 DEF NotQueued
  <2>2. client[d].step \notin {"checked", "ok"} \cup Refusals
    BY <1>1, <1>9 DEF AllTold, Told, NotQueued
  <2>3. ASSUME client[d].step = "waiting" PROVE Waiting(d)'
    <3>1. /\ client[d].floor = accepted[client[d].block]
          /\ m.op = client[d].op /\ m.block = client[d].block
          /\ client[d].effect = None
          /\ \A j \in DOMAIN inbox : inbox[j].id # client[d].id
      BY <1>1, <1>9, <2>3 DEF AllTold, Told, Waiting
    <3>2. \A i \in DOMAIN inbox' : inbox'[i].id = client[d].id => inbox'[i] = reply
      BY <1>3, <3>1
    <3>3. ok => m.op = "get" /\ Current(current, d)
      BY <1>1, <3>1 DEF Current, Settings, Messages
    <3> QED
      BY <1>1, <1>3, <1>9, <3>1, <3>2, <3>3 DEF Waiting, Current, blockVars, historyVars
  <2> QED
    BY <2>1, <2>2, <2>3 DEF AllTold, Told
<1> QED
  BY <1>4, <1>5, <1>6, <1>7, <1>8, <1>9 DEF AllTold

LEMMA GetKeepsIInv == ASSUME IInv, HandleGet \/ BlockRefuses PROVE IInv'
<1> USE DEF IInv
<1>1. /\ queue # <<>> /\ queue' = Tail(queue)
      /\ UNCHANGED <<recordVars, mutex, client, requests, blockVars>>
  BY DEF HandleGet, BlockRefuses
<1>2. CASE HandleGet
  <2>1. Head(queue) \in Messages
    BY <1>1, TailIs DEF Types
  <2>2. PICK current \in Versions : current = settings[Head(queue).block]
    BY <2>1 DEF Settings, Messages
  <2>3. Head(queue).op = "get" /\ Deliver(Head(queue), TRUE, current)
    BY <1>2, <2>2 DEF HandleGet
  <2> QED
    BY <1>1, <2>2, <2>3, AnsweredKeepsIInv
<1>3. CASE BlockRefuses
  BY <1>1, <1>3, UnsetIs, AnsweredKeepsIInv DEF BlockRefuses
<1> QED
  BY <1>2, <1>3


\* The update is carried out: the request it came from, if it still waits, says so.
LEMMA SetKeepsIInv == ASSUME IInv, HandleSet PROVE IInv'
<1> USE DEF IInv
<1>1. /\ queue # <<>> /\ queue' = Tail(queue) /\ orders' = orders + 1
      /\ UNCHANGED <<recordVars, mutex, requests, accepted>>
  BY DEF HandleSet
<1>2. PICK m \in Messages :
          /\ m = Head(queue) /\ m.id \in 1 .. requests
          /\ 1 \in DOMAIN queue /\ queue[1] = m
          /\ queue' \in Seq(Messages)
          /\ \A i \in DOMAIN queue' :
                 queue'[i].id # m.id /\ \E j \in DOMAIN queue : queue'[i] = queue[j]
          /\ \A i, j \in DOMAIN queue' : queue'[i].id = queue'[j].id => i = j
  BY <1>1, Dequeued
<1>3. /\ m.op \in {"staged", "immediate"} /\ m.block \in Blocks /\ m.sent \in Int
      /\ orders \in Nat /\ orders' \in Nat /\ run \in Nat
  BY <1>1, <1>2 DEF HandleSet, Messages, Ops, Settings, Types
<1> DEFINE new == [order |-> orders + 1, mode |-> m.op]
<1>4. new \in Versions /\ new.order = orders + 1 /\ new.mode = m.op
  BY <1>3 DEF Versions
<1>5. /\ IF m.op = "staged" THEN staged' = [staged EXCEPT ![m.block] = new] /\ UNCHANGED settings
                            ELSE settings' = [settings EXCEPT ![m.block] = new] /\ UNCHANGED staged
      /\ client' = [c \in Clients |->
            IF client[c].id = m.id
            THEN [client[c] EXCEPT !.effect = Effect(m)] ELSE client[c]]
      /\ Deliver(m, TRUE, Unset)
  BY <1>2 DEF HandleSet
<1> HIDE DEF new
<1>6. PICK reply \in Replies :
          /\ reply.id = m.id /\ reply.op = m.op /\ reply.block = m.block
          /\ reply.ok = TRUE /\ reply.settings = Unset /\ reply.order = orders'
          /\ inbox' \in Seq(Replies)
          /\ \A i \in DOMAIN inbox' :
                 inbox'[i] = reply \/ \E j \in DOMAIN inbox : inbox'[i] = inbox[j]
  BY <1>1, <1>3, <1>5, UnsetIs, Delivered
<1>7. PICK effect \in Effects :
          /\ effect = Effect(m)
          /\ effect = [block |-> m.block, run |-> run, mode |-> m.op,
                       value |-> IntegerValue(m.sent)]
  BY <1>3, IntegerIs DEF Effect, Effects, Ops
\* Whoever has sent the message, and not given up, waits for the reply.
<1>8. ASSUME NEW d \in Clients, client[d].id = m.id
      PROVE  /\ client[d].step = "waiting" /\ client[d] \in Sent
             /\ client[d].op = m.op /\ client[d].block = m.block /\ client[d].sent = m.sent
             /\ client[d].run = run
             /\ \A j \in DOMAIN inbox : inbox[j].id # client[d].id
  <2>1. client[d].step \notin {"checked", "ok", "idle", "timeout"} \cup Refusals
    BY <1>2, <1>8 DEF AllTold, Told, NotQueued, Ids
  <2>2. client[d].step = "waiting"
    BY <1>8, <2>1, ClientIs DEF Answers
  <2>3. Waiting(d)
    BY <2>2 DEF AllTold, Told
  <2> QED
    BY <1>2, <1>8, <2>2, <2>3, ClientIs DEF Waiting, Locking
<1>9. ASSUME NEW d \in Clients, client[d].id = m.id
      PROVE  /\ client'[d] \in Sent /\ client'[d].effect = effect
             /\ client'[d].step = "waiting" /\ client'[d].id = m.id /\ client'[d].op = m.op
             /\ client'[d].target = client[d].target /\ client'[d].sent = m.sent
             /\ client'[d].block = m.block /\ client'[d].run = run
             /\ client'[d].floor = client[d].floor
  <2>1. PICK was \in Sent : was = client[d]
    BY <1>8, <1>9
  <2>2. client'[d] = [was EXCEPT !.effect = effect]
    BY <1>5, <1>7, <1>9, <2>1
  <2> QED
    BY <1>8, <1>9, <2>1, <2>2 DEF Sent
<1>10. \A d \in Clients :
           client[d].id # m.id => client'[d] = client[d]
  BY <1>5
<1>11. Types'
  <2>1. \A d \in Clients : client'[d] \in Short \cup Checked \cup Sent
    BY <1>9, <1>10 DEF Types
  <2>2. \A d \in Clients : client'[d].step = "ok" => client'[d] \in Sent
    BY <1>9, <1>10 DEF Types
  <2>3. client' \in [Clients -> Short \cup Checked \cup Sent]
    BY <1>5, <2>1
  <2> QED
    BY <1>1, <1>2, <1>6, <2>2, <2>3 DEF Types, recordVars
<1>12. /\ \A d \in Clients : client'[d].id = client[d].id /\ client'[d].step = client[d].step
       /\ \A d \in Clients : client[d].step = "waiting" => client'[d].run = client[d].run
  BY <1>8, <1>9, <1>10
<1>13. Ids'
  BY <1>1, <1>2, <1>12 DEF Ids
<1>14. Locking'
  BY <1>1, <1>12 DEF Locking, recordVars
<1>15. Settings'
  <2>1. settings' \in [Blocks -> Versions] /\ staged' \in [Blocks -> Versions]
    BY <1>3, <1>4, <1>5 DEF Settings
  <2>2. accepted' \in [Blocks -> Nat] /\ orders' \in Nat
    BY <1>1, <1>3 DEF Settings
  <2>3. \A b \in Blocks : settings'[b] = settings[b] \/ settings'[b] = new
    BY <1>3, <1>4, <1>5 DEF Settings
  <2>4. \A b \in Blocks : staged'[b] = staged[b] \/ (staged'[b] = new /\ m.op = "staged")
    BY <1>3, <1>4, <1>5 DEF Settings
  <2>5. ASSUME NEW b \in Blocks
        PROVE  /\ accepted'[b] <= orders'
               /\ settings'[b].mode = "staged" \/ settings'[b].order >= accepted'[b]
               /\ staged'[b] # Unset => staged'[b].mode = "staged"
    <3>1. accepted[b] \in Nat /\ accepted[b] <= orders
      BY DEF Settings
    <3> QED
      BY <1>1, <1>3, <1>4, <2>3, <2>4, <3>1 DEF Settings
  <2>6. ASSUME NEW i \in DOMAIN inbox', inbox'[i].ok /\ inbox'[i].op = "immediate"
        PROVE  /\ inbox'[i].order <= orders'
               /\ \/ settings'[inbox'[i].block].mode = "staged"
                  \/ settings'[inbox'[i].block].order >= inbox'[i].order
    <3>1. CASE inbox'[i] = reply
      <4>1. m.op = "immediate"
        BY <1>6, <2>6, <3>1
      <4>2. settings'[m.block] = new
        BY <1>3, <1>5, <4>1 DEF Settings
      <4> QED
        BY <1>1, <1>3, <1>4, <1>6, <3>1, <4>2
    <3>2. CASE \E j \in DOMAIN inbox : inbox'[i] = inbox[j]
      <4>1. PICK old \in Replies, j \in DOMAIN inbox : old = inbox[j] /\ inbox'[i] = inbox[j]
        BY <3>2 DEF Types
      <4>2. /\ old.block \in Blocks /\ old.order \in Nat /\ old.order <= orders
            /\ settings[old.block].mode = "staged" \/ settings[old.block].order >= old.order
        BY <2>6, <4>1 DEF Settings, Replies
      <4> QED
        BY <1>1, <1>3, <1>4, <2>3, <4>1, <4>2
    <3> QED
      BY <1>6, <3>1, <3>2
  <2> QED
    BY <2>1, <2>2, <2>5, <2>6 DEF Settings
<1>16. ASSUME NEW d \in Clients, client[d].id # m.id PROVE Told(d)'
  <2>1. client'[d] = client[d]
    BY <1>10, <1>16
  <2>2. \A i \in DOMAIN inbox' :
            inbox'[i].id # client[d].id \/ \E j \in DOMAIN inbox : inbox'[i] = inbox[j]
    BY <1>6, <1>16
  <2> QED
    BY <1>1, <1>2, <2>1, <2>2, ToldStays DEF AllTold
<1>17. ASSUME NEW d \in Clients, client[d].id = m.id PROVE Told(d)'
  <2>1. /\ client[d].floor = accepted[client[d].block]
        /\ client[d].block \in Resolved[client[d].target]
    BY <1>8, <1>17 DEF AllTold, Told, Waiting
  <2>2. \A i \in DOMAIN queue' : queue'[i].id # m.id
    BY <1>2
  <2>3. \A i \in DOMAIN inbox' : inbox'[i].id = m.id => inbox'[i] = reply
    BY <1>6, <1>8, <1>17
  <2>4. CarriedOut(d)'
    BY <1>7, <1>9, <1>17 DEF CarriedOut, IntegerValue
  <2>5. Waiting(d)'
    BY <1>1, <1>3, <1>6, <1>8, <1>9, <1>17, <2>1, <2>2, <2>3, <2>4 DEF Waiting
  <2> QED
    BY <1>3, <1>8, <1>9, <1>17, <2>1, <2>5 DEF Told, Refusals
<1> QED
  BY <1>11, <1>13, <1>14, <1>15, <1>16, <1>17 DEF AllTold


LEMMA ApplyKeepsIInv == ASSUME IInv, NEW b \in Blocks, ApplyStaged(b) PROVE IInv'
<1> USE DEF IInv
<1>1. /\ staged[b] \in Versions /\ staged[b].mode = "staged"
      /\ settings' = [settings EXCEPT ![b] = staged[b]]
      /\ staged' = [staged EXCEPT ![b] = Unset]
      /\ UNCHANGED <<recordVars, mutex, client, requests, queue, inbox, historyVars>>
  BY DEF ApplyStaged, Settings
<1>2. Types' /\ Ids' /\ Locking'
  BY <1>1 DEF Types, Ids, Locking, recordVars
<1>3. Settings'
  <2>1. settings' \in [Blocks -> Versions] /\ staged' \in [Blocks -> Versions]
    BY <1>1, UnsetIs DEF Settings
  <2>2. \A a \in Blocks : settings'[a].mode = "staged" \/ settings'[a] = settings[a]
    BY <1>1 DEF Settings
  <2>3. \A a \in Blocks : staged'[a] = Unset \/ staged'[a] = staged[a]
    BY <1>1 DEF Settings
  <2>4. \A i \in DOMAIN inbox : inbox[i].block \in Blocks
    <3>1. \A i \in DOMAIN inbox : inbox[i] \in Replies
      BY DEF Types
    <3> QED
      BY <3>1 DEF Replies
  <2> QED
    BY <1>1, <2>1, <2>2, <2>3, <2>4 DEF Settings, historyVars
<1>4. ASSUME NEW d \in Clients PROVE Told(d)'
  BY <1>1, ToldStays DEF AllTold, historyVars
<1> QED
  BY <1>2, <1>3, <1>4 DEF AllTold

-----------------------------------------------------------------------------
(* The lifecycle. *)

\* A run begins or ends while no request waits, and does not touch the others'
\* messages; only the end of the execution drops them.
LEMMA RunsKeepIInv == ASSUME IInv, StopRuntime \/ StartRuntime PROVE IInv'
<1> USE DEF IInv
<1>1. /\ mutex = None
      /\ UNCHANGED <<mutex, client, requests, queue, inbox, blockVars>>
  BY DEF StopRuntime, StartRuntime
<1>2. \A c \in Clients : client[c].step # "waiting"
  BY <1>1, SettingsAssumption DEF Locking
<1>3. Types'
  <2>1. CASE StopRuntime
    BY <1>1, <2>1 DEF Types, StopRuntime, Life!Halt
  <2>2. CASE StartRuntime
    <3>1. runs' \in Nat /\ runs' <= MaxRuns /\ run' \in 0 .. runs' /\ run' # 0
      BY <2>2, SettingsAssumption DEF Types, StartRuntime
    <3> QED
      BY <1>1, <2>2, <3>1 DEF Types, StartRuntime, Life!Launch
  <2> QED
    BY <2>1, <2>2
<1>4. Ids' /\ Settings'
  BY <1>1 DEF Ids, Settings, blockVars, historyVars
<1>5. Locking'
  BY <1>1, <1>2 DEF Locking
<1>6. ASSUME NEW d \in Clients PROVE Told(d)'
  BY <1>1, ToldStays DEF AllTold, blockVars, historyVars
<1> QED
  BY <1>3, <1>4, <1>5, <1>6 DEF AllTold

LEMMA TearDownKeepsIInv == ASSUME IInv, TearDown PROVE IInv'
<1> USE DEF IInv
<1>1. /\ mutex = None /\ queue' = <<>> /\ inbox' = <<>>
      /\ UNCHANGED <<recordVars, mutex, client, requests>>
  BY DEF TearDown
<1>2. \A c \in Clients : client[c].step # "waiting"
  BY <1>1, SettingsAssumption DEF Locking
<1>3. Types'
  BY <1>1, EmptyIs DEF Types, recordVars
<1>4. Ids'
  BY <1>1, EmptyIs DEF Ids
<1>5. Locking'
  BY <1>1, <1>2 DEF Locking
<1>6. Settings'
  BY EmptyIs, UnsetIs DEF Settings, TearDown
<1>7. ASSUME NEW d \in Clients PROVE Told(d)'
  BY <1>1, <1>2, EmptyIs, ToldStays DEF AllTold
<1> QED
  BY <1>3, <1>4, <1>5, <1>6, <1>7 DEF AllTold

LEMMA RecordKeepsIInv == ASSUME IInv, Commit \/ Remove PROVE IInv'
<1> USE DEF IInv
<1>1. UNCHANGED <<run, runs, mutex, client, requests, queue, inbox, blockVars>>
  BY DEF Commit, Remove
<1>2. record' \in {"running", "stopped", "absent"} /\ (record' = "absent" => run = 0)
  BY DEF Types, Commit, Remove, Life!Commit, Life!Remove
<1>3. Types'
  BY <1>1, <1>2 DEF Types
<1>4. Ids' /\ Locking' /\ Settings'
  BY <1>1 DEF Ids, Locking, Settings, blockVars, historyVars
<1>5. ASSUME NEW d \in Clients PROVE Told(d)'
  BY <1>1, ToldStays DEF AllTold, blockVars, historyVars
<1> QED
  BY <1>3, <1>4, <1>5 DEF AllTold

LEMMA StutterKeepsIInv == ASSUME IInv, UNCHANGED vars PROVE IInv'
<1> USE DEF IInv, vars
<1>1. Types' /\ Ids' /\ Locking' /\ Settings'
  BY DEF Types, Ids, Locking, Settings
<1>2. ASSUME NEW d \in Clients PROVE Told(d)'
  BY ToldStays DEF AllTold
<1> QED
  BY <1>1, <1>2 DEF AllTold

-----------------------------------------------------------------------------
(* What is proved. *)

\* Every step of a thread, of the scheduler and of the lifecycle keeps the
\* invariant (send_block_settings_request, GNU Radio's scheduler, stop and start).
THEOREM StepKeepsIInv == IInv /\ [Next]_vars => IInv'
<1> SUFFICES ASSUME IInv, [Next]_vars PROVE IInv'
  OBVIOUS
<1>1. ASSUME NEW c \in Clients, Request(c) PROVE IInv'
  BY <1>1, AskKeepsIInv
<1>2. ASSUME NEW c \in Clients, Enter(c) PROVE IInv'
  BY <1>2, EndKeepsIInv, SendKeepsIInv DEF Enter
<1>3. ASSUME NEW c \in Clients, Poll(c) PROVE IInv'
  BY <1>3, PollKeepsIInv
<1>4. ASSUME NEW c \in Clients, Receive(c) PROVE IInv'
  BY <1>4, ReceiveKeepsIInv
<1>5. ASSUME NEW c \in Clients, Timeout(c) \/ ConversionThrows(c) \/ Reply(c) PROVE IInv'
  BY <1>5, EndKeepsIInv
<1>6. CASE Scheduler
  BY <1>6, SetKeepsIInv, GetKeepsIInv, ApplyKeepsIInv DEF Scheduler
<1>7. CASE Lifecycle
  BY <1>7, RunsKeepIInv, TearDownKeepsIInv, RecordKeepsIInv DEF Lifecycle
<1>8. CASE UNCHANGED vars
  BY <1>8, StutterKeepsIInv
<1> QED
  BY <1>1, <1>2, <1>3, <1>4, <1>5, <1>6, <1>7, <1>8 DEF Next

\* Ids are given once, the mutex is held by the thread that waits, no reply tells
\* of settings older than those accepted, and what a request was told came of it:
\* in every reachable state.
THEOREM SettingsInvariant == Spec => []IInv
  BY InitHolds, StepKeepsIInv, PTL DEF Spec

\* The mutex is held by the thread that waits for a reply and by no other; a
\* request that waits does so for the run it was sent to; the graph of a session
\* that is gone does not serve.
THEOREM TypeCorrect == Spec => []TypeOK
<1>1. IInv => TypeOK
  <2> SUFFICES ASSUME IInv PROVE TypeOK
    OBVIOUS
  <2> USE DEF IInv
  <2>1. \A c \in Clients : client[c].step \in Answers \cup {"idle", "checked", "waiting"}
    BY ClientIs
  <2>2. run \in 0 .. runs /\ runs <= MaxRuns
    BY DEF Types
  <2> QED
    BY <2>1, <2>2 DEF Types, Locking, TypeOK
<1> QED
  BY <1>1, SettingsInvariant, PTL

\* A request whose update was carried out has an effect to show for it.
LEMMA CarriedOutIs ==
    ASSUME IInv, NEW c \in Clients, client[c] \in Sent, CarriedOut(c)
    PROVE  /\ client[c].effect # None
           /\ client[c].effect.block = client[c].block
           /\ client[c].effect.run = client[c].run
           /\ client[c].effect.mode = client[c].op
<1>1. PICK request \in Sent : request = client[c]
  OBVIOUS
<1>2. PICK value \in Int : value = IntegerValue(request.sent)
  BY IntegerIs DEF Sent
<1> DEFINE done == [block |-> request.block, run |-> request.run,
                    mode |-> request.op, value |-> value]
<1>3. /\ done \in Effects
      /\ done.block = request.block /\ done.run = request.run
      /\ done.mode = request.op
  BY DEF Sent, Effects
<1>4. client[c].effect = done
  BY <1>1, <1>2 DEF CarriedOut, IntegerValue
<1> HIDE DEF done
<1> QED
  BY <1>1, <1>2, <1>3, <1>4, SettingsAssumption

\* Of an update that was accepted it is true that the block it was sent to has
\* carried it out, in the run it was sent to; of one that was refused, that no
\* block has or will (Gr4RuntimeManager::set_block_settings and what its errors
\* are mapped to).
THEOREM OutcomesAreTruthful == Spec => []OutcomesTruthful
<1>1. IInv => OutcomesTruthful
  <2> SUFFICES ASSUME IInv, NEW c \in Clients
               PROVE  /\ client[c].step = "ok" /\ client[c].op # "get" =>
                           /\ client[c].effect # None
                           /\ client[c].effect.block = client[c].block
                           /\ client[c].effect.run = client[c].run
                           /\ client[c].effect.mode = client[c].op
                      /\ client[c].step \in Refusals =>
                           /\ client[c].effect = None
                           /\ \A i \in DOMAIN queue : queue[i].id # client[c].id
    BY DEF OutcomesTruthful
  <2>1. Told(c)
    BY DEF IInv, AllTold
  <2>2. ASSUME client[c].step = "ok", client[c].op # "get"
        PROVE  /\ client[c].effect # None
               /\ client[c].effect.block = client[c].block
               /\ client[c].effect.run = client[c].run
               /\ client[c].effect.mode = client[c].op
    <3>1. client[c] \in Sent
      BY <2>2 DEF IInv, Types
    <3> QED
      BY <2>1, <2>2, <3>1, CarriedOutIs DEF Told
  <2>3. client[c].step \in Refusals =>
            client[c].effect = None /\ \A i \in DOMAIN queue : queue[i].id # client[c].id
    BY <2>1 DEF Told, NotQueued
  <2> QED
    BY <2>2, <2>3
<1> QED
  BY <1>1, SettingsInvariant, PTL

\* A read returns every immediate update that was accepted before it was sent, or a
\* later one, whatever requests were given up meanwhile
\* (Gr4RuntimeManager::get_block_settings, which takes the reply by its id).
THEOREM ReadsAreCurrent == Spec => []ReadsSeeAcceptedWrites
<1>1. IInv => ReadsSeeAcceptedWrites
  BY DEF IInv, AllTold, Told, Current, ReadsSeeAcceptedWrites
<1> QED
  BY <1>1, SettingsInvariant, PTL

=============================================================================
