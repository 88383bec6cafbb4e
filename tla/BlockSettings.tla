---------------------------- MODULE BlockSettings ----------------------------
(***************************************************************************)
(* Live block settings of one session: BlockSettingsService checks the     *)
(* session's record and converts the JSON body, Gr4RuntimeManager sends a  *)
(* message to the running scheduler and polls for the reply for a second.  *)
(*                                                                         *)
(* The manager holds the session's mutex from the send to the end of the   *)
(* wait, but a request that times out leaves its message in the queue: the *)
(* block may still act on it, and its reply goes to whoever listens then,  *)
(* because the scheduler sends every reply to every connected port. What   *)
(* tells replies apart is the request id.                                  *)
(*                                                                         *)
(* Integers have 64 bits in the code, so that HalfWord is 2^63 there.       *)
(***************************************************************************)
EXTENDS Integers, Sequences, FiniteSets

CONSTANTS
    Clients,
    RuntimeBlocks,  \* the scheduler's blocks: name, uniqueName, settingsName
    Targets,        \* what requests name as their block
    Updates,        \* bodies of updates: mode, an integer, whether an array
    None,
    HalfWord,       \* signed integers go from -HalfWord to HalfWord - 1
    MaxRequests,    \* bound on the requests
    MaxRuns         \* bound on the starts of the graph

Blocks == DOMAIN RuntimeBlocks
Ops == {"staged", "immediate", "get"}

\* What a block does when it carries out an update.
Effects == [block : Blocks, run : Nat, mode : Ops, value : Int]

ASSUME SettingsAssumption ==
    /\ HalfWord \in Nat \ {0} /\ MaxRuns \in Nat \ {0}
    /\ \A u \in Updates :
           u.op \in {"staged", "immediate"} /\ u.value \in - HalfWord .. 2 * HalfWord - 1
    /\ None \notin Clients \cup Effects

VARIABLES
    record,    \* the state of the session in the repository
    run,       \* the run of the graph that is serving, 0 if none is
    runs,      \* how many there have been
    mutex,     \* SessionRuntimeResources::mutex
    client,    \* the request of each thread
    requests,  \* how many requests there have been; gives fresh ids
    queue,     \* messages to the scheduler
    inbox,     \* replies at the response port of the thread that waits
    settings,  \* of each block: the update its settings come from
    staged,    \* of each block: an update that waits to become effective
    orders,    \* how many updates blocks have carried out in this run, and
    accepted   \* the latest immediate one of each that a client was told of

recordVars == <<record, run, runs>>
historyVars == <<orders, accepted>>   \* for properties only
blockVars == <<settings, staged, historyVars>>
vars == <<record, run, runs, mutex, client, requests, queue, inbox, settings,
          staged, orders, accepted>>

Unset == [order |-> 0, mode |-> "immediate"]
Refusals == {"validation", "conflict", "missing", "error"}
Answers == Refusals \cup {"ok", "timeout"}
Idle == [step |-> "idle", id |-> 0, effect |-> None]

\* After 504 nobody waits for a reply, and what becomes of the message is open.
GivenUp == [step |-> "timeout", id |-> 0, effect |-> None]

-----------------------------------------------------------------------------
(* resolve_runtime_block: by name, then unique name, then the name among   *)
(* the settings, each time the first block in the scheduler's order.       *)

FirstBy(field, target) ==
    {b \in Blocks : /\ RuntimeBlocks[b][field] = target
                    /\ \A a \in 1 .. (b - 1) : RuntimeBlocks[a][field] # target}

Resolve(target) ==
    IF FirstBy("name", target) # {} THEN FirstBy("name", target)
    ELSE IF FirstBy("uniqueName", target) # {} THEN FirstBy("uniqueName", target)
    ELSE FirstBy("settingsName", target)

(* json_to_pmt_value. is_number_integer() holds of unsigned numbers too,   *)
(* so that all integers are taken by get<std::int64_t>, which wraps, and   *)
(* the test of the range that follows is never reached.                    *)
IntegerValue(n) ==
    IF n >= HalfWord THEN n - 2 * HalfWord ELSE n

Endpoint(op) == IF op = "staged" THEN "StagedSetting" ELSE "Setting"

\* Mutant: the first reply of the block and endpoint is taken.
BugMatches(reply, c) ==
    /\ reply.block = client[c].block
    /\ Endpoint(reply.op) = Endpoint(client[c].op)

(* The reply that send_block_settings_request waits for. *)
Matches(reply, c) ==
    /\ reply.id = client[c].id
    /\ reply.block = client[c].block
    /\ Endpoint(reply.op) = Endpoint(client[c].op)

-----------------------------------------------------------------------------
Finish(c, step) ==
    client' = [client EXCEPT ![c] = [step |-> step, id |-> @.id, effect |-> @.effect]]

(* load_running_session_or_throw, then json_to_property_map for an update; *)
(* the body may hold an array.                                             *)
Answered(step) == [step |-> step, id |-> requests + 1, effect |-> None]

Ask(c, op, target, value, array) ==
    /\ client[c].step = "idle"
    /\ requests < MaxRequests
    /\ requests' = requests + 1
    /\ client' = [client EXCEPT ![c] =
            IF record = "absent" THEN Answered("missing")
            ELSE IF record # "running" THEN Answered("conflict")
            ELSE IF array THEN Answered("validation")
            ELSE [step |-> "checked", id |-> requests + 1, effect |-> None,
                  op |-> op, target |-> target, sent |-> value]]
    /\ UNCHANGED <<recordVars, mutex, queue, inbox, blockVars>>

(* No resources, no execution, or not in phase Running. *)
NotServing(c) ==
    /\ client[c].step = "checked" /\ mutex = None
    /\ run = 0
    /\ Finish(c, "error")
    /\ UNCHANGED <<recordVars, mutex, requests, queue, inbox, blockVars>>

UnknownBlock(c) ==
    /\ client[c].step = "checked" /\ mutex = None
    /\ run # 0
    /\ Resolve(client[c].target) = {}
    /\ Finish(c, "missing")
    /\ UNCHANGED <<recordVars, mutex, requests, queue, inbox, blockVars>>

ConnectFails(c) ==
    /\ client[c].step = "checked" /\ mutex = None
    /\ run # 0
    /\ Resolve(client[c].target) # {}
    /\ Finish(c, "error")
    /\ UNCHANGED <<recordVars, mutex, requests, queue, inbox, blockVars>>

\* Mutant: the mutex is given up before the wait.
BugSendUnlocked(c) ==
    /\ client[c].step = "checked" /\ mutex = None
    /\ run # 0
    /\ inbox' = <<>>
    /\ \E b \in Resolve(client[c].target) :
        /\ queue' = Append(queue, [id |-> client[c].id, op |-> client[c].op,
                                   block |-> b, sent |-> client[c].sent])
        /\ client' = [client EXCEPT ![c] =
                [step |-> "waiting", id |-> @.id, effect |-> None, op |-> @.op,
                 target |-> @.target, sent |-> @.sent, block |-> b,
                 run |-> run, floor |-> accepted[b], read |-> Unset]]
    /\ UNCHANGED <<recordVars, mutex, requests, blockVars>>

Send(c) ==
    /\ client[c].step = "checked" /\ mutex = None
    /\ run # 0
    /\ mutex' = c
    /\ inbox' = <<>>
    /\ \E b \in Resolve(client[c].target) :
        /\ queue' = Append(queue, [id |-> client[c].id, op |-> client[c].op,
                                   block |-> b, sent |-> client[c].sent])
        /\ client' = [client EXCEPT ![c] =
                [step |-> "waiting", id |-> @.id, effect |-> None, op |-> @.op,
                 target |-> @.target, sent |-> @.sent, block |-> b,
                 run |-> run, floor |-> accepted[b], read |-> Unset]]
    /\ UNCHANGED <<recordVars, requests, blockVars>>

(* One turn of the polling loop: every reply at hand is taken, and what is *)
(* not the awaited one is dropped.                                         *)
Mine(c) == {i \in DOMAIN inbox : Matches(inbox[i], c)}

Poll(c) ==
    /\ client[c].step = "waiting"
    /\ inbox # <<>> /\ Mine(c) = {}
    /\ inbox' = <<>>
    /\ UNCHANGED <<recordVars, mutex, client, requests, queue, blockVars>>

Receive(c) ==
    /\ client[c].step = "waiting"
    /\ \E i \in Mine(c) :
        /\ \A j \in Mine(c) : i <= j
        /\ IF inbox[i].ok
           THEN client' = [client EXCEPT ![c].step = "ok",
                                         ![c].read = inbox[i].settings]
           ELSE Finish(c, "error")
        /\ accepted' = IF inbox[i].ok /\ inbox[i].op = "immediate"
                       THEN [accepted EXCEPT ![inbox[i].block] = inbox[i].order]
                       ELSE accepted
    /\ mutex' = None
    /\ inbox' = <<>>
    /\ UNCHANGED <<recordVars, requests, queue, settings, staged, orders>>

\* Mutant: the deadline is not looked at while the message is in the queue.
BugTimeoutWaits(c) ==
    /\ client[c].step = "waiting"
    /\ queue = <<>>
    /\ client' = [client EXCEPT ![c] = GivenUp]
    /\ mutex' = None
    /\ UNCHANGED <<recordVars, requests, queue, inbox, blockVars>>

(* A second has passed. The message stays where it is. *)
Timeout(c) ==
    /\ client[c].step = "waiting"
    /\ client' = [client EXCEPT ![c] = GivenUp]
    /\ mutex' = None
    /\ UNCHANGED <<recordVars, requests, queue, inbox, blockVars>>

(* pmt_value_to_json: a setting of a kind that JSON cannot hold. *)
ConversionThrows(c) ==
    /\ client[c].step = "ok" /\ client[c].op = "get"
    /\ Finish(c, "error")
    /\ UNCHANGED <<recordVars, mutex, requests, queue, inbox, blockVars>>

(* The answer goes to the client; the thread takes its next request. *)
Reply(c) ==
    /\ client[c].step \in Answers
    /\ client' = [client EXCEPT ![c] = Idle]
    /\ UNCHANGED <<recordVars, mutex, requests, queue, inbox, blockVars>>

-----------------------------------------------------------------------------
(* The scheduler (GNU Radio), as the manager uses it: messages are handled *)
(* in order, or not at all; a block may refuse a patch; staged settings    *)
(* become effective some time later; replies go to every connected port.   *)

Deliver(m, ok, current) ==
    inbox' = IF mutex = None THEN <<>>
             ELSE Append(inbox, [id |-> m.id, op |-> m.op, block |-> m.block,
                                 ok |-> ok, settings |-> current,
                                 order |-> orders'])

Effect(m) ==
    [block |-> m.block, run |-> run, mode |-> m.op, value |-> IntegerValue(m.sent)]

HandleSet ==
    /\ queue # <<>> /\ Head(queue).op # "get"
    /\ orders' = orders + 1
    /\ LET m == Head(queue)
           new == [order |-> orders + 1, mode |-> m.op]
       IN /\ IF m.op = "staged"
             THEN /\ staged' = [staged EXCEPT ![m.block] = new]
                  /\ UNCHANGED settings
             ELSE /\ settings' = [settings EXCEPT ![m.block] = new]
                  /\ UNCHANGED staged
          /\ client' = [c \in Clients |->
                IF client[c].id = m.id
                THEN [client[c] EXCEPT !.effect = Effect(m)] ELSE client[c]]
          /\ Deliver(m, TRUE, Unset)
    /\ queue' = Tail(queue)
    /\ UNCHANGED <<recordVars, mutex, requests, accepted>>

HandleGet ==
    /\ queue # <<>> /\ Head(queue).op = "get"
    /\ UNCHANGED <<recordVars, mutex, client, requests, blockVars>>
    /\ Deliver(Head(queue), TRUE, settings[Head(queue).block])
    /\ queue' = Tail(queue)

BlockRefuses ==
    /\ queue # <<>>
    /\ UNCHANGED <<recordVars, mutex, client, requests, blockVars>>
    /\ Deliver(Head(queue), FALSE, Unset)
    /\ queue' = Tail(queue)

ApplyStaged(b) ==
    /\ staged[b] # Unset
    /\ settings' = [settings EXCEPT ![b] = staged[b]]
    /\ staged' = [staged EXCEPT ![b] = Unset]
    /\ UNCHANGED <<recordVars, mutex, client, requests, queue, inbox, historyVars>>

-----------------------------------------------------------------------------
(* The lifecycle, of which SessionRun.tla tells in which order record and  *)
(* graph change. While a run begins or ends the session's mutex is taken.  *)

Life == INSTANCE SessionRun WITH serving <- run # 0

(* The execution stays as it is, and its scheduler may still be at work:   *)
(* it has yet to be stopped, or throws and is not.                         *)
StopRuntime ==
    /\ mutex = None
    /\ run' = 0
    /\ Life!Halt
    /\ UNCHANGED <<runs, mutex, client, requests, queue, inbox, blockVars>>

(* The execution goes, with its queue and blocks. *)
TearDown ==
    /\ run = 0 /\ mutex = None
    /\ queue' = <<>> /\ inbox' = <<>>
    /\ settings' = [b \in Blocks |-> Unset]
    /\ staged' = [b \in Blocks |-> Unset]
    /\ orders' = 0
    /\ accepted' = [b \in Blocks |-> 0]
    /\ UNCHANGED <<recordVars, mutex, client, requests>>

StartRuntime ==
    /\ mutex = None
    /\ runs < MaxRuns
    /\ run' = runs + 1
    /\ runs' = runs + 1
    /\ Life!Launch
    /\ UNCHANGED <<mutex, client, requests, queue, inbox, blockVars>>

Commit ==
    /\ UNCHANGED <<run, runs, mutex, client, requests, queue, inbox, blockVars>>
    /\ Life!Commit

Remove ==
    /\ UNCHANGED <<run, runs, mutex, client, requests, queue, inbox, blockVars>>
    /\ Life!Remove

Init ==
    /\ record = "running" /\ run = 1 /\ runs = 1
    /\ mutex = None
    /\ client = [c \in Clients |-> Idle]
    /\ requests = 0
    /\ queue = <<>> /\ inbox = <<>>
    /\ settings = [b \in Blocks |-> Unset]
    /\ staged = [b \in Blocks |-> Unset]
    /\ orders = 0
    /\ accepted = [b \in Blocks |-> 0]

Request(c) ==
    \/ \E target \in Targets : Ask(c, "get", target, 0, FALSE)
    \/ \E u \in Updates, target \in Targets :
            Ask(c, u.op, target, u.value, u.array)

Enter(c) == NotServing(c) \/ UnknownBlock(c) \/ ConnectFails(c) \/ Send(c)

Scheduler == HandleSet \/ HandleGet \/ BlockRefuses \/ \E b \in Blocks : ApplyStaged(b)

Lifecycle == StopRuntime \/ TearDown \/ StartRuntime \/ Commit \/ Remove

Next ==
    \/ \E c \in Clients : \/ Request(c) \/ Enter(c) \/ Poll(c) \/ Receive(c)
                          \/ Timeout(c) \/ ConversionThrows(c) \/ Reply(c)
    \/ Scheduler \/ Lifecycle

(* The clock goes on and a thread gets a mutex that is free again and      *)
(* again; nothing is asked of the scheduler.                               *)
Fairness ==
    \A c \in Clients : WF_vars(Timeout(c)) /\ SF_vars(Enter(c))

Spec == Init /\ [][Next]_vars /\ Fairness

-----------------------------------------------------------------------------
(* Every variable has its type; the mutex is held by the thread that waits *)
(* for a reply and by no other, and no run serves a session that is gone.  *)
TypeOK ==
    /\ record \in {"running", "stopped", "absent"}
    /\ run \in 0 .. runs /\ runs <= MaxRuns
    /\ \A c \in Clients :
        /\ client[c].step \in Answers \cup {"idle", "checked", "waiting"}
        /\ client[c].step = "waiting" <=> mutex = c
        /\ client[c].step = "waiting" => client[c].run = run
    /\ record = "absent" => run = 0

(* What a client is told is what happened. "accepted" is said of an update *)
(* that the block it was sent to has carried out, in the run it was sent   *)
(* to and in the mode that was asked for. 400, 404, 409 and 500 are said   *)
(* only of updates that no block has carried out or will; only after 504   *)
(* it may happen or not.                                                   *)
OutcomesTruthful ==
    \A c \in Clients :
        LET effect == client[c].effect
        IN /\ client[c].step = "ok" /\ client[c].op # "get" =>
                /\ effect # None
                /\ effect.block = client[c].block
                /\ effect.run = client[c].run
                /\ effect.mode = client[c].op
           /\ client[c].step \in Refusals =>
                /\ effect = None
                /\ \A i \in DOMAIN queue : queue[i].id # client[c].id

(* VIOLATED, on both counts. "accepted" is said of an update that was      *)
(* carried out as the client asked: by the block whose unique name the     *)
(* request gives (README.md and docs/design.md address blocks so), and     *)
(* with the integer in its body, for one that does not fit into int64 is   *)
(* to be refused (the test and message in json_to_pmt_value).              *)
AcceptedAsAsked ==
    \A c \in Clients :
        client[c].step = "ok" /\ client[c].op # "get" =>
            /\ \A b \in Blocks :
                    RuntimeBlocks[b].uniqueName = client[c].target =>
                        client[c].effect.block = b
            /\ client[c].effect.value = client[c].sent

(* A read shows every immediate update of the run that was accepted before *)
(* it: what it returns is that update's value or a later one's - or a      *)
(* staged one's that became effective meanwhile. Replies to requests that  *)
(* were given up do not pass for the answer.                               *)
ReadsSeeAcceptedWrites ==
    \A c \in Clients :
        client[c].step = "ok" /\ client[c].op = "get" =>
            \/ client[c].read.order >= client[c].floor
            \/ client[c].read.mode = "staged"

(* Every settings request is answered, even when the scheduler never       *)
(* replies and other requests hold the session's mutex meanwhile.          *)
EverySettingsRequestEnds ==
    \A c \in Clients :
        client[c].step \in {"checked", "waiting"} ~> client[c].step \in Answers

=============================================================================
