----------------------------- MODULE HttpServer -----------------------------
(***************************************************************************)
(* HttpServer::Impl and WebSocketBridge of src/src/api/http_server.cpp:    *)
(* the threads of the public server and how they are told to stop.         *)
(*                                                                         *)
(* One thread runs listen_after_bind. It starts the internal server, on    *)
(* which the routes are registered, in a thread of its own; then it        *)
(* accepts connections, each handled by a new thread, which proxies an     *)
(* HTTP request to the internal server or bridges a websocket. Other       *)
(* threads call stop, the destructor among them. The listener on its way   *)
(* out and stop both join the connection threads and the internal thread.  *)
(*                                                                         *)
(* What a request does in the service is left out: a handler takes its     *)
(* time and returns. Left out as well are a second listen after a stop,    *)
(* and what is in the messages.                                            *)
(***************************************************************************)

CONSTANTS
    Listener,           \* the thread that calls listen_after_bind
    Stoppers,           \* the threads that call stop, once each
    Connections         \* the connections clients may open

ASSUME ServerAssumption == Listener \notin Stoppers

Threads == Stoppers \cup {Listener}

VARIABLES
    stopping,           \* stopping_
    acceptor,           \* acceptor_: "none", "open" or "closed"
    pc,                 \* where listen_after_bind and each stop is
    bridges,            \* stop's copy of active_bridges_, less those it closed
    threads,            \* the threads join_connection_threads has swapped out
    connectionThreads,  \* connection_threads_, each named by its connection
    connections,        \* where each connection is
    pumps,              \* the forward threads of each bridge that are running
    closed,             \* closed_ of each bridge
    activeBridges,      \* active_bridges_
    internal,           \* the internal server
    internalThread,     \* internal_thread_: "none", "joinable" or "joined"
    handling            \* the connections whose request is in a handler

serverVars == <<stopping, acceptor>>

localVars == <<bridges, threads>>

callVars == <<pc, localVars>>

bridgeVars == <<pumps, closed, activeBridges>>

connectionVars == <<connectionThreads, connections, bridgeVars>>

internalVars == <<internal, internalThread, handling>>

vars == <<serverVars, callVars, connectionVars, internalVars>>

-----------------------------------------------------------------------------

Directions == {"browser_to_internal", "internal_to_browser"}

Goto(t, from, to) == pc[t] = from /\ pc' = [pc EXCEPT ![t] = to]

Move(c, from, to) ==
    connections[c] = from /\ connections' = [connections EXCEPT ![c] = to]

OnlyPcChanges == UNCHANGED <<serverVars, localVars, connectionVars, internalVars>>

OnlyConnectionMoves ==
    UNCHANGED <<serverVars, callVars, connectionThreads, bridgeVars, internalVars>>

-----------------------------------------------------------------------------
(* listen and listen_after_bind *)

Bind ==
    /\ Goto(Listener, "idle", "start")
    /\ acceptor' = "open"
    /\ UNCHANGED <<stopping, localVars, connectionVars, internalVars>>

BindFails ==
    /\ Goto(Listener, "idle", "returned")
    /\ acceptor' = "closed"
    /\ UNCHANGED <<stopping, localVars, connectionVars, internalVars>>

StartInternalServer ==
    /\ Goto(Listener, "start", "wait")
    /\ internal' = "starting"
    /\ internalThread' = "joinable"
    /\ UNCHANGED <<serverVars, localVars, connectionVars, handling>>

\* wait_for_internal_server_ready returns after 50 attempts in any case.
Waited ==
    /\ Goto(Listener, "wait", "publish")
    /\ OnlyPcChanges

\* stopping_.store(false)
Publish ==
    /\ Goto(Listener, "publish", "loop")
    /\ stopping' = FALSE
    /\ UNCHANGED <<acceptor, localVars, connectionVars, internalVars>>

Loop ==
    /\ Goto(Listener, "loop", IF stopping THEN "swap" ELSE "accept")
    /\ OnlyPcChanges

Accept(c) ==
    /\ acceptor = "open"
    /\ Goto(Listener, "accept", "spawn")
    /\ Move(c, "backlog", "accepted")
    /\ UNCHANGED <<serverVars, localVars, connectionThreads, bridgeVars, internalVars>>

\* Nobody to accept, or an error that says nothing of the acceptor itself.
AcceptNothing ==
    /\ acceptor = "open"
    /\ Goto(Listener, "accept", "loop")
    /\ OnlyPcChanges

AcceptAborted ==
    /\ acceptor = "closed"
    /\ Goto(Listener, "accept", "swap")
    /\ OnlyPcChanges

\* connection_threads_.emplace_back
Spawn(c) ==
    /\ Goto(Listener, "spawn", "loop")
    /\ Move(c, "accepted", "reading")
    /\ connectionThreads' = connectionThreads \cup {c}
    /\ UNCHANGED <<serverVars, localVars, bridgeVars, internalVars>>

-----------------------------------------------------------------------------
(* join_connection_threads and stop_internal_server, for both callers. *)

\* A mutant: the listener leaves the connection threads to stop.
BugListenerSwapsNothing(t) ==
    /\ Goto(t, "swap", "join_threads")
    /\ IF t = Listener
       THEN UNCHANGED <<threads, connectionThreads>>
       ELSE threads' = [threads EXCEPT ![t] = connectionThreads] /\ connectionThreads' = {}
    /\ UNCHANGED <<serverVars, bridges, connections, bridgeVars, internalVars>>

SwapThreads(t) ==
    /\ Goto(t, "swap", "join_threads")
    /\ threads' = [threads EXCEPT ![t] = connectionThreads]
    /\ connectionThreads' = {}
    /\ UNCHANGED <<serverVars, bridges, connections, bridgeVars, internalVars>>

JoinThreads(t) ==
    /\ Goto(t, "join_threads", "check")
    /\ \A c \in threads[t] : connections[c] = "ended"
    /\ threads' = [threads EXCEPT ![t] = {}]
    /\ UNCHANGED <<serverVars, bridges, connectionVars, internalVars>>

\* if (internal_thread_.joinable())
CheckJoinable(t) ==
    /\ Goto(t, "check", IF internalThread = "joinable" THEN "join" ELSE "returned")
    /\ OnlyPcChanges

JoinedByAnother(t) ==
    internalThread = "joined" \/ \E u \in Threads \ {t} : pc[u] = "join"

JoinInternalThread(t) ==
    /\ ~JoinedByAnother(t)
    /\ internal = "ended"
    /\ Goto(t, "join", "returned")
    /\ internalThread' = "joined"
    /\ UNCHANGED <<serverVars, localVars, connectionVars, internal, handling>>

\* Two threads that join one std::jthread without synchronisation: undefined.
\* In practice the second pthread_join is refused, and join throws, or it goes
\* unnoticed.
JoinTwice(t) ==
    /\ JoinedByAnother(t)
    /\ \E outcome \in {"returned", "thrown"} : Goto(t, "join", outcome)
    /\ OnlyPcChanges

-----------------------------------------------------------------------------
(* stop *)

\* Also a stop that comes before the listener has reset the flag.
StopAgain(t) ==
    /\ stopping
    /\ Goto(t, "idle", "returned")
    /\ OnlyPcChanges

StopBegin(t) ==
    /\ ~stopping
    /\ Goto(t, "idle", "stop_internal")
    /\ stopping' = TRUE
    /\ UNCHANGED <<acceptor, localVars, connectionVars, internalVars>>

\* A mutant: the internal server is not told.
BugStopKeepsInternalServer(t) ==
    /\ Goto(t, "stop_internal", "close_acceptor")
    /\ OnlyPcChanges

\* internal_server.stop() has no effect before that server runs.
StopInternalServer(t) ==
    /\ Goto(t, "stop_internal", "close_acceptor")
    /\ internal' = IF internal = "running" THEN "stopping" ELSE internal
    /\ UNCHANGED <<serverVars, localVars, connectionVars, internalThread, handling>>

CloseAcceptor(t) ==
    /\ Goto(t, "close_acceptor", "snapshot")
    /\ acceptor' = "closed"
    /\ UNCHANGED <<stopping, localVars, connectionVars, internalVars>>

\* A mutant: the bridges are left out.
BugSnapshotEmpty(t) ==
    /\ Goto(t, "snapshot", "close_bridges")
    /\ OnlyPcChanges

Snapshot(t) ==
    /\ Goto(t, "snapshot", "close_bridges")
    /\ bridges' = [bridges EXCEPT ![t] = activeBridges]
    /\ UNCHANGED <<serverVars, threads, connectionVars, internalVars>>

CloseBridge(t, c) ==
    /\ pc[t] = "close_bridges"
    /\ c \in bridges[t]
    /\ bridges' = [bridges EXCEPT ![t] = @ \ {c}]
    /\ closed' = [closed EXCEPT ![c] = TRUE]
    /\ UNCHANGED <<serverVars, pc, threads, connectionThreads, connections, pumps,
                   activeBridges, internalVars>>

BridgesClosed(t) ==
    /\ bridges[t] = {}
    /\ Goto(t, "close_bridges", "swap")
    /\ OnlyPcChanges

-----------------------------------------------------------------------------
(* A connection: its client, then handle_connection. *)

Connect(c) ==
    /\ acceptor = "open"
    /\ Move(c, "absent", "backlog")
    /\ OnlyConnectionMoves

\* A request, a websocket upgrade of a stream route, or neither.
ReadRequest(c) ==
    /\ \E next \in {"proxy", "attach", "ended"} : Move(c, "reading", next)
    /\ OnlyConnectionMoves

\* parse_websocket_stream_target decodes the target of an upgrade with std::stoi,
\* which throws at "%zz". Nothing in the connection's thread catches it, so that
\* std::terminate ends the process: every thread, and with them the sockets.
UpgradeTargetThrows(c) ==
    /\ connections[c] = "reading"
    /\ pc' = [t \in Threads |-> "terminated"]
    /\ bridges' = [t \in Threads |-> {}] /\ threads' = [t \in Threads |-> {}]
    /\ acceptor' = "closed" /\ internal' = "ended"
    /\ connectionThreads' = {} /\ activeBridges' = {} /\ handling' = {}
    /\ connections' = [d \in Connections |-> "ended"]
    /\ pumps' = [d \in Connections |-> {}]
    /\ closed' = [d \in Connections |-> TRUE]
    /\ UNCHANGED <<stopping, internalThread>>

Forward(c) ==
    /\ internal = "running"
    /\ Move(c, "proxy", "proxying")
    /\ handling' = handling \cup {c}
    /\ UNCHANGED <<serverVars, callVars, connectionThreads, bridgeVars, internal,
                   internalThread>>

\* A method that is not served, or an internal server that does not listen.
ForwardRefused(c) ==
    /\ Move(c, "proxy", "ended")
    /\ OnlyConnectionMoves

HandlerReturns(c) ==
    /\ c \in handling
    /\ handling' = handling \ {c}
    /\ UNCHANGED <<serverVars, callVars, connectionVars, internal, internalThread>>

ProxyAnswered(c) ==
    /\ c \notin handling
    /\ Move(c, "proxying", "ended")
    /\ OnlyConnectionMoves

\* 45 seconds: the client gets 502 while the handler goes on.
ProxyTimesOut(c) ==
    /\ c \in handling
    /\ Move(c, "proxying", "ended")
    /\ OnlyConnectionMoves

\* The route is resolved, the stream's socket connected, the upgrade accepted;
\* or one of them fails.
Attach(c) ==
    /\ \E next \in {"attached", "ended"} : Move(c, "attach", next)
    /\ OnlyConnectionMoves

\* active_bridges_.insert and bridge->run()
Register(c) ==
    /\ Move(c, "attached", "bridging")
    /\ activeBridges' = activeBridges \cup {c}
    /\ pumps' = [pumps EXCEPT ![c] = Directions]
    /\ UNCHANGED <<serverVars, callVars, connectionThreads, closed, internalVars>>

\* A mutant: an expected close of one side is not passed on.
BugForwardEndsSilently(c, d) ==
    /\ d \in pumps[c]
    /\ pumps' = [pumps EXCEPT ![c] = @ \ {d}]
    /\ UNCHANGED <<serverVars, callVars, connectionThreads, connections, closed,
                   activeBridges, internalVars>>

\* forward leaves its loop when its source or destination is closed, whoever
\* closed it, and closes both on its way out.
ForwardEnds(c, d) ==
    /\ d \in pumps[c]
    /\ pumps' = [pumps EXCEPT ![c] = @ \ {d}]
    /\ closed' = [closed EXCEPT ![c] = TRUE]
    /\ UNCHANGED <<serverVars, callVars, connectionThreads, connections, activeBridges,
                   internalVars>>

\* A mutant: the bridge is not taken out of the set.
BugUnregisterKeepsBridge(c) ==
    /\ pumps[c] = {}
    /\ Move(c, "bridging", "ended")
    /\ closed' = [closed EXCEPT ![c] = TRUE]
    /\ UNCHANGED <<serverVars, callVars, connectionThreads, pumps, activeBridges,
                   internalVars>>

\* run returns, active_bridges_.erase
Unregister(c) ==
    /\ pumps[c] = {}
    /\ Move(c, "bridging", "ended")
    /\ closed' = [closed EXCEPT ![c] = TRUE]
    /\ activeBridges' = activeBridges \ {c}
    /\ UNCHANGED <<serverVars, callVars, connectionThreads, pumps, internalVars>>

-----------------------------------------------------------------------------
(* The internal server: httplib::Server::listen_after_bind *)

InternalRuns ==
    /\ internal = "starting"
    /\ internal' = "running"
    /\ UNCHANGED <<serverVars, callVars, connectionVars, internalThread, handling>>

\* It waits for the handlers it has begun.
InternalEnds ==
    /\ internal = "stopping"
    /\ handling = {}
    /\ internal' = "ended"
    /\ UNCHANGED <<serverVars, callVars, connectionVars, internalThread, handling>>

-----------------------------------------------------------------------------

Init ==
    /\ stopping = TRUE
    /\ acceptor = "none"
    /\ pc = [t \in Threads |-> "idle"]
    /\ bridges = [t \in Threads |-> {}]
    /\ threads = [t \in Threads |-> {}]
    /\ connectionThreads = {}
    /\ connections = [c \in Connections |-> "absent"]
    /\ pumps = [c \in Connections |-> {}]
    /\ closed = [c \in Connections |-> FALSE]
    /\ activeBridges = {}
    /\ internal = "none"
    /\ internalThread = "none"
    /\ handling = {}

Listen ==
    \/ Bind
    \/ BindFails
    \/ StartInternalServer
    \/ Waited
    \/ Publish
    \/ Loop
    \/ \E c \in Connections : Accept(c)
    \/ AcceptNothing
    \/ AcceptAborted
    \/ \E c \in Connections : Spawn(c)

Join(t) ==
    \/ SwapThreads(t)
    \/ JoinThreads(t)
    \/ CheckJoinable(t)
    \/ JoinInternalThread(t)
    \/ JoinTwice(t)

Stop(t) ==
    \/ StopInternalServer(t)
    \/ CloseAcceptor(t)
    \/ Snapshot(t)
    \/ \E c \in Connections : CloseBridge(t, c)
    \/ BridgesClosed(t)

\* The steps of a connection's thread that wait for no peer of a websocket.
Handle(c) ==
    \/ ReadRequest(c)
    \/ Forward(c)
    \/ ForwardRefused(c)
    \/ ProxyAnswered(c)
    \/ ProxyTimesOut(c)
    \/ Attach(c)
    \/ Register(c)
    \/ Unregister(c)

Next ==
    \/ Listen
    \/ \E t \in Threads : Join(t)
    \/ \E t \in Stoppers : StopAgain(t) \/ StopBegin(t) \/ Stop(t)
    \/ \E c \in Connections :
           \/ Connect(c)
           \/ Handle(c)
           \/ UpgradeTargetThrows(c)
           \/ HandlerReturns(c)
           \/ \E d \in Directions : ForwardEnds(c, d)
    \/ InternalRuns
    \/ InternalEnds

\* Threads go on. A client sends its request or goes away in the end, and a
\* handler returns. But the two peers of a websocket may talk for ever: a
\* forward thread is only sure to end once its sockets are closed.
Fairness ==
    /\ WF_vars(Listen)
    /\ \A t \in Threads : WF_vars(Join(t))
    /\ \A t \in Stoppers : WF_vars(Stop(t))
    /\ \A c \in Connections :
           /\ WF_vars(Handle(c))
           /\ WF_vars(HandlerReturns(c))
           /\ \A d \in Directions : WF_vars(closed[c] /\ ForwardEnds(c, d))
    /\ WF_vars(InternalRuns)
    /\ WF_vars(InternalEnds)

Spec == Init /\ [][Next]_vars /\ Fairness

-----------------------------------------------------------------------------
(* Properties *)

\* Where a connection's thread runs.
Alive ==
    {"reading", "proxy", "proxying", "attach", "attached", "bridging"}

Ends == {"returned", "thrown", "terminated"}

Joining == {"swap", "join_threads", "check", "join"} \cup Ends

ListenPcs == {"idle", "start", "wait", "publish", "loop", "accept", "spawn"} \cup Joining

StopPcs == {"idle", "stop_internal", "close_acceptor", "snapshot", "close_bridges"} \cup Joining

TypeOK ==
    /\ stopping \in BOOLEAN
    /\ acceptor \in {"none", "open", "closed"}
    /\ pc \in [Threads -> ListenPcs \cup StopPcs]
    /\ pc[Listener] \in ListenPcs
    /\ \A t \in Stoppers : pc[t] \in StopPcs
    /\ bridges \in [Threads -> SUBSET Connections]
    /\ threads \in [Threads -> SUBSET Connections]
    /\ connectionThreads \subseteq Connections
    /\ connections \in [Connections -> {"absent", "backlog", "accepted", "ended"} \cup Alive]
    /\ pumps \in [Connections -> SUBSET Directions]
    /\ closed \in [Connections -> BOOLEAN]
    /\ activeBridges = {c \in Connections : connections[c] = "bridging"}
    /\ internal \in {"none", "starting", "running", "stopping", "ended"}
    /\ internalThread \in {"none", "joinable", "joined"}
    /\ handling \subseteq Connections

\* Every running connection thread has somebody who will join it: it is in
\* connection_threads_ while the listener has its swap before it, or one of the
\* callers has swapped it out and is waiting for it. A connection accepted just
\* before stop, whose thread is entered after stop has swapped, is not
\* forgotten; once listen and stop have returned nothing of the server runs.
NoThreadAbandoned ==
    \A c \in Connections :
        connections[c] \in Alive =>
            \/ c \in connectionThreads /\ pc[Listener] \in {"loop", "accept", "spawn", "swap"}
            \/ \E t \in Threads : c \in threads[t] /\ pc[t] = "join_threads"

\* A bridge that is entered after stop has copied the set is not told to stop.
\* (Only the stop that reset the flag closes the acceptor and copies the set.)
BridgeMissed ==
    /\ acceptor = "closed"
    /\ \A t \in Stoppers : pc[t] # "snapshot"
    /\ \E c \in activeBridges : ~closed[c] /\ \A t \in Stoppers : c \notin bridges[t]

\* A stop that found the server listening brings it down: stop comes to an end
\* and so does listen_after_bind, although each may wait for threads the other
\* has taken, for handlers and for bridges, or the process ends under them. Two
\* ways not to: the internal server was not up yet, or a bridge was missed and its
\* peers go on talking.
ShutdownEnds ==
    \A t \in Stoppers :
        pc[t] = "stop_internal" /\ internal = "running" ~>
            \/ {pc[t], pc[Listener]} \subseteq Ends
            \/ BridgeMissed

\* A bridge that is in the set when stop takes its copy is closed, at the latest
\* with the process.
StopClosesBridges ==
    \A t \in Stoppers, c \in Connections :
        pc[t] = "snapshot" /\ c \in activeBridges ~> closed[c]

\* A bridge ends as a whole: when one of its directions has ended, or stop has
\* closed it, the other ends too, and the connection's thread with it.
BridgeEndsWhole ==
    \A c \in Connections :
        (connections[c] = "bridging" /\ (closed[c] \/ pumps[c] # Directions))
            ~> connections[c] = "ended"

\* stop may be called while another thread is in listen_after_bind, as the
\* tests do to end the server, and both return.
EveryCallReturns == \A t \in Threads : pc[t] # "thrown"

=============================================================================
