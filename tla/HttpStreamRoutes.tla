--------------------------- MODULE HttpStreamRoutes ---------------------------
(***************************************************************************)
(* Browsers at the streams of running sessions, through                    *)
(* src/src/api/http_server.cpp: GET .../streams/{id}/http fetches within   *)
(* one call of the service, but a websocket upgrade takes two steps. The   *)
(* connection thread asks the service for the route, and connects to it    *)
(* when the call has returned and nothing of the session is locked or      *)
(* referred to any more. Whoever listens on the port then is the peer of   *)
(* the bridge for as long as both sides keep it open.                      *)
(*                                                                         *)
(* The target of an upgrade is taken apart outside every try block, in a   *)
(* thread of its own: a percent sign that no hex digit follows throws out  *)
(* of it, and std::terminate ends the process with all it keeps.           *)
(***************************************************************************)
EXTENDS ControlPlane

VARIABLE upgrades       \* the websocket upgrade each thread is serving

streamVars == <<vars, upgrades>>

\* route: the binding the manager gave for the session id; peer: the session
\* whose sink accepted the handshake.
NoUpgrade == [step |-> "none", id |-> None, route |-> {}, peer |-> None]

-----------------------------------------------------------------------------

\* A thread serves one request at a time.
Request(w, id) ==
    /\ upgrades[w] = NoUpgrade
    /\ Begin(w, id)
    /\ UNCHANGED upgrades

\* resolve_websocket_stream has returned to handle_websocket_upgrade.
TakeRoute(w) ==
    /\ calls[w].method = "route" /\ calls[w].outcome = "ok"
    /\ upgrades' = [upgrades EXCEPT ![w] =
           [step |-> "attach", id |-> calls[w].id, route |-> calls[w].got,
            peer |-> None]]
    /\ Return(w)

\* The handshake asks for a websocket at the path that all sinks share.
WebsocketSinks(port) ==
    {id \in Runtime!Listening(port) :
        \E b \in Object(id).bindings : b[1] \in Websocket /\ b[2] = port}

Attach(w) ==
    /\ upgrades[w].step = "attach"
    /\ \E b \in upgrades[w].route : \E id \in WebsocketSinks(b[2]) :
           upgrades' = [upgrades EXCEPT ![w].step = "bridged", ![w].peer = id]
    /\ UNCHANGED vars

\* Nobody listens or it is no websocket, or the browser has gone.
AttachFails(w) ==
    /\ upgrades[w].step = "attach"
    /\ upgrades' = [upgrades EXCEPT ![w] = NoUpgrade]
    /\ UNCHANGED vars

\* Either side closes; HttpServer.tla has the bridge's threads.
BridgeEnds(w) ==
    /\ upgrades[w].step = "bridged"
    /\ upgrades' = [upgrades EXCEPT ![w] = NoUpgrade]
    /\ UNCHANGED vars

\* parse_websocket_stream_target throws, before anything is asked of the service.
UpgradeTargetThrows(w) ==
    /\ tasks[w] = Service!Free
    /\ upgrades[w] = NoUpgrade
    /\ Restarted
    /\ upgrades' = [v \in Workers |-> NoUpgrade]

-----------------------------------------------------------------------------

StreamInit == Init /\ upgrades = [w \in Workers |-> NoUpgrade]

\* What is routed without an upgrade (the internal server's own route answers
\* 426 or 501) returns like any other request.
StreamNext ==
    \/ \E id \in Sessions : Create(id) /\ UNCHANGED upgrades
    \/ \E w \in Workers, id \in Sessions : Request(w, id)
    \/ \E w \in Workers :
           \/ Call(w) /\ UNCHANGED upgrades
           \/ RuntimeStep(w) /\ UNCHANGED upgrades
           \/ Return(w) /\ UNCHANGED upgrades
           \/ TakeRoute(w)
           \/ Commit(w) /\ UNCHANGED upgrades
           \/ Attach(w)
           \/ AttachFails(w)
           \/ BridgeEnds(w)
           \/ UpgradeTargetThrows(w)

StreamSpec == StreamInit /\ [][StreamNext]_streamVars

-----------------------------------------------------------------------------
(* Properties *)

\* Threads that serve an upgrade are in no call, and their route is one
\* websocket binding.
StreamsTypeOK ==
    /\ TypeOK
    /\ \A w \in Workers :
           /\ upgrades[w].step \in {"none", "attach", "bridged"}
           /\ upgrades[w].step = "none" <=> upgrades[w] = NoUpgrade
           /\ upgrades[w].step # "none" =>
                  /\ tasks[w] = Service!Free
                  /\ \E s \in Websocket, p \in Ports : upgrades[w].route = {<<s, p>>}
           /\ upgrades[w].peer # None <=> upgrades[w].step = "bridged"

Kept(id, route) == resources[id] # None /\ Object(id).bindings \cap route # {}

\* A fetch and an upgrade go by a copy of the endpoint and hold nothing while
\* they connect, so the port may have passed to another session. They never
\* reach that session's stream as long as their own still has the port.
StrayOnlyAfterRelease ==
    [][\A w \in Workers :
        /\ calls'[w].from \notin {calls[w].from, None, calls[w].id} =>
               ~Kept(calls[w].id, calls[w].got)
        /\ upgrades'[w].peer \notin {upgrades[w].peer, None, upgrades[w].id} =>
               ~Kept(upgrades[w].id, upgrades[w].route)]_streamVars

=============================================================================
