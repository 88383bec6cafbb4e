------------------------------ MODULE HttpRoutes ------------------------------
(***************************************************************************)
(* The session and the stream requests of src/src/api/http_server.cpp at   *)
(* once: HttpSessions.tla and HttpStreamRoutes.tla over one control plane. *)
(* A thread serves one request at a time, a page, an upgrade or another.   *)
(***************************************************************************)
EXTENDS HttpSessions, HttpStreamRoutes

routeVars == <<vars, pages, upgrades>>

\* A thread that serves an upgrade serves nothing else.
OneRequest ==
    \A w \in Workers : upgrades[w] # NoUpgrade => UNCHANGED <<tasks[w], pages[w]>>

RouteInit == Init /\ pages = [w \in Workers |-> NoPage]
                  /\ upgrades = [w \in Workers |-> NoUpgrade]

RouteNext ==
    \/ Requests /\ OneRequest /\ UNCHANGED upgrades
    \/ \E w \in Workers :
           \/ TakeRoute(w) /\ pages[w] = NoPage /\ Watch
           \/ Attach(w) /\ UNCHANGED pages
           \/ AttachFails(w) /\ UNCHANGED pages
           \/ BridgeEnds(w) /\ UNCHANGED pages
           \/ UpgradeTargetThrows(w) /\ ProcessEnds(w)

RouteSpec == RouteInit /\ [][RouteNext]_routeVars

=============================================================================
