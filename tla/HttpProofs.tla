------------------------------ MODULE HttpProofs ------------------------------
(***************************************************************************)
(* Theorems about the requests of http_server.cpp that take more than one  *)
(* call of the service: HttpStreamRoutes.tla, HttpSessions.tla and, with   *)
(* both, HttpRoutes.tla. They add steps of their own to ControlPlane.tla,  *)
(* whose invariant they keep, and the end of the process.                  *)
(***************************************************************************)
EXTENDS HttpRoutes, ControlPlaneProofs

\* What a thread knows of the upgrade it serves.
Upgrades ==
    /\ upgrades \in [Workers ->
           [step : {"none", "attach", "bridged"}, id : Sessions \cup {None},
            route : SUBSET (Streams \X Ports), peer : Sessions \cup {None}]]
    /\ \A w \in Workers :
           /\ upgrades[w].step = "none" <=> upgrades[w] = NoUpgrade
           /\ upgrades[w].step # "none" =>
                  /\ tasks[w] = SP!Free
                  /\ upgrades[w].id \in Sessions
                  /\ \E s \in Websocket, p \in Ports : upgrades[w].route = {<<s, p>>}
           /\ upgrades[w].peer # None <=> upgrades[w].step = "bridged"

StreamInv == IInv /\ Upgrades

-----------------------------------------------------------------------------
(* The end of the process. *)

LEMMA RestartedIs == Restarted => Init' /\ \A w \in Workers : tasks'[w] = SP!Free
<1> SUFFICES ASSUME Restarted PROVE Init' /\ \A w \in Workers : tasks'[w] = SP!Free
  OBVIOUS
<1>1. /\ repository' = [id \in Sessions |-> SP!Absent]
      /\ phases' = [id \in Sessions |-> "none"]
      /\ tasks' = [w \in Workers |-> SP!Free]
  BY DEF Restarted, Service!Absent, Service!Free, SP!Absent, SP!Free
<1>2. Service!Init'
  BY DEF Restarted, Service!Init, Service!Absent, Service!Free
<1>3. Runtime!Init'
  BY DEF Restarted, Runtime!Init, Runtime!Fresh, Runtime!NoCall
<1> QED
  BY <1>1, <1>2, <1>3 DEF Init

LEMMA RestartedIInv == Restarted => IInv'
<1>1. Init' => IInv'
  BY InitIInv, PTL
<1> QED
  BY <1>1, RestartedIs

-----------------------------------------------------------------------------
(* The steps of HttpStreamRoutes, seen from the control plane. *)

LEMMA StreamStepIsNext ==
    [StreamNext]_streamVars => [Next]_vars \/ \E w \in Workers : UpgradeTargetThrows(w)
<1> SUFFICES ASSUME [StreamNext]_streamVars, \A w \in Workers : ~UpgradeTargetThrows(w)
             PROVE  [Next]_vars
  OBVIOUS
<1>1. CASE UNCHANGED streamVars
  BY <1>1 DEF streamVars
<1>2. ASSUME NEW w \in Workers, Attach(w) \/ AttachFails(w) \/ BridgeEnds(w)
      PROVE  UNCHANGED vars
  BY <1>2 DEF Attach, AttachFails, BridgeEnds
<1>3. ASSUME NEW w \in Workers, NEW id \in Sessions, Request(w, id) PROVE Next
  BY <1>3 DEF Request, Next
<1>4. ASSUME NEW w \in Workers, TakeRoute(w) PROVE Next
  BY <1>4 DEF TakeRoute, Next
<1> QED
  BY <1>1, <1>2, <1>3, <1>4 DEF StreamNext, Next

LEMMA NoUpgradeType ==
    /\ NoUpgrade.step = "none" /\ NoUpgrade.peer = None
    /\ NoUpgrade \in [step : {"none", "attach", "bridged"}, id : Sessions \cup {None},
                      route : SUBSET (Streams \X Ports), peer : Sessions \cup {None}]
  BY DEF NoUpgrade

\* An upgrade that goes on, or ends, is as it should be.
LEMMA UpgradeStep ==
    ASSUME Upgrades, NEW w \in Workers, NEW u, upgrades' = [upgrades EXCEPT ![w] = u],
           u \in [step : {"none", "attach", "bridged"}, id : Sessions \cup {None},
                  route : SUBSET (Streams \X Ports), peer : Sessions \cup {None}],
           u.step = "none" <=> u = NoUpgrade,
           u.step # "none" =>
               /\ tasks'[w] = SP!Free
               /\ u.id \in Sessions
               /\ \E s \in Websocket, p \in Ports : u.route = {<<s, p>>},
           u.peer # None <=> u.step = "bridged",
           \A v \in Workers \ {w} : tasks'[v] = tasks[v]
    PROVE  Upgrades'
<1>1. upgrades'[w] = u /\ \A v \in Workers \ {w} : upgrades'[v] = upgrades[v]
  BY DEF Upgrades
<1> QED
  BY <1>1 DEF Upgrades

\* A step of the control plane leaves the threads alone that serve an upgrade.
LEMMA UpgradesApart ==
    ASSUME Upgrades, UNCHANGED upgrades, NEW w \in Workers,
           tasks[w] = SP!Free => upgrades[w] = NoUpgrade \/ UNCHANGED tasks,
           \A v \in Workers \ {w} : tasks'[v] = tasks[v]
    PROVE  Upgrades'
  BY NoUpgradeType DEF Upgrades

\* The route that a thread takes is one websocket binding, and the task is over.
LEMMA TakeRouteIs ==
    ASSUME IInv, NEW w \in Workers, TakeRoute(w)
    PROVE  /\ upgrades' = [upgrades EXCEPT ![w] =
                  [step |-> "attach", id |-> calls[w].id, route |-> calls[w].got,
                   peer |-> None]]
           /\ tasks' = [tasks EXCEPT ![w] = SP!Free]
           /\ calls[w].id \in Sessions
           /\ \E s \in Websocket, p \in Ports : calls[w].got = {<<s, p>>}
<1>1. SP!TypeOK /\ RP!Types /\ Linked
  BY DEF IInv, SP!IInv, RP!IInv
<1>2. /\ calls[w].method = "route" /\ calls[w].outcome = "ok"
      /\ Return(w)
      /\ upgrades' = [upgrades EXCEPT ![w] =
             [step |-> "attach", id |-> calls[w].id, route |-> calls[w].got,
              peer |-> None]]
  BY DEF TakeRoute
<1>3. /\ calls[w].pc = "returned" /\ tasks[w].step = "route"
      /\ calls[w] # RP!NoCall
      /\ SP!RuntimeReturns(w, "ok")
  BY <1>1, <1>2, ReturnIs, ServiceActions DEF Return, RP!NoCall
<1>4. calls[w].id \in Sessions
  BY <1>1, <1>3, CallIsTask
<1>5. \E s \in Websocket, p \in Ports : calls[w].got = {<<s, p>>}
  BY <1>2, <1>3 DEF IInv, RP!IInv, RP!OneEndpoint, RP!At
<1>6. tasks[w].op \notin SP!LifecycleOps
  <2>1. tasks[w].step \in SP!Script(tasks[w].op)
    BY <1>1, <1>3 DEF SP!TypeOK, SP!WellFormed, SP!Free
  <2> QED
    BY <1>3, <2>1, SP!OpsScripts, ControlPlaneAssumption, MethodsAre
<1>7. tasks' = [tasks EXCEPT ![w] = SP!Free]
  BY <1>3, <1>6 DEF SP!RuntimeReturns, SP!RuntimeOk, SP!Release
<1> QED
  BY <1>2, <1>4, <1>5, <1>7

LEMMA UpgradesNext ==
    ASSUME StreamInv, [StreamNext]_streamVars
    PROVE  Upgrades'
<1>1. IInv /\ SP!TypeOK /\ RP!Types /\ Linked /\ Upgrades
  BY DEF StreamInv, IInv, SP!IInv, RP!IInv
<1> DEFINE T == [step : {"none", "attach", "bridged"}, id : Sessions \cup {None},
                 route : SUBSET (Streams \X Ports), peer : Sessions \cup {None}]
<1>2. ASSUME UNCHANGED <<tasks, upgrades>> PROVE Upgrades'
  BY <1>1, <1>2 DEF Upgrades
<1>3. ASSUME NEW id \in Sessions, Create(id), UNCHANGED upgrades PROVE Upgrades'
  BY <1>2, <1>3, ServiceActions DEF Create, SP!Create
<1>4. ASSUME NEW w \in Workers, NEW id \in Sessions, Request(w, id) PROVE Upgrades'
  BY <1>1, <1>4, BeginIs, UpgradesApart DEF Request
<1>5. ASSUME NEW w \in Workers, Call(w) \/ RuntimeStep(w), UNCHANGED upgrades
      PROVE  Upgrades'
  BY <1>2, <1>5 DEF Call, RuntimeStep, serviceVars
<1>6. ASSUME NEW w \in Workers, Return(w), UNCHANGED upgrades PROVE Upgrades'
  <2>1. tasks[w] # SP!Free /\ \A v \in Workers \ {w} : tasks'[v] = tasks[v]
    BY <1>1, <1>6, ReturnIs, MethodsAre DEF SP!Free
  <2> QED
    BY <1>1, <1>6, <2>1, UpgradesApart
<1>7. ASSUME NEW w \in Workers, Commit(w), UNCHANGED upgrades PROVE Upgrades'
  <2>1. SP!Commit(w)
    BY <1>7, ServiceActions DEF Commit
  <2>2. tasks[w] # SP!Free /\ \A v \in Workers \ {w} : tasks'[v] = tasks[v]
    BY <1>1, <2>1 DEF SP!Commit, SP!CommitStart, SP!CommitStop, SP!CommitRemove,
                      SP!Release, SP!TypeOK, SP!Free
  <2> QED
    BY <1>1, <1>7, <2>2, UpgradesApart
<1>8. ASSUME NEW w \in Workers, TakeRoute(w) PROVE Upgrades'
  <2> DEFINE u == [step |-> "attach", id |-> calls[w].id, route |-> calls[w].got,
                   peer |-> None]
  <2>1. upgrades' = [upgrades EXCEPT ![w] = u] /\ tasks' = [tasks EXCEPT ![w] = SP!Free]
    BY <1>1, <1>8, TakeRouteIs
  <2>2. /\ tasks'[w] = SP!Free /\ \A v \in Workers \ {w} : tasks'[v] = tasks[v]
    BY <1>1, <2>1 DEF SP!TypeOK
  <2>3. /\ calls[w].id \in Sessions
        /\ \E s \in Websocket, p \in Ports : calls[w].got = {<<s, p>>}
    BY <1>1, <1>8, TakeRouteIs
  <2>4. u \in T /\ u.step = "attach" /\ u # NoUpgrade
    BY <2>3, ControlPlaneAssumption DEF NoUpgrade
  <2>5. /\ u.id \in Sessions /\ u.peer = None
        /\ \E s \in Websocket, p \in Ports : u.route = {<<s, p>>}
    BY <2>3
  <2> HIDE DEF u
  <2> QED
    BY <1>1, <2>1, <2>2, <2>4, <2>5, UpgradeStep
<1>9. ASSUME NEW w \in Workers, Attach(w) PROVE Upgrades'
  <2>1. PICK id \in Sessions :
            upgrades' = [upgrades EXCEPT ![w].step = "bridged", ![w].peer = id]
    BY <1>9 DEF Attach, WebsocketSinks, Runtime!Listening
  <2> DEFINE u == [upgrades[w] EXCEPT !.step = "bridged", !.peer = id]
  <2>2. upgrades' = [upgrades EXCEPT ![w] = u]
    BY <2>1
  <2>3. upgrades[w].step = "attach" /\ UNCHANGED tasks
    BY <1>9 DEF Attach, vars, serviceVars
  <2>4. /\ u \in T /\ u.step = "bridged" /\ u.peer = id /\ u.id = upgrades[w].id
        /\ u.route = upgrades[w].route /\ u # NoUpgrade
    BY <1>1 DEF Upgrades, NoUpgrade
  <2>5. /\ tasks'[w] = SP!Free /\ u.id \in Sessions
        /\ \E s \in Websocket, p \in Ports : u.route = {<<s, p>>}
        /\ u.peer # None
    BY <1>1, <2>3, <2>4, ControlPlaneAssumption DEF Upgrades
  <2> HIDE DEF u
  <2> QED
    BY <1>1, <2>2, <2>3, <2>4, <2>5, UpgradeStep
<1>10. ASSUME NEW w \in Workers, AttachFails(w) \/ BridgeEnds(w) PROVE Upgrades'
  <2>1. upgrades' = [upgrades EXCEPT ![w] = NoUpgrade] /\ UNCHANGED tasks
    BY <1>10 DEF AttachFails, BridgeEnds, vars, serviceVars
  <2> QED
    BY <1>1, <2>1, NoUpgradeType, UpgradeStep
<1>11. CASE UNCHANGED streamVars
  BY <1>2, <1>11 DEF streamVars, vars, serviceVars
<1>12. ASSUME NEW w \in Workers, UpgradeTargetThrows(w) PROVE Upgrades'
  BY <1>12, RestartedIs, NoUpgradeType DEF UpgradeTargetThrows, Upgrades
<1> QED
  BY <1>3, <1>4, <1>5, <1>6, <1>7, <1>8, <1>9, <1>10, <1>11, <1>12 DEF StreamNext

LEMMA InitStreamInv == StreamInit => StreamInv
<1> SUFFICES ASSUME StreamInit PROVE StreamInv
  OBVIOUS
<1>1. IInv
  BY InitIInv DEF StreamInit
<1>2. Upgrades
  BY NoUpgradeType DEF StreamInit, Upgrades
<1> QED
  BY <1>1, <1>2 DEF StreamInv

LEMMA StreamInvNext == StreamInv /\ [StreamNext]_streamVars => StreamInv'
  BY StreamStepIsNext, StepKeepsIInv, RestartedIInv, UpgradesNext
     DEF StreamInv, UpgradeTargetThrows

\* The control plane's invariant and what is known of the upgrades: every step
\* of the streams keeps them.
THEOREM StreamInvariant == StreamSpec => []StreamInv
<1> QED
  BY InitStreamInv, StreamInvNext, PTL DEF StreamSpec

\* A thread that serves an upgrade is in no call of the service, and goes by
\* the one websocket endpoint it has been given.
THEOREM StreamsTypeCorrect == StreamSpec => []StreamsTypeOK
<1>1. IInv => TypeOK
  BY ServiceTypes, RuntimeTypes
     DEF IInv, TypeOK, SP!IInv, RP!IInv, RP!Types, Linked
<1>2. StreamInv => StreamsTypeOK
  BY <1>1, ServiceTypes DEF StreamInv, Upgrades, StreamsTypeOK
<1> QED
  BY <1>2, StreamInvariant, PTL

-----------------------------------------------------------------------------
(* Whose stream a fetch or an upgrade reaches. *)

\* A fetch is answered in a step of its own call.
LEMMA FetchIsAnswered ==
    ASSUME IInv, [Next]_vars, NEW w \in Workers,
           calls'[w].from # calls[w].from, calls'[w].from # None
    PROVE  RP!Step(w)
<1>1. RP!Types
  BY DEF IInv, RP!IInv
<1>2. ASSUME UNCHANGED calls PROVE FALSE
  BY <1>2
<1>3. ASSUME NEW v \in Workers, Call(v) PROVE FALSE
  <2>1. PICK method, id : RP!Invoke(v, method, id)
    BY <1>3, RuntimeActions DEF Call
  <2>2. calls'[v].from = None /\ \A u \in Workers \ {v} : calls'[u] = calls[u]
    BY <1>1, <2>1, RP!InvokeIs, ControlPlaneAssumption
  <2> QED
    BY <2>2
<1>4. ASSUME NEW v \in Workers, Return(v) PROVE FALSE
  <2>1. RP!Collect(v)
    BY <1>4, RuntimeActions DEF Return
  <2>2. calls'[v].from = None /\ \A u \in Workers \ {v} : calls'[u] = calls[u]
    BY <1>1, <2>1, RP!CollectIs, ControlPlaneAssumption DEF RP!NoCall
  <2> QED
    BY <2>2
<1>5. ASSUME NEW v \in Workers, RuntimeStep(v) PROVE RP!Step(w)
  <2>1. RP!Step(v)
    BY <1>5, RuntimeActions DEF RuntimeStep
  <2> QED
    BY <1>1, <2>1, RP!StepIs, ControlPlaneAssumption
<1> QED
  BY <1>2, <1>3, <1>4, <1>5
     DEF Next, vars, runtimeVars, Create, Begin, Commit

LEMMA FetchStaysHome ==
    ASSUME IInv, [Next]_vars, NEW w \in Workers,
           calls'[w].from \notin {calls[w].from, None, calls[w].id}
    PROVE  ~Kept(calls[w].id, calls[w].got)
<1>1. RP!Step(w) /\ RP!IInv
  BY FetchIsAnswered DEF IInv
<1> QED
  BY <1>1, RP!AnswersOwn, ControlPlaneAssumption DEF Kept, Object

LEMMA UpgradeStaysHome ==
    ASSUME StreamInv, [StreamNext]_streamVars, NEW w \in Workers,
           upgrades'[w].peer \notin {upgrades[w].peer, None, upgrades[w].id}
    PROVE  ~Kept(upgrades[w].id, upgrades[w].route)
<1>1. IInv /\ RP!IInv /\ Upgrades
  BY DEF StreamInv, IInv
<1>2. Attach(w)
  <2>1. ASSUME UNCHANGED upgrades PROVE FALSE
    BY <2>1
  <2>2. ASSUME NEW v \in Workers, NEW u, u.peer = None,
               upgrades' = [upgrades EXCEPT ![v] = u]
        PROVE  FALSE
    BY <1>1, <2>2 DEF Upgrades
  <2>3. ASSUME NEW v \in Workers, TakeRoute(v) PROVE FALSE
    BY <2>2, <2>3 DEF TakeRoute
  <2>4. ASSUME NEW v \in Workers, AttachFails(v) \/ BridgeEnds(v) PROVE FALSE
    BY <2>2, <2>4, NoUpgradeType DEF AttachFails, BridgeEnds
  <2>5. ASSUME NEW v \in Workers, Attach(v) PROVE v = w
    <3>1. \E u : upgrades' = [upgrades EXCEPT ![v] = u]
      BY <2>5 DEF Attach
    <3> QED
      BY <1>1, <3>1 DEF Upgrades
  <2>6. ASSUME NEW v \in Workers, UpgradeTargetThrows(v) PROVE FALSE
    BY <2>6, NoUpgradeType DEF UpgradeTargetThrows
  <2> QED
    BY <2>1, <2>3, <2>4, <2>5, <2>6 DEF StreamNext, Request, streamVars
<1>3. PICK b \in upgrades[w].route : \E id \in WebsocketSinks(b[2]) :
          upgrades' = [upgrades EXCEPT ![w].step = "bridged", ![w].peer = id]
  BY <1>2 DEF Attach
<1>4. PICK id \in WebsocketSinks(b[2]) :
          upgrades' = [upgrades EXCEPT ![w].step = "bridged", ![w].peer = id]
  BY <1>3
<1>5. upgrades'[w].peer = id
  BY <1>1, <1>4 DEF Upgrades
<1>6. /\ id \in Sessions /\ resources[id] # None
      /\ \E c \in heap[resources[id]].bindings : b[2] = c[2]
  BY DEF WebsocketSinks, Runtime!Listening, Object
<1>7. /\ upgrades[w].id \in Sessions
      /\ upgrades[w].route = {b}
  BY <1>1, <1>2 DEF Upgrades, Attach
<1>8. ASSUME Kept(upgrades[w].id, upgrades[w].route) PROVE FALSE
  <2>1. /\ resources[upgrades[w].id] # None
        /\ b \in heap[resources[upgrades[w].id]].bindings
    BY <1>7, <1>8 DEF Kept, Object
  <2>2. id = upgrades[w].id
    BY <1>1, <1>6, <1>7, <2>1, RP!OneSessionPerPort, ControlPlaneAssumption
  <2> QED
    BY <1>5, <2>2
<1> QED
  BY <1>8

\* A fetch and an upgrade hold nothing while they connect, and a port given
\* back goes to the next session that asks. Whatever happens in between, they
\* reach another session's stream only when their own has lost the endpoint.
THEOREM StraysAfterRelease == StreamSpec => StrayOnlyAfterRelease
<1>1. ASSUME StreamInv, [StreamNext]_streamVars
      PROVE  \A w \in Workers :
                 /\ calls'[w].from \notin {calls[w].from, None, calls[w].id} =>
                        ~Kept(calls[w].id, calls[w].got)
                 /\ upgrades'[w].peer \notin {upgrades[w].peer, None, upgrades[w].id} =>
                        ~Kept(upgrades[w].id, upgrades[w].route)
  <2>1. ASSUME NEW v \in Workers, UpgradeTargetThrows(v), NEW w \in Workers
        PROVE  calls'[w].from = None
    <3>1. Runtime!Init'
      BY <2>1, RestartedIs DEF UpgradeTargetThrows, Init
    <3> QED
      BY <3>1 DEF Runtime!Init, Runtime!NoCall
  <2> QED
    BY <1>1, <2>1, StreamStepIsNext, FetchStaysHome, UpgradeStaysHome DEF StreamInv
<1> QED
  BY <1>1, StreamInvariant, PTL DEF StreamSpec, StrayOnlyAfterRelease

-----------------------------------------------------------------------------
(* Pages: an answer put together from several looks at the control plane. *)

\* The answers that threads put together.
Pages ==
    [step : {"none", "lookup", "answered"}, todo : SUBSET Sessions,
     shown : [Sessions -> Service!States \cup {"absent"}],
     streams : SUBSET Sessions, status : {"none", "ok", "not_found"},
     touched : SUBSET Sessions]

\* Only readers have a page, and one that has a page and is in a call of the
\* service is there for the streams of a session it has yet to look up.
PageFits(w) ==
    /\ pages[w].streams \cup pages[w].todo \subseteq InAnswer(pages[w])
    /\ pages[w].streams \cap pages[w].todo = {}
    /\ pages[w].step = "answered" => pages[w].todo = {}
    /\ pages[w].step = "none" => pages[w] = NoPage
    /\ w \notin Readers => pages[w] = NoPage
    /\ pages[w] # NoPage /\ tasks[w] # SP!Free =>
           /\ pages[w].step = "lookup"
           /\ tasks[w].op = "plan"
           /\ tasks[w].id \in pages[w].todo

LeftAlone(w) == InAnswer(pages[w]) \ pages[w].touched

\* A session that is shown running and has been looked up is given with its
\* streams, if its graph has some, and no other session is.
Consistent(page, id) ==
    /\ id \in page.streams => page.shown[id] = "running"
    /\ id \notin page.todo /\ page.shown[id] = "running" /\ Authored[id] # {} =>
           id \in page.streams

\* What a page that is not finished says of the sessions left alone is still so.
PageTells(w) ==
    pages[w].step = "lookup" =>
        \A id \in LeftAlone(w) :
            /\ SP!Owners(id) = {}
            /\ repository[id].state = pages[w].shown[id]
            /\ Consistent(pages[w], id)

\* A lookup under way of a session left alone finds its object, and streams.
PlanTells(w) ==
    pages[w].step = "lookup" /\ tasks[w] # SP!Free /\ tasks[w].id \in LeftAlone(w) =>
        /\ pages[w].shown[tasks[w].id] = "running"
        /\ calls[w].pc = "enter" => calls[w].resource = resources[tasks[w].id]
        /\ calls[w].pc = "returned" /\ Authored[tasks[w].id] # {} => calls[w].got # {}

\* LeftAloneShownRight, of one page.
AnswerTells(w) ==
    pages[w].step = "answered" =>
        /\ pages[w].status = "not_found" => pages[w].touched # {}
        /\ pages[w].status = "ok" =>
               \A id \in Sessions \ pages[w].touched : Consistent(pages[w], id)

PageGood(w) == PageFits(w) /\ PageTells(w) /\ PlanTells(w) /\ AnswerTells(w)

PageInv ==
    /\ IInv
    /\ pages \in [Workers -> Pages]
    /\ \A w \in Workers : PageGood(w)

LEMMA OwnersAre == \A id : Service!Owners(id) = SP!Owners(id)
  BY DEF Service!Owners, SP!Owners, Service!LifecycleOps, SP!LifecycleOps

LEMMA OwnersAreNext == \A id : Service!Owners(id)' = SP!Owners(id)'
  BY DEF Service!Owners, SP!Owners, Service!LifecycleOps, SP!LifecycleOps

LEMMA NoPageIs ==
    /\ NoPage \in Pages
    /\ NoPage.step = "none" /\ NoPage.todo = {} /\ NoPage.streams = {}
    /\ InAnswer(NoPage) = {}
  BY DEF NoPage, Pages, InAnswer

\* A session that nobody owns keeps its record and its runtime resources.
LEMMA UnownedStays ==
    ASSUME IInv, [Next]_vars, NEW id \in Sessions, SP!Owners(id) = {}, SP!Exists(id)
    PROVE  /\ repository'[id] = repository[id]
           /\ resources'[id] = resources[id]
<1>1. SP!IInv /\ SP!TypeOK /\ RP!IInv /\ RP!Types /\ Linked
  BY DEF IInv, SP!IInv, RP!IInv
<1>2. repository'[id] = repository[id]
  <2>1. [SP!Next]_(SP!vars)
    BY StepIsService DEF vars, serviceVars, SP!vars
  <2> QED
    BY <1>1, <2>1, SP!RecordStep, ControlPlaneAssumption
<1>3. ASSUME NEW w \in Workers, RuntimeStep(w) PROVE resources'[id] = resources[id]
  BY <1>1, <1>3, RuntimeStaysOut
<1>4. ASSUME NEW w \in Workers, Call(w) \/ Return(w) PROVE UNCHANGED resources
  BY <1>4 DEF Call, Return, Runtime!Invoke, Runtime!Collect
<1>5. ASSUME UNCHANGED runtimeVars PROVE UNCHANGED resources
  BY <1>5 DEF runtimeVars
<1> QED
  BY <1>2, <1>3, <1>4, <1>5 DEF Next, Create, Begin, Commit, vars

\* A page that goes on as it was, except that more sessions count as touched: all
\* those that have an owner by now.
Watched(w) ==
    /\ pages'[w] \in Pages
    /\ pages'[w].step = pages[w].step /\ pages'[w].todo = pages[w].todo
    /\ pages'[w].shown = pages[w].shown /\ pages'[w].streams = pages[w].streams
    /\ pages'[w].status = pages[w].status
    /\ pages[w].touched \subseteq pages'[w].touched
    /\ pages[w].step # "lookup" => pages'[w] = pages[w]
    /\ pages[w].step = "lookup" =>
           \A id \in InAnswer(pages[w]) \ pages'[w].touched : SP!Owners(id)' = {}

LEMMA WatchIs ==
    ASSUME PageInv, Watch
    PROVE  pages' \in [Workers -> Pages] /\ \A w \in Workers : Watched(w)
<1> SUFFICES ASSUME NEW w \in Workers PROVE Watched(w)
  BY DEF Watch, Watched
<1>1. pages[w] \in Pages
  BY DEF PageInv
<1>2. CASE pages[w].step # "lookup"
  BY <1>1, <1>2 DEF Watch, Watched
<1>3. CASE pages[w].step = "lookup"
  <2>1. pages'[w] = [pages[w] EXCEPT !.touched = @ \cup (Touched \cap InAnswer(pages[w]))]
    BY <1>3 DEF Watch
  <2>2. \A id \in InAnswer(pages[w]) : SP!Owners(id)' # {} => id \in Touched
    BY OwnersAreNext DEF Touched, InAnswer
  <2>3. Touched \cap InAnswer(pages[w]) \subseteq Sessions
    BY DEF Touched
  <2> HIDE DEF PageInv
  <2> QED
    BY <1>1, <1>3, <2>1, <2>2, <2>3 DEF Watched, Pages
<1> QED
  BY <1>2, <1>3

LEMMA UntouchedIsWatched ==
    ASSUME PageInv, NEW w \in Workers, pages'[w] = pages[w],
           \A id \in Sessions : SP!Owners(id)' = SP!Owners(id)
    PROVE  Watched(w)
<1>1. pages[w] \in Pages /\ PageTells(w)
  BY DEF PageInv, PageGood
<1> QED
  BY <1>1 DEF Watched, PageTells, LeftAlone, InAnswer

\* What a page tells stays true of the sessions still left alone.
LEMMA TellsStays ==
    ASSUME PageInv, [Next]_vars, NEW w \in Workers, Watched(w)
    PROVE  /\ PageTells(w)'
           /\ LeftAlone(w)' \subseteq LeftAlone(w)
           /\ pages[w].step = "lookup" =>
                  \A id \in LeftAlone(w)' : resources'[id] = resources[id]
<1>1. IInv /\ PageTells(w)
  BY DEF PageInv, PageGood
<1>2. LeftAlone(w)' \subseteq LeftAlone(w) /\ LeftAlone(w) \subseteq Sessions
  BY DEF Watched, LeftAlone, InAnswer
<1>3. ASSUME pages[w].step = "lookup", NEW id \in LeftAlone(w)'
      PROVE  /\ SP!Owners(id)' = {}
             /\ repository'[id] = repository[id] /\ resources'[id] = resources[id]
  <2>1. SP!Owners(id) = {} /\ repository[id].state = pages[w].shown[id]
    BY <1>1, <1>2, <1>3 DEF PageTells
  <2>2. SP!Exists(id)
    BY <1>2, <1>3, <2>1 DEF SP!Exists, LeftAlone, InAnswer
  <2>3. SP!Owners(id)' = {}
    BY <1>3 DEF Watched, LeftAlone, InAnswer
  <2> QED
    BY <1>1, <1>2, <2>1, <2>2, <2>3, UnownedStays
<1>4. PageTells(w)'
  BY <1>1, <1>2, <1>3 DEF PageTells, Consistent, Watched
<1> QED
  BY <1>2, <1>3, <1>4

\* The steps of others.
LEMMA PageStays ==
    ASSUME PageInv, [Next]_vars, NEW w \in Workers, Watched(w),
           tasks'[w] = tasks[w], calls'[w] = calls[w]
    PROVE  PageGood(w)'
<1>1. PageFits(w) /\ PlanTells(w) /\ AnswerTells(w)
  BY DEF PageInv, PageGood
<1>2. /\ PageTells(w)' /\ LeftAlone(w)' \subseteq LeftAlone(w)
      /\ pages[w].step = "lookup" =>
             \A id \in LeftAlone(w)' : resources'[id] = resources[id]
  BY TellsStays
<1>3. PageFits(w)'
  BY <1>1, NoPageIs DEF PageFits, Watched, InAnswer
<1>4. PlanTells(w)'
  BY <1>1, <1>2 DEF PlanTells, Watched
<1>5. AnswerTells(w)'
  BY <1>1 DEF AnswerTells, Consistent, Watched
<1> QED
  BY <1>2, <1>3, <1>4, <1>5 DEF PageGood

\* A thread that has no page.
LEMMA NoPageGood ==
    ASSUME PageInv, NEW w \in Workers, pages[w] = NoPage, Watched(w)
    PROVE  PageGood(w)'
<1>1. pages'[w] = NoPage
  BY NoPageIs DEF Watched
<1> QED
  BY <1>1, NoPageIs DEF PageGood, PageFits, PageTells, PlanTells, AnswerTells, InAnswer

\* Reading the records: the page says what they are.
LEMMA ReadGood ==
    ASSUME PageInv, NEW w \in Workers, NEW ids \in SUBSET Sessions,
           \A id \in ids : SP!Exists(id), ReadRecords(w, ids)
    PROVE  pages' \in [Workers -> Pages] /\ PageGood(w)'
<1> DEFINE p == [NoPage EXCEPT
                     !.step = "lookup", !.todo = ids,
                     !.shown = [id \in Sessions |->
                                   IF id \in ids THEN repository[id].state ELSE "absent"],
                     !.touched = {id \in ids : Service!Owners(id) # {}}]
<1>1. /\ w \in Readers /\ tasks[w] = SP!Free /\ UNCHANGED vars
      /\ pages' = [pages EXCEPT ![w] = p]
  BY ServiceTypes DEF ReadRecords
<1>2. SP!TypeOK
  BY DEF PageInv, IInv, SP!IInv
<1>3. \A id \in Sessions : repository[id].state \in Service!States \cup {"absent"}
  BY <1>2 DEF SP!TypeOK, SP!Records, SP!States, Service!States
<1>4. p \in Pages
  BY <1>3 DEF NoPage, Pages
<1>5. /\ p.step = "lookup" /\ p.todo = ids /\ p.streams = {}
      /\ p.touched = {id \in ids : Service!Owners(id) # {}}
      /\ \A id \in Sessions :
             p.shown[id] = IF id \in ids THEN repository[id].state ELSE "absent"
  BY DEF NoPage
<1>6. InAnswer(p) = ids
  BY <1>5 DEF InAnswer, SP!Exists
<1> HIDE DEF p
<1>7. pages' \in [Workers -> Pages] /\ pages'[w] = p
  BY <1>1, <1>4 DEF PageInv
<1>8. tasks'[w] = SP!Free /\ UNCHANGED <<repository, tasks>>
  BY <1>1 DEF vars, serviceVars
<1>9. \A id \in ids \ p.touched : SP!Owners(id)' = {}
  BY <1>5, <1>8, OwnersAre DEF SP!Owners
<1>10. PageFits(w)'
  BY <1>1, <1>5, <1>6, <1>7, <1>8 DEF PageFits, InAnswer
<1>11. PageTells(w)'
  BY <1>5, <1>6, <1>7, <1>8, <1>9 DEF PageTells, LeftAlone, InAnswer, Consistent
<1>12. PlanTells(w)' /\ AnswerTells(w)'
  BY <1>5, <1>7, <1>8 DEF PlanTells, AnswerTells
<1> QED
  BY <1>7, <1>10, <1>11, <1>12 DEF PageGood

\* A page that a reader takes further: it still shows the same sessions.
LEMMA PageStep ==
    ASSUME PageInv, NEW w \in Workers, NEW p \in Pages, w \in Readers,
           pages' = [pages EXCEPT ![w] = p],
           p.shown = pages[w].shown, p.touched = pages[w].touched,
           tasks'[w] = SP!Free, pages[w].step = "lookup",
           p.step \in {"lookup", "answered"}, p.todo \subseteq pages[w].todo,
           p.streams \subseteq InAnswer(pages[w]), p.streams \cap p.todo = {},
           p.step = "answered" => p.todo = {},
           p.step = "lookup" =>
               \A id \in LeftAlone(w) :
                   /\ SP!Owners(id)' = {}
                   /\ repository'[id].state = repository[id].state
                   /\ Consistent(p, id),
           p.step = "answered" /\ p.status = "not_found" => p.touched # {},
           p.step = "answered" /\ p.status = "ok" =>
               \A id \in Sessions \ p.touched : Consistent(p, id)
    PROVE  pages' \in [Workers -> Pages] /\ PageGood(w)'
<1>1. pages' \in [Workers -> Pages] /\ pages'[w] = p
  BY DEF PageInv
<1>2. PageFits(w) /\ PageTells(w)
  BY DEF PageInv, PageGood
<1>3. InAnswer(p) = InAnswer(pages[w])
  BY DEF InAnswer
<1>4. PageFits(w)'
  BY <1>1, <1>2, <1>3 DEF PageFits, InAnswer
<1>5. PageTells(w)'
  BY <1>1, <1>2, <1>3 DEF PageTells, LeftAlone, InAnswer, Consistent
<1>6. PlanTells(w)' /\ AnswerTells(w)'
  BY <1>1 DEF PlanTells, AnswerTells, Consistent
<1> QED
  BY <1>1, <1>4, <1>5, <1>6 DEF PageGood

\* One thread's step, by its own page and those of the others.
LEMMA OnePageGood ==
    ASSUME PageInv, [Next]_vars, NEW w \in Workers,
           pages' \in [Workers -> Pages] /\ PageGood(w)',
           \A v \in Workers \ {w} :
               pages'[v] = pages[v] /\ tasks'[v] = tasks[v] /\ calls'[v] = calls[v],
           \A id \in Sessions : SP!Owners(id)' = SP!Owners(id)
    PROVE  \A v \in Workers : PageGood(v)'
<1> SUFFICES ASSUME NEW v \in Workers, v # w PROVE PageGood(v)'
  OBVIOUS
<1>1. Watched(v)
  BY UntouchedIsWatched
<1> QED
  BY <1>1, PageStays

LEMMA WatchGood ==
    ASSUME PageInv, [Next]_vars, Watch, NEW w \in Workers,
           \A v \in Workers \ {w} : tasks'[v] = tasks[v] /\ calls'[v] = calls[v],
           Watched(w) => PageGood(w)'
    PROVE  pages' \in [Workers -> Pages] /\ \A v \in Workers : PageGood(v)'
<1>1. pages' \in [Workers -> Pages] /\ \A v \in Workers : Watched(v)
  BY WatchIs
<1>2. ASSUME NEW v \in Workers, v # w PROVE PageGood(v)'
  BY <1>1, <1>2, PageStays
<1> QED
  BY <1>1, <1>2

\* The steps of a reader that leave the control plane as it is.
LEMMA ReaderGood ==
    ASSUME PageInv, NEW w \in Workers,
           \/ ListSessions(w) \/ Answer(w) \/ Send(w)
           \/ \E id \in Sessions : GetSession(w, id)
           \/ \E id \in pages[w].todo : LookUpGone(w, id) \/ LookUpNotRunning(w, id)
    PROVE  pages' \in [Workers -> Pages] /\ \A v \in Workers : PageGood(v)'
<1>1. /\ IInv /\ SP!TypeOK /\ SP!SettledViewsAgree
      /\ pages[w] \in Pages
      /\ PageFits(w) /\ PageTells(w)
  BY DEF PageInv, IInv, SP!IInv, PageGood
<1>2. /\ UNCHANGED vars
      /\ \E p : pages' = [pages EXCEPT ![w] = p]
  BY DEF ListSessions, Answer, Send, GetSession, ReadRecords, LookUpGone,
         LookUpNotRunning
<1>3. /\ UNCHANGED <<repository, tasks, calls>>
      /\ \A id \in Sessions : SP!Owners(id)' = SP!Owners(id)
  BY <1>2 DEF vars, serviceVars, runtimeVars, SP!Owners
<1>4. \A v \in Workers \ {w} : pages'[v] = pages[v]
  BY <1>2 DEF PageInv
<1>5. ASSUME Looking(w)
      PROVE  tasks'[w] = SP!Free /\ pages[w].step = "lookup" /\ w \in Readers
  BY <1>1, <1>3, <1>5, ServiceTypes, NoPageIs DEF Looking, PageFits
<1>6. CASE ListSessions(w) \/ \E id \in Sessions : GetSession(w, id)
  <2>1. PICK ids \in SUBSET Sessions :
            ReadRecords(w, ids) /\ \A id \in ids : SP!Exists(id)
    <3>1. CASE ListSessions(w)
      <4>1. PICK ids : ids = {id \in Sessions : Service!Exists(id)}
        OBVIOUS
      <4>2. ReadRecords(w, ids)
        BY <3>1, <4>1 DEF ListSessions, ReadRecords
      <4>3. ids \in SUBSET Sessions /\ \A id \in ids : SP!Exists(id)
        BY <4>1 DEF Service!Exists, SP!Exists
      <4> QED
        BY <4>2, <4>3
    <3>2. CASE \E id \in Sessions : GetSession(w, id)
      <4>1. PICK id \in Sessions : Service!Exists(id) /\ ReadRecords(w, {id})
        BY <3>2 DEF GetSession
      <4>2. {id} \in SUBSET Sessions /\ \A i \in {id} : SP!Exists(i)
        BY <4>1 DEF Service!Exists, SP!Exists
      <4> QED
        BY <4>1, <4>2
    <3> QED
      BY <1>6, <3>1, <3>2
  <2>2. pages' \in [Workers -> Pages] /\ PageGood(w)'
    BY <2>1, ReadGood
  <2> QED
    BY <1>2, <1>3, <1>4, <2>2, OnePageGood
<1>7. ASSUME NEW id \in pages[w].todo, LookUpGone(w, id)
      PROVE  pages' \in [Workers -> Pages] /\ PageGood(w)'
  <2> DEFINE p == [pages[w] EXCEPT !.step = "answered", !.todo = {},
                                   !.status = "not_found"]
  <2>1. pages' = [pages EXCEPT ![w] = p] /\ Looking(w) /\ ~SP!Exists(id)
    BY <1>7 DEF LookUpGone, Service!Exists, SP!Exists
  <2>2. /\ p \in Pages /\ p.shown = pages[w].shown /\ p.touched = pages[w].touched
        /\ p.streams = pages[w].streams /\ p.step = "answered" /\ p.todo = {}
        /\ p.status = "not_found"
    BY <1>1 DEF Pages
  <2> HIDE DEF p
  <2>3. id \in InAnswer(pages[w]) /\ id \in Sessions
    BY <1>1, <1>7 DEF PageFits, InAnswer
  <2>4. id \in pages[w].touched
    BY <1>1, <1>5, <2>1, <2>3 DEF PageTells, LeftAlone, InAnswer, SP!Exists
  <2> QED
    BY <1>1, <1>5, <2>1, <2>2, <2>4, PageStep DEF PageFits
<1>8. ASSUME NEW id \in pages[w].todo, LookUpNotRunning(w, id)
      PROVE  pages' \in [Workers -> Pages] /\ PageGood(w)'
  <2> DEFINE p == [pages[w] EXCEPT !.todo = @ \ {id}]
  <2>1. /\ pages' = [pages EXCEPT ![w] = p] /\ Looking(w)
        /\ SP!Exists(id)
        /\ repository[id].state # "running" \/ SP!PhaseFor(id) # "Running"
    BY <1>8 DEF LookUpNotRunning, Service!Exists, SP!Exists, Service!PhaseFor, SP!PhaseFor
  <2>2. /\ p \in Pages /\ p.shown = pages[w].shown /\ p.touched = pages[w].touched
        /\ p.streams = pages[w].streams /\ p.step = pages[w].step
        /\ p.todo = pages[w].todo \ {id} /\ p.status = pages[w].status
    BY <1>1 DEF Pages
  <2> HIDE DEF p
  <2>3. id \in Sessions
    BY <1>1, <1>8 DEF Pages
  <2>4. ASSUME id \in LeftAlone(w) PROVE pages[w].shown[id] # "running"
    <3>1. SP!Owners(id) = {} /\ repository[id].state = pages[w].shown[id]
      BY <1>5, <1>1, <2>1, <2>4 DEF PageTells
    <3>2. SP!Agree(repository[id], phases[id])
      BY <1>1, <2>3, <3>1 DEF SP!SettledViewsAgree
    <3>3. repository[id].state = "running" => phases[id] = "Running"
      BY <3>2 DEF SP!Agree
    <3> QED
      BY <2>1, <3>1, <3>3 DEF SP!PhaseFor
  <2>5. \A i \in LeftAlone(w) :
            /\ SP!Owners(i)' = {}
            /\ repository'[i].state = repository[i].state
            /\ Consistent(p, i)
    BY <1>1, <1>3, <1>5, <2>1, <2>2, <2>4
       DEF PageTells, LeftAlone, InAnswer, Consistent
  <2> QED
    BY <1>1, <1>5, <2>1, <2>2, <2>5, PageStep DEF PageFits
<1>9. ASSUME Answer(w)
      PROVE  pages' \in [Workers -> Pages] /\ PageGood(w)'
  <2> DEFINE p == [pages[w] EXCEPT !.step = "answered", !.status = "ok"]
  <2>1. pages' = [pages EXCEPT ![w] = p] /\ Looking(w) /\ pages[w].todo = {}
    BY <1>9 DEF Answer
  <2>2. /\ p \in Pages /\ p.shown = pages[w].shown /\ p.touched = pages[w].touched
        /\ p.streams = pages[w].streams /\ p.step = "answered"
        /\ p.todo = {} /\ p.status = "ok"
    BY <1>1, <2>1 DEF Pages
  <2> HIDE DEF p
  <2>3. ASSUME NEW id \in Sessions \ p.touched PROVE Consistent(p, id)
    <3>1. CASE id \in InAnswer(pages[w])
      BY <1>1, <1>5, <2>1, <2>2, <2>3, <3>1 DEF PageTells, LeftAlone, Consistent
    <3>2. CASE id \notin InAnswer(pages[w])
      BY <1>1, <2>2, <2>3, <3>2 DEF PageFits, InAnswer, Consistent
    <3> QED
      BY <3>1, <3>2
  <2> QED
    BY <1>1, <1>5, <2>1, <2>2, <2>3, PageStep DEF PageFits
<1>10. ASSUME Send(w)
       PROVE  pages' \in [Workers -> Pages] /\ PageGood(w)'
  <2>1. /\ pages[w].step = "answered" /\ pages' = [pages EXCEPT ![w] = NoPage]
    BY <1>10 DEF Send
  <2>2. pages' \in [Workers -> Pages] /\ pages'[w] = NoPage
    BY <2>1, NoPageIs DEF PageInv
  <2>3. PageFits(w)'
    BY <1>1, <1>3, <2>1, <2>2, NoPageIs DEF PageFits, InAnswer
  <2> QED
    BY <2>2, <2>3, NoPageIs DEF PageGood, PageTells, PlanTells, AnswerTells
<1> QED
  BY <1>2, <1>3, <1>4, <1>6, <1>7, <1>8, <1>9, <1>10, OnePageGood

\* A thread with a page is in the service for one look at the streams of a
\* session on its page.
LEMMA ReaderTask ==
    ASSUME PageInv, NEW w \in Workers, pages[w] # NoPage, tasks[w] # SP!Free
    PROVE  /\ tasks[w].op = "plan" /\ tasks[w].step = "plan"
           /\ tasks[w].id \in Sessions
           /\ pages[w].step = "lookup" /\ tasks[w].id \in pages[w].todo
<1>1. PageFits(w) /\ SP!TypeOK
  BY DEF PageInv, PageGood, IInv, SP!IInv
<1>2. /\ tasks[w].op = "plan" /\ tasks[w].id \in Sessions
      /\ tasks[w].step \in SP!Script(tasks[w].op)
  BY <1>1 DEF PageFits, SP!TypeOK, SP!WellFormed
<1>3. SP!Script("plan") = {"plan"}
  BY SP!OpsScripts, ControlPlaneAssumption DEF SP!StreamOps
<1> QED
  BY <1>1, <1>2, <1>3 DEF PageFits

\* A reader's call goes on.
LEMMA PlanGoesOn ==
    ASSUME PageInv, [Next]_vars, NEW w \in Workers, Watched(w), pages[w] # NoPage,
           tasks[w] # SP!Free, tasks'[w] = tasks[w], NEW id, id = tasks[w].id,
           id \in LeftAlone(w)' =>
               /\ calls'[w].pc = "enter" => calls'[w].resource = resources'[id]
               /\ calls'[w].pc = "returned" /\ Authored[id] # {} => calls'[w].got # {}
    PROVE  PageGood(w)'
<1>1. /\ PageFits(w) /\ PlanTells(w)
      /\ pages[w].step = "lookup" /\ id \in Sessions
  BY ReaderTask DEF PageInv, PageGood
<1>2. PageTells(w)' /\ LeftAlone(w)' \subseteq LeftAlone(w)
  BY TellsStays
<1>3. PageFits(w)'
  BY <1>1 DEF PageFits, Watched, InAnswer
<1>4. PlanTells(w)'
  BY <1>1, <1>2 DEF PlanTells, Watched
<1>5. AnswerTells(w)'
  BY <1>1 DEF AnswerTells, Watched
<1> QED
  BY <1>2, <1>3, <1>4, <1>5 DEF PageGood

\* The manager answers a lookup of a session left alone with its streams.
LEMMA PlanStepGood ==
    ASSUME PageInv, [Next]_vars, NEW w \in Workers, Watched(w), RuntimeStep(w)
    PROVE  PageGood(w)'
<1> SUFFICES ASSUME pages[w] # NoPage PROVE PageGood(w)'
  BY NoPageGood
<1>1. /\ SP!TypeOK /\ RP!Types /\ RP!EveryStreamBound /\ Linked /\ SettledMatch
      /\ PageTells(w) /\ PlanTells(w)
  BY DEF PageInv, IInv, SP!IInv, RP!IInv, PageGood
<1>2. RP!Step(w) /\ tasks'[w] = tasks[w]
  BY RuntimeActions DEF RuntimeStep, serviceVars
<1>3. calls[w] # RP!NoCall
  BY <1>1, <1>2, RP!StepIs, ControlPlaneAssumption
<1>4. /\ calls[w].method = tasks[w].step /\ calls[w].id = tasks[w].id
      /\ tasks[w] # SP!Free
  BY <1>1, <1>3, CallIsTask, MethodsAre DEF SP!Free
<1>5. PICK id \in Sessions : id = tasks[w].id
  BY <1>4, ReaderTask
<1>6. calls[w].method = "plan" /\ calls[w].id = id /\ pages[w].step = "lookup"
  BY <1>4, <1>5, ReaderTask
<1>7. ASSUME id \in LeftAlone(w)'
      PROVE  /\ calls'[w].pc = "enter" => calls'[w].resource = resources'[id]
             /\ calls'[w].pc = "returned" /\ Authored[id] # {} => calls'[w].got # {}
  <2>1. id \in LeftAlone(w) /\ resources'[id] = resources[id]
    BY <1>6, <1>7, TellsStays
  <2>2. /\ repository[id].state = "running" /\ SP!Owners(id) = {}
        /\ calls[w].pc = "enter" => calls[w].resource = resources[id]
    BY <1>1, <1>4, <1>5, <1>6, <2>1 DEF PageTells, PlanTells
  <2>3. resources[id] # None /\ RP!Serving(heap[resources[id]])
    BY <1>1, <2>2 DEF SettledMatch, Matches, RP!Up
  <2>4. Authored[id] # {} => heap[resources[id]].bindings # {}
    BY <1>1, <2>3 DEF RP!EveryStreamBound, RP!Serving
  <2>5. \/ calls'[w].pc = "enter" /\ calls'[w].resource = resources[id]
        \/ /\ calls[w].pc = "enter" /\ calls'[w].pc = "returned"
           /\ calls'[w].got = IF RP!Serving(RP!Mine(w)) THEN RP!Mine(w).bindings ELSE {}
    BY <1>1, <1>2, <1>6, <2>3, RP!PlanIs, ControlPlaneAssumption
  <2> QED
    BY <2>1, <2>2, <2>3, <2>4, <2>5 DEF RP!Mine
<1> QED
  BY <1>2, <1>4, <1>5, <1>7, PlanGoesOn

\* What a reader takes from the manager.
LEMMA TakePlanIs ==
    ASSUME PageInv, NEW w \in Workers, pages[w] # NoPage, Return(w)
    PROVE  /\ tasks'[w] = SP!Free /\ tasks[w] # SP!Free
           /\ calls[w].pc = "returned"
           /\ UNCHANGED repository
           /\ \A v \in Workers \ {w} : tasks'[v] = tasks[v] /\ calls'[v] = calls[v]
           /\ \A id \in Sessions : SP!Owners(id)' = SP!Owners(id)
<1>1. SP!TypeOK /\ RP!Types /\ Linked
  BY DEF PageInv, IInv, SP!IInv, RP!IInv
<1>2. /\ calls[w].pc = "returned" /\ tasks[w].step \in SP!Methods
      /\ \A v \in Workers \ {w} : tasks'[v] = tasks[v] /\ calls'[v] = calls[v]
  BY <1>1, ReturnIs
<1>3. tasks[w] # SP!Free
  BY <1>2, MethodsAre DEF SP!Free
<1>4. tasks[w].op = "plan" /\ tasks[w].step = "plan"
  BY <1>3, ReaderTask
<1>5. SP!RuntimeReturns(w, calls[w].outcome)
  BY ServiceActions DEF Return
<1>6. tasks'[w] = SP!Free /\ UNCHANGED repository
  BY <1>1, <1>4, <1>5, MethodsAre
     DEF SP!RuntimeReturns, SP!RuntimeOk, SP!RuntimeThrows, SP!RuntimeTransient,
         SP!Release, SP!TypeOK
<1>7. \A id \in Sessions : SP!Owners(id)' = SP!Owners(id)
  BY <1>2, <1>4, <1>6, MethodsAre DEF SP!Owners, SP!Free
<1> QED
  BY <1>2, <1>3, <1>6, <1>7

LEMMA TakePlanGood ==
    ASSUME PageInv, [Next]_vars, NEW w \in Workers, TakePlan(w)
    PROVE  pages' \in [Workers -> Pages] /\ \A v \in Workers : PageGood(v)'
<1>1. /\ pages[w] \in Pages
      /\ PageFits(w) /\ PageTells(w) /\ PlanTells(w)
  BY DEF PageInv, PageGood
<1>2. /\ pages[w].step = "lookup" /\ pages[w] # NoPage
      /\ Return(w) /\ w \in Readers
  BY <1>1, NoPageIs DEF TakePlan, PageFits
<1>3. /\ tasks'[w] = SP!Free /\ tasks[w] # SP!Free /\ calls[w].pc = "returned"
      /\ UNCHANGED repository
      /\ \A v \in Workers \ {w} : tasks'[v] = tasks[v] /\ calls'[v] = calls[v]
      /\ \A id \in Sessions : SP!Owners(id)' = SP!Owners(id)
  BY <1>2, TakePlanIs
<1>4. PICK id \in Sessions : id = tasks[w].id
  BY <1>2, <1>3, ReaderTask
<1>5. id \in pages[w].todo /\ id \in InAnswer(pages[w])
  BY <1>1, <1>2, <1>3, <1>4, ReaderTask DEF PageFits
<1> DEFINE p == [pages[w] EXCEPT
                     !.todo = @ \ {id},
                     !.streams = IF calls[w].got # {} THEN @ \cup {id} ELSE @]
<1>6. pages' = [pages EXCEPT ![w] = p]
  BY <1>4 DEF TakePlan
<1>7. /\ p \in Pages /\ p.shown = pages[w].shown /\ p.touched = pages[w].touched
      /\ p.step = "lookup" /\ p.todo = pages[w].todo \ {id}
      /\ p.streams = IF calls[w].got # {} THEN pages[w].streams \cup {id}
                                         ELSE pages[w].streams
  BY <1>1, <1>2 DEF Pages
<1> HIDE DEF p
<1>8. ASSUME NEW i \in LeftAlone(w)
      PROVE  /\ SP!Owners(i)' = {}
             /\ repository'[i].state = repository[i].state
             /\ Consistent(p, i)
  <2>1. SP!Owners(i) = {} /\ Consistent(pages[w], i) /\ i \in Sessions
    BY <1>1, <1>2, <1>8 DEF PageTells, LeftAlone, InAnswer
  <2>2. CASE i = id
    <3>1. /\ pages[w].shown[id] = "running"
          /\ Authored[id] # {} => calls[w].got # {}
      BY <1>1, <1>2, <1>3, <1>4, <1>8, <2>2 DEF PlanTells
    <3> QED
      BY <1>3, <1>7, <2>1, <2>2, <3>1 DEF Consistent
  <2>3. CASE i # id
    BY <1>3, <1>7, <2>1, <2>3 DEF Consistent
  <2> QED
    BY <2>2, <2>3
<1>9. p.streams \subseteq InAnswer(pages[w]) /\ p.streams \cap p.todo = {}
  BY <1>1, <1>5, <1>7 DEF PageFits
<1>10. pages' \in [Workers -> Pages] /\ PageGood(w)'
  BY <1>2, <1>3, <1>6, <1>7, <1>8, <1>9, PageStep
<1>11. \A v \in Workers \ {w} : pages'[v] = pages[v]
  BY <1>6 DEF PageInv
<1> QED
  BY <1>3, <1>10, <1>11, OnePageGood

\* The lookup of a session that is running begins.
LEMMA LookUpRunningGood ==
    ASSUME PageInv, [Next]_vars, NEW w \in Workers, NEW id \in pages[w].todo,
           LookUpRunning(w, id)
    PROVE  pages' \in [Workers -> Pages] /\ \A v \in Workers : PageGood(v)'
<1>1. /\ SP!TypeOK /\ RP!Types /\ Linked /\ pages[w] \in Pages
      /\ PageFits(w) /\ PageTells(w)
  BY DEF PageInv, PageGood, IInv, SP!IInv, RP!IInv
<1>2. /\ pages[w].step = "lookup" /\ w \in Readers /\ id \in Sessions
      /\ tasks[w] = SP!Free
  BY <1>1, ServiceTypes, NoPageIs DEF LookUpRunning, Looking, PageFits, Pages
<1>3. /\ repository[id].state = "running" /\ UNCHANGED repository
      /\ tasks' = [tasks EXCEPT ![w] =
             [op |-> "plan", id |-> id, step |-> "plan", seen |-> repository[id].state,
              attempt |-> 0]]
      /\ UNCHANGED calls /\ Watch
  BY DEF LookUpRunning, Service!StreamBegin, Service!Accept, runtimeVars
<1>4. /\ tasks'[w].op = "plan" /\ tasks'[w].id = id
      /\ \A v \in Workers \ {w} : tasks'[v] = tasks[v]
  BY <1>1, <1>3 DEF SP!TypeOK
<1>5. calls[w] = RP!NoCall
  BY <1>1, <1>2, NoCallOutside, MethodsAre DEF SP!Free
<1>6. ASSUME Watched(w) PROVE PageGood(w)'
  <2>1. PageTells(w)' /\ LeftAlone(w)' \subseteq LeftAlone(w)
    BY <1>6, TellsStays
  <2>2. PageFits(w)'
    BY <1>1, <1>2, <1>4, <1>6 DEF PageFits, Watched, InAnswer
  <2>3. calls'[w].pc = "idle"
    BY <1>3, <1>5 DEF RP!NoCall
  <2>4. id \in LeftAlone(w) => pages[w].shown[id] = "running"
    BY <1>1, <1>2, <1>3 DEF PageTells
  <2>5. PlanTells(w)'
    BY <1>4, <1>6, <2>1, <2>3, <2>4 DEF PlanTells, Watched
  <2>6. AnswerTells(w)'
    BY <1>2, <1>6 DEF AnswerTells, Watched
  <2> QED
    BY <2>1, <2>2, <2>5, <2>6 DEF PageGood
<1> QED
  BY <1>3, <1>4, <1>6, WatchGood

\* A request that takes no page begins like any other.
LEMMA RequestIsBegin ==
    ASSUME NEW w \in Workers, NEW id \in Sessions,
           LifecycleBegin(w, id) \/ StreamRequest(w, id)
    PROVE  Begin(w, id)
<1>1. CASE LifecycleBegin(w, id)
  BY <1>1 DEF LifecycleBegin, Service!Begin, Begin
<1>2. CASE StreamRequest(w, id)
  BY <1>2 DEF StreamRequest, Service!Begin, Service!StreamOps, Begin
<1> QED
  BY <1>1, <1>2

\* The other steps of the control plane.
LEMMA WatchedStepGood ==
    ASSUME PageInv, [Next]_vars, NEW w \in Workers, Watch,
           \/ \E id \in Sessions : LifecycleBegin(w, id) \/ StreamRequest(w, id)
           \/ Call(w) \/ RuntimeStep(w) \/ Commit(w)
           \/ Return(w) /\ pages[w] = NoPage
    PROVE  pages' \in [Workers -> Pages] /\ \A v \in Workers : PageGood(v)'
<1>1. SP!TypeOK /\ RP!Types /\ Linked /\ PageFits(w)
  BY DEF PageInv, PageGood, IInv, SP!IInv, RP!IInv
<1>2. ASSUME NEW id \in Sessions, LifecycleBegin(w, id) \/ StreamRequest(w, id)
      PROVE  /\ pages[w] = NoPage
             /\ \A v \in Workers \ {w} : tasks'[v] = tasks[v] /\ calls'[v] = calls[v]
  <2>1. pages[w] = NoPage /\ UNCHANGED calls
    BY <1>1, <1>2 DEF LifecycleBegin, StreamRequest, PageFits, runtimeVars
  <2>2. Begin(w, id)
    BY <1>2, RequestIsBegin
  <2> QED
    BY <1>1, <2>1, <2>2, BeginIs
<1>3. CASE Call(w)
  <2>1. PICK method, id : RP!Invoke(w, method, id)
    BY <1>3, RuntimeActions DEF Call
  <2>2. /\ calls'[w].pc = "lookup"
        /\ \A v \in Workers \ {w} : calls'[v] = calls[v]
    BY <1>1, <2>1, RP!InvokeIs, ControlPlaneAssumption
  <2>3. UNCHANGED tasks /\ tasks[w] # SP!Free
    BY <1>3, ServiceTypes, MethodsAre DEF Call, serviceVars, SP!Free
  <2>4. ASSUME Watched(w) PROVE PageGood(w)'
    BY <2>2, <2>3, <2>4, NoPageGood, PlanGoesOn
  <2> QED
    BY <2>2, <2>3, <2>4, WatchGood
<1>4. CASE RuntimeStep(w)
  <2>1. RP!Step(w) /\ UNCHANGED tasks
    BY <1>4, RuntimeActions DEF RuntimeStep, serviceVars
  <2>2. \A v \in Workers \ {w} : calls'[v] = calls[v]
    BY <1>1, <2>1, RP!StepIs, ControlPlaneAssumption
  <2> QED
    BY <1>4, <2>1, <2>2, PlanStepGood, WatchGood
<1>5. CASE Commit(w)
  <2>1. SP!Commit(w) /\ UNCHANGED calls
    BY <1>5, ServiceActions DEF Commit, runtimeVars
  <2>2. /\ tasks[w].step = "commit"
        /\ \A v \in Workers \ {w} : tasks'[v] = tasks[v]
    BY <1>1, <2>1 DEF SP!Commit, SP!CommitStart, SP!CommitStop, SP!CommitRemove,
                      SP!Release, SP!TypeOK
  <2>3. pages[w] = NoPage
    BY <2>2, ReaderTask DEF SP!Free
  <2> QED
    BY <2>1, <2>2, <2>3, NoPageGood, WatchGood
<1>6. CASE Return(w) /\ pages[w] = NoPage
  <2>1. /\ tasks[w].step \in SP!Methods
        /\ \A v \in Workers \ {w} : tasks'[v] = tasks[v] /\ calls'[v] = calls[v]
    BY <1>1, <1>6, ReturnIs
  <2> QED
    BY <1>6, <2>1, NoPageGood, WatchGood
<1>7. CASE \E id \in Sessions : LifecycleBegin(w, id) \/ StreamRequest(w, id)
  BY <1>2, <1>7, NoPageGood, WatchGood
<1> QED
  BY <1>3, <1>4, <1>5, <1>6, <1>7

LEMMA CreateGood ==
    ASSUME PageInv, [Next]_vars, NEW id \in Sessions, Create(id), Watch
    PROVE  pages' \in [Workers -> Pages] /\ \A v \in Workers : PageGood(v)'
<1>1. UNCHANGED <<tasks, calls>>
  BY DEF Create, Service!Create, runtimeVars
<1> QED
  BY <1>1, WatchIs, PageStays

\* Every step of the readers is one of the control plane, or leaves it alone.
LEMMA PageStepIsNext == PageInv /\ (Requests \/ UNCHANGED pageVars) => [Next]_vars
<1> SUFFICES ASSUME PageInv, Requests \/ UNCHANGED pageVars PROVE [Next]_vars
  OBVIOUS
<1>1. CASE UNCHANGED pageVars
  BY <1>1 DEF pageVars
<1>2. ASSUME NEW w \in Workers,
             \/ ListSessions(w) \/ Answer(w) \/ Send(w)
             \/ \E id \in Sessions : GetSession(w, id)
             \/ \E id \in pages[w].todo : LookUpGone(w, id) \/ LookUpNotRunning(w, id)
      PROVE  UNCHANGED vars
  BY <1>2 DEF ListSessions, Answer, Send, GetSession, ReadRecords, LookUpGone,
              LookUpNotRunning
<1>3. ASSUME NEW w \in Workers, NEW id \in Sessions,
             LifecycleBegin(w, id) \/ StreamRequest(w, id)
      PROVE  Next
  BY <1>3, RequestIsBegin DEF Next
<1>4. ASSUME NEW w \in Workers, NEW id \in pages[w].todo, LookUpRunning(w, id) PROVE Next
  <2>1. id \in Sessions
    BY <1>4 DEF PageInv, Pages
  <2> QED
    BY <1>4, <2>1 DEF LookUpRunning, Service!Begin, Service!StreamOps, Begin, Next
<1>5. ASSUME NEW w \in Workers, TakePlan(w) PROVE Next
  BY <1>5 DEF TakePlan, Next
<1> QED
  BY <1>1, <1>2, <1>3, <1>4, <1>5 DEF Requests, Next

\* A process that starts anew has no pages.
LEMMA ProcessEndsGood ==
    ASSUME NEW w \in Workers, ProcessEnds(w)
    PROVE  PageInv'
<1>1. IInv' /\ \A v \in Workers : tasks'[v] = SP!Free
  BY RestartedIs, RestartedIInv DEF ProcessEnds
<1>2. pages' = [v \in Workers |-> NoPage]
  BY DEF ProcessEnds
<1>3. \A v \in Workers : PageGood(v)'
  BY <1>1, <1>2, NoPageIs DEF PageGood, PageFits, PageTells, PlanTells, AnswerTells
<1> QED
  BY <1>1, <1>2, <1>3, NoPageIs DEF PageInv

LEMMA PageInvNext == PageInv /\ [PageNext]_pageVars => PageInv'
<1> SUFFICES ASSUME PageInv, Requests \/ UNCHANGED pageVars PROVE PageInv'
  BY ProcessEndsGood DEF PageNext
<1>1. [Next]_vars /\ IInv /\ IInv'
  BY PageStepIsNext, StepKeepsIInv DEF PageInv
<1>2. pages' \in [Workers -> Pages] /\ \A v \in Workers : PageGood(v)'
  <2>1. CASE UNCHANGED pageVars
    <3>1. UNCHANGED <<pages, tasks, calls>> /\ \A id : SP!Owners(id)' = SP!Owners(id)
      BY <2>1 DEF pageVars, vars, serviceVars, runtimeVars, SP!Owners
    <3> QED
      BY <1>1, <3>1, UntouchedIsWatched, PageStays DEF PageInv
  <2> QED
    BY <1>1, <2>1, CreateGood, WatchedStepGood, ReaderGood, LookUpRunningGood,
       TakePlanGood DEF Requests
<1> QED
  BY <1>1, <1>2 DEF PageInv

LEMMA InitPageInv == PageInit => PageInv
<1> SUFFICES ASSUME PageInit PROVE PageInv
  OBVIOUS
<1>1. IInv
  BY InitIInv DEF PageInit
<1>2. \A w \in Workers : tasks[w] = SP!Free /\ pages[w] = NoPage
  BY ServiceActions DEF PageInit, Init, SP!Init
<1>3. \A w \in Workers : PageGood(w)
  BY <1>2, NoPageIs DEF PageGood, PageFits, PageTells, PlanTells, AnswerTells
<1> QED
  BY <1>1, <1>3, NoPageIs DEF PageInit, PageInv

\* The control plane's invariant, and what pages and lookups under way tell of
\* the sessions that are left alone.
THEOREM PageInvariant == PageSpec => []PageInv
<1> QED
  BY InitPageInv, PageInvNext, PTL DEF PageSpec

\* A page gives streams only of sessions that are in the answer, and is complete
\* when it is sent.
THEOREM PagesTypeCorrect == PageSpec => []PageTypeOK
<1>1. IInv => TypeOK
  BY ServiceTypes, RuntimeTypes
     DEF IInv, TypeOK, SP!IInv, RP!IInv, RP!Types, Linked
<1>2. PageInv => PageTypeOK
  BY <1>1 DEF PageInv, PageGood, PageFits, PageTypeOK, Pages
<1> QED
  BY <1>2, PageInvariant, PTL

\* An answer is put together from several looks at the control plane, with the
\* lifecycle operations of others in between. About a session that was in none
\* of them it is right: shown running exactly if its streams, if any, are given.
THEOREM LeftAloneIsShownRight == PageSpec => []LeftAloneShownRight
<1>1. PageInv => LeftAloneShownRight
  BY DEF PageInv, PageGood, PageFits, AnswerTells, Consistent, LeftAloneShownRight
<1> QED
  BY <1>1, PageInvariant, PTL

-----------------------------------------------------------------------------
(* Both at once. *)

\* The thread that begins a request is the one whose task changes.
LEMMA BeginChanges ==
    ASSUME SP!TypeOK, NEW w \in Workers, NEW id \in Sessions, Begin(w, id)
    PROVE  tasks'[w] # tasks[w]
<1>1. SP!Begin(w, id)
  BY ServiceActions DEF Begin
<1>2. ASSUME NEW op, NEW step, SP!Accept(w, op, id, step), step # "none",
             tasks[w] = SP!Free
      PROVE  tasks'[w] # tasks[w]
  <2>1. tasks'[w].step = step /\ tasks[w].step = "none"
    BY <1>2 DEF SP!Accept, SP!TypeOK, SP!Free
  <2> QED
    BY <1>2, <2>1
<1>3. /\ SP!FirstStep(id) # "none"
      /\ "none" \notin SP!StreamOps \cup SP!SettingsOps
  BY DEF SP!FirstStep, SP!StreamOps, SP!SettingsOps
<1> QED
  BY <1>1, <1>2, <1>3
     DEF SP!Begin, SP!StartBegin, SP!StopBegin, SP!RestartBegin, SP!RemoveBegin,
         SP!StreamBegin, SP!SettingsBegin

\* A thread in a call of the service has no upgrade.
LEMMA RequestsWithUpgrades ==
    ASSUME SP!TypeOK, Requests, OneRequest, UNCHANGED upgrades,
           \A w \in Workers : pages[w].todo \subseteq Sessions
    PROVE  [StreamNext]_streamVars
<1>1. ASSUME NEW w \in Workers, NEW id \in Sessions, Begin(w, id)
      PROVE  Request(w, id)
  <2>1. tasks'[w] # tasks[w]
    BY <1>1, BeginChanges
  <2> QED
    BY <1>1, <2>1 DEF OneRequest, Request
<1>2. ASSUME NEW w \in Workers,
             \/ ListSessions(w) \/ Answer(w) \/ Send(w)
             \/ \E id \in Sessions : GetSession(w, id)
             \/ \E id \in pages[w].todo : LookUpGone(w, id) \/ LookUpNotRunning(w, id)
      PROVE  UNCHANGED streamVars
  BY <1>2 DEF ListSessions, Answer, Send, GetSession, ReadRecords, LookUpGone,
              LookUpNotRunning, streamVars
<1>3. ASSUME NEW w \in Workers, NEW id \in Sessions,
             LifecycleBegin(w, id) \/ StreamRequest(w, id)
      PROVE  StreamNext
  BY <1>1, <1>3, RequestIsBegin DEF StreamNext
<1>4. ASSUME NEW w \in Workers, NEW id \in pages[w].todo, LookUpRunning(w, id)
      PROVE  StreamNext
  <2>1. id \in Sessions /\ Begin(w, id)
    BY <1>4 DEF LookUpRunning, Service!Begin, Service!StreamOps, Begin
  <2> QED
    BY <1>1, <2>1 DEF StreamNext
<1>5. ASSUME NEW w \in Workers, TakePlan(w) PROVE StreamNext
  BY <1>5 DEF TakePlan, StreamNext
<1> QED
  BY <1>2, <1>3, <1>4, <1>5 DEF Requests, StreamNext

LEMMA RouteStepIs ==
    ASSUME PageInv, [RouteNext]_routeVars
    PROVE  [PageNext]_pageVars /\ [StreamNext]_streamVars
<1>1. SP!TypeOK /\ \A w \in Workers : pages[w].todo \subseteq Sessions
  BY DEF PageInv, IInv, SP!IInv, Pages
<1>2. CASE Requests /\ OneRequest /\ UNCHANGED upgrades
  BY <1>1, <1>2, RequestsWithUpgrades DEF PageNext
<1>3. ASSUME NEW w \in Workers, TakeRoute(w), pages[w] = NoPage, Watch
      PROVE  PageNext /\ StreamNext
  BY <1>3 DEF TakeRoute, PageNext, Requests, StreamNext
<1>4. ASSUME NEW w \in Workers, Attach(w) \/ AttachFails(w) \/ BridgeEnds(w),
             UNCHANGED pages
      PROVE  UNCHANGED pageVars /\ StreamNext
  BY <1>4 DEF Attach, AttachFails, BridgeEnds, pageVars, StreamNext
<1>5. ASSUME NEW w \in Workers, UpgradeTargetThrows(w), ProcessEnds(w)
      PROVE  PageNext /\ StreamNext
  BY <1>5 DEF PageNext, StreamNext
<1>6. CASE UNCHANGED routeVars
  BY <1>6 DEF routeVars, pageVars, streamVars
<1> QED
  BY <1>2, <1>3, <1>4, <1>5, <1>6 DEF RouteNext

\* Threads that serve pages and upgrades at once do what HttpSessions.tla and
\* HttpStreamRoutes.tla say of either, so that what holds of the two holds of
\* both together: answers are right about the sessions left alone, and streams
\* go astray only after their session has lost the port.
THEOREM RoutesComposed ==
    RouteSpec => /\ PageSpec /\ StreamSpec
                 /\ []LeftAloneShownRight /\ StrayOnlyAfterRelease
<1>1. RouteInit => PageInit /\ StreamInit
  BY DEF RouteInit, PageInit, StreamInit
<1>2. PageInv /\ [RouteNext]_routeVars => [PageNext]_pageVars /\ [StreamNext]_streamVars
  BY RouteStepIs
<1>3. RouteSpec => PageSpec /\ StreamSpec
  BY <1>1, <1>2, InitPageInv, PageInvNext, PTL DEF RouteSpec, PageSpec, StreamSpec
<1> QED
  BY <1>3, LeftAloneIsShownRight, StraysAfterRelease, PTL

=============================================================================
