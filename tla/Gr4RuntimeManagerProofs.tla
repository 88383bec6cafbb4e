----------------------- MODULE Gr4RuntimeManagerProofs -----------------------
(***************************************************************************)
(* Theorems about Gr4RuntimeManager.tla for every set of sessions, threads,*)
(* streams, ports and objects, and whatever loader, scheduler and sockets  *)
(* throw.                                                                  *)
(***************************************************************************)
EXTENDS Gr4RuntimeManager, TLAPS

\* The places a call of each method passes through.
Path(method) ==
    CASE method = "prepare" -> {"lookup", "enter", "allocate", "returned"}
      [] method = "start" -> {"lookup", "enter", "allocate", "launch", "returned"}
      [] method = "stop" -> {"lookup", "enter", "halt", "returned"}
      [] method = "destroy" -> {"lookup", "enter", "halt", "erase", "returned"}
      [] method = "fetch" -> {"lookup", "enter", "connect", "returned"}
      [] method = "settings" -> {"lookup", "enter", "reply", "returned"}
      [] OTHER -> {"lookup", "enter", "returned"}

\* Where a call refers to an object, and where it may have bindings of its own.
Inside == {"enter", "erase"} \cup Holding

Carrying == {"allocate", "connect", "returned"}

WellFormed(call) ==
    \/ call = NoCall
    \/ /\ call.method \in Methods
       /\ call.id \in Sessions
       /\ call.pc \in Path(call.method)
       /\ call.pc \in Inside <=> call.resource # None
       /\ call.got # {} => call.pc \in Carrying

Types == TypeOK /\ \A w \in Workers : WellFormed(calls[w])

\* What the thread that holds an object's mutex may rely on until it gives the
\* mutex up: that the object is as it left it.
Knows(pc, object) ==
    /\ pc = "allocate" => object = Fresh
    /\ pc = "launch" => object.phase = "Starting" /\ object.execution # "none"
    /\ pc = "halt" => object.phase = "Stopping" /\ object.execution = "running"
    /\ pc = "reply" => Serving(object)

HolderKnows == \A w \in Workers : Knows(calls[w].pc, Mine(w))

\* ObjectsConsistent, of one object.
Consistent(object) ==
    /\ object.execution = "none" => object.phase = "Idle" /\ object.bindings = {}
    /\ object.phase = "Running" => object.execution = "running"
    /\ object.phase = "Stopping" => "foreign" \in Exceptions

\* What CallerAllowed keeps.
OneCaller ==
    \A v, w \in Workers :
        calls[v].method \in Lifecycle /\ calls[w].method \in Lifecycle
            /\ calls[v].id = calls[w].id => v = w

OneEntry ==
    \A i, j \in Sessions : resources[i] = resources[j] /\ resources[i] # None => i = j

\* A lifecycle call works on the object that the map names for its session,
\* up to its end: nobody else erases that entry or makes a new one.
EntryStands ==
    \A w \in Workers :
        calls[w].method \in Lifecycle /\ calls[w].resource # None =>
            resources[calls[w].id] = calls[w].resource

Empty(object) == object.execution = "none" /\ object.bindings = {}

\* Objects that the map does not name have nothing left, whether or not a call
\* still refers to them, and an object that is about to be erased either.
ErasedEmpty ==
    /\ \A r \in Resources : (\A id \in Sessions : resources[id] # r) => Empty(heap[r])
    /\ \A w \in Workers : At(w, "erase") => Empty(Mine(w))

Locking == MutexDiscipline /\ HolderKnows /\ ObjectsConsistent

Entries == OneCaller /\ OneEntry /\ EntryStands /\ ErasedEmpty

\* What the runtime has of a session, and what a lifecycle call that returns
\* without an error leaves it with.
Up(id) == resources[id] # None /\ Serving(heap[resources[id]])

Clean(id) == resources[id] # None => Empty(heap[resources[id]])

Gone(id) == resources[id] = None

Done(method, id) ==
    /\ method = "start" => Up(id)
    /\ method = "stop" => Clean(id)
    /\ method = "destroy" => Gone(id)

\* It is still so when the caller takes the answer.
OkMeansDone ==
    \A w \in Workers :
        At(w, "returned") /\ calls[w].outcome = "ok" => Done(calls[w].method, calls[w].id)

\* A fetch connects to one endpoint, that of a stream over HTTP, and a route
\* answers with one, that of a websocket.
OneEndpoint ==
    \A w \in Workers :
        /\ At(w, "connect") =>
               \E s \in Streams \ Websocket, p \in Ports : calls[w].got = {<<s, p>>}
        /\ At(w, "returned") /\ calls[w].method = "route" /\ calls[w].outcome = "ok" =>
               \E s \in Websocket, p \in Ports : calls[w].got = {<<s, p>>}

\* An execution has an endpoint for every managed stream of its graph.
EveryStreamBound ==
    \A id \in Sessions :
        resources[id] # None /\ heap[resources[id]].execution # "none" =>
            \A s \in Authored[id] : \E b \in heap[resources[id]].bindings : b[1] = s

IInv ==
    /\ Types
    /\ Locking
    /\ Entries
    /\ PortsExclusive
    /\ NoPortLeaked
    /\ OkMeansDone
    /\ OneEndpoint
    /\ EveryStreamBound

-----------------------------------------------------------------------------
(* Types. What a step makes of a call, an object and an owner. *)

LEMMA Names ==
    /\ \A m \in Methods : {"lookup", "enter", "returned"} \subseteq Path(m) /\ Path(m) \subseteq Pcs
    /\ Path("prepare") = {"lookup", "enter", "allocate", "returned"}
    /\ Path("start") = {"lookup", "enter", "allocate", "launch", "returned"}
    /\ Path("stop") = {"lookup", "enter", "halt", "returned"}
    /\ Path("destroy") = {"lookup", "enter", "halt", "erase", "returned"}
    /\ Path("fetch") = {"lookup", "enter", "connect", "returned"}
    /\ Path("settings") = {"lookup", "enter", "reply", "returned"}
    /\ Path("plan") = {"lookup", "enter", "returned"}
    /\ Path("route") = {"lookup", "enter", "returned"}
<1>1. /\ Path("prepare") = {"lookup", "enter", "allocate", "returned"}
      /\ Path("start") = {"lookup", "enter", "allocate", "launch", "returned"}
      /\ Path("stop") = {"lookup", "enter", "halt", "returned"}
      /\ Path("destroy") = {"lookup", "enter", "halt", "erase", "returned"}
  BY DEF Path
<1>2. /\ Path("fetch") = {"lookup", "enter", "connect", "returned"}
      /\ Path("settings") = {"lookup", "enter", "reply", "returned"}
      /\ Path("plan") = {"lookup", "enter", "returned"}
      /\ Path("route") = {"lookup", "enter", "returned"}
  BY DEF Path
<1> QED
  BY <1>1, <1>2 DEF Methods, Lifecycle, Reads, Settings, Pcs

LEMMA NoCallType == NoCall \in Calls /\ WellFormed(NoCall) /\ NoCall.pc = "idle"
  BY DEF NoCall, Calls, WellFormed, Bindings, Pcs

\* A call under way.
LEMMA CallShape ==
    ASSUME Types, NEW w \in Workers, calls[w].pc # "idle"
    PROVE  /\ calls[w] \in Calls
           /\ calls[w].method \in Methods
           /\ calls[w].id \in Sessions
           /\ calls[w].pc \in Path(calls[w].method)
           /\ calls[w].pc \in Inside <=> calls[w].resource # None
           /\ calls[w].got # {} => calls[w].pc \in Carrying
  BY NoCallType DEF Types, TypeOK, WellFormed

LEMMA CallStep ==
    ASSUME Types, NEW w \in Workers, NEW c \in Calls, WellFormed(c),
           calls' = [calls EXCEPT ![w] = c]
    PROVE  /\ calls' \in [Workers -> Calls]
           /\ \A v \in Workers : WellFormed(calls'[v])
  BY DEF Types, TypeOK

LEMMA AnswerType ==
    ASSUME Types, NEW w \in Workers, calls[w].pc # "idle",
           NEW outcome \in {"ok", "throws", "transient"}, NEW got \in Bindings,
           Answer(w, outcome, got)
    PROVE  /\ calls' \in [Workers -> Calls]
           /\ \A v \in Workers : WellFormed(calls'[v])
<1> DEFINE c == [calls[w] EXCEPT !.pc = "returned", !.resource = None, !.got = got,
                                 !.outcome = outcome]
<1>1. c \in Calls
  BY CallShape DEF Calls, Pcs
<1>2. WellFormed(c)
  BY CallShape, Names DEF Calls, WellFormed, Inside, Holding, Carrying
<1>3. calls' = [calls EXCEPT ![w] = c]
  BY DEF Answer
<1> HIDE DEF c
<1> QED
  BY <1>1, <1>2, <1>3, CallStep

LEMMA ContinueType ==
    ASSUME Types, NEW w \in Workers, calls[w].pc \in Inside,
           NEW pc \in Path(calls[w].method), pc \in Inside,
           calls[w].got # {} => pc = "allocate", Continue(w, pc)
    PROVE  /\ calls' \in [Workers -> Calls]
           /\ \A v \in Workers : WellFormed(calls'[v])
<1> DEFINE c == [calls[w] EXCEPT !.pc = pc]
<1>0. calls[w].pc # "idle"
  BY DEF Inside, Holding
<1>1. c \in Calls
  BY <1>0, CallShape, Names DEF Calls, Pcs
<1>2. WellFormed(c)
  BY <1>0, CallShape, Names DEF Calls, WellFormed, Carrying
<1>3. calls' = [calls EXCEPT ![w] = c]
  BY DEF Continue
<1> HIDE DEF c
<1> QED
  BY <1>1, <1>2, <1>3, CallStep

LEMMA TakeType ==
    ASSUME Types, NEW w \in Workers, At(w, "lookup"), NEW r \in Resources, Take(w, r)
    PROVE  /\ calls' \in [Workers -> Calls]
           /\ \A v \in Workers : WellFormed(calls'[v])
<1> DEFINE c == [calls[w] EXCEPT !.pc = "enter", !.resource = r]
<1>1. c \in Calls
  BY CallShape DEF At, Calls, Pcs
<1>2. WellFormed(c)
  BY CallShape, Names, RuntimeAssumption DEF At, Calls, WellFormed, Inside, Holding, Carrying
<1>3. calls' = [calls EXCEPT ![w] = c]
  BY DEF Take
<1> HIDE DEF c
<1> QED
  BY <1>1, <1>2, <1>3, CallStep

LEMMA ObjectStep ==
    ASSUME Types, NEW w \in Workers, calls[w].pc \in Inside
    PROVE  /\ calls[w].pc # "idle"
           /\ calls[w].resource \in Resources
           /\ Mine(w) \in Objects
           /\ PortsOf(Mine(w).bindings) \subseteq Ports
           /\ \A object \in Objects : Update(w, object) => heap' \in [Resources -> Objects]
           /\ Hold(w) => owner' \in [Resources -> Workers \cup {None}]
           /\ Unlock(w) => owner' \in [Resources -> Workers \cup {None}]
<1>1. calls[w].pc # "idle"
  BY DEF Inside, Holding
<1>2. calls[w].resource \in Resources
  BY <1>1, CallShape DEF Calls
<1>3. Mine(w) \in Objects
  BY <1>2 DEF Types, TypeOK, Mine
<1>4. PortsOf(Mine(w).bindings) \subseteq Ports
  BY <1>3 DEF Objects, Bindings, PortsOf
<1>5. \A object \in Objects : Update(w, object) => heap' \in [Resources -> Objects]
  BY <1>2 DEF Update, Types, TypeOK
<1>6. Hold(w) => owner' \in [Resources -> Workers \cup {None}]
  BY <1>2 DEF Hold, Types, TypeOK
<1>7. Unlock(w) => owner' \in [Resources -> Workers \cup {None}]
  BY <1>2 DEF Unlock, Types, TypeOK
<1> QED
  BY <1>1, <1>2, <1>3, <1>4, <1>5, <1>6, <1>7

LEMMA TypesFrom ==
    ASSUME resources' \in [Sessions -> Resources \cup {None}],
           heap' \in [Resources -> Objects],
           owner' \in [Resources -> Workers \cup {None}],
           allocated' \subseteq Ports, lost' \subseteq Ports,
           calls' \in [Workers -> Calls],
           \A v \in Workers : WellFormed(calls'[v])
    PROVE  Types'
  BY NoCallType DEF Types, TypeOK, WellFormed, Inside, Holding

LEMMA FreshType == Fresh \in Objects /\ {} \in Bindings /\ PortsOf({}) = {}
  BY DEF Fresh, Objects, Phases, Executions, Bindings, PortsOf

LEMMA InitTypes == Init => Types
  BY FreshType, NoCallType DEF Init, Types, TypeOK, Inside, Holding

LEMMA InvokeTypes ==
    ASSUME Types, NEW w \in Workers, NEW method \in Methods, NEW id \in Sessions,
           Invoke(w, method, id)
    PROVE  Types'
<1> DEFINE c == [NoCall EXCEPT !.method = method, !.id = id, !.pc = "lookup"]
<1>1. c \in Calls
  BY NoCallType DEF Calls, Pcs
<1>2. WellFormed(c)
  BY Names DEF NoCall, WellFormed, Inside, Holding
<1>3. calls' = [calls EXCEPT ![w] = c]
  BY DEF Invoke
<1> HIDE DEF c
<1>4. /\ calls' \in [Workers -> Calls]
      /\ \A v \in Workers : WellFormed(calls'[v])
  BY <1>1, <1>2, <1>3, CallStep
<1> QED
  BY <1>4, TypesFrom DEF Invoke, Types, TypeOK

LEMMA CollectTypes ==
    ASSUME Types, NEW w \in Workers, Collect(w)
    PROVE  Types'
<1>1. /\ calls' \in [Workers -> Calls]
      /\ \A v \in Workers : WellFormed(calls'[v])
  BY NoCallType, CallStep DEF Collect
<1> QED
  BY <1>1, TypesFrom DEF Collect, Types, TypeOK

\* A call that leaves the object's section has no type to break but its own.
LEMMA ReturnTypes ==
    ASSUME Types, NEW w \in Workers, calls[w].pc # "idle",
           Return(w) \/ Throw(w)
    PROVE  /\ calls' \in [Workers -> Calls]
           /\ \A v \in Workers : WellFormed(calls'[v])
  BY AnswerType, FreshType DEF Return, Throw

LEMMA LookupTypes ==
    ASSUME Types, NEW w \in Workers, Find(w) \/ CreateResources(w) \/ NotFound(w)
    PROVE  Types'
<1>1. At(w, "lookup") /\ calls[w].pc # "idle"
  BY DEF Find, CreateResources, NotFound, At
<1>2. calls[w].id \in Sessions
  BY <1>1, CallShape
<1>3. CASE Find(w)
  <2>1. resources[calls[w].id] \in Resources
    BY <1>2, <1>3 DEF Find, Types, TypeOK
  <2> QED
    BY <1>1, <1>3, <2>1, TakeType, TypesFrom DEF Find, Types, TypeOK
<1>4. CASE CreateResources(w)
  <2>1. PICK r \in Resources :
            /\ resources' = [resources EXCEPT ![calls[w].id] = r]
            /\ heap' = [heap EXCEPT ![r] = Fresh]
            /\ Take(w, r)
    BY <1>4 DEF CreateResources
  <2>2. /\ calls' \in [Workers -> Calls]
        /\ \A v \in Workers : WellFormed(calls'[v])
    BY <1>1, <2>1, TakeType
  <2>3. /\ resources' \in [Sessions -> Resources \cup {None}]
        /\ heap' \in [Resources -> Objects]
    BY <1>2, <2>1, FreshType DEF Types, TypeOK
  <2> QED
    BY <1>4, <2>2, <2>3, TypesFrom DEF CreateResources, Types, TypeOK
<1>5. CASE NotFound(w)
  <2>1. Return(w) \/ Throw(w)
    BY <1>5 DEF NotFound
  <2> QED
    BY <1>1, <1>5, <2>1, ReturnTypes, TypesFrom DEF NotFound, Types, TypeOK
<1> QED
  BY <1>3, <1>4, <1>5

LEMMA EnterTypes ==
    ASSUME Types, NEW w \in Workers, Enter(w)
    PROVE  Types'
<1>1. At(w, "enter") /\ Unlocked(w)
  BY DEF Enter, Entering, PrepareRefused, PrepareAgain, StartAgain, ContractError,
         PrepareBegin, StopIdle, StopRefused, StopRunning, ListStreams, LookupThrows,
         Route, Fetch, SendSettings
<1>2. /\ calls[w].pc \in Inside
      /\ calls[w].pc # "idle"
      /\ calls[w].got = {}
      /\ calls[w] \in Calls
      /\ calls[w].method \in Methods
  BY <1>1, CallShape DEF At, Inside, Holding, Carrying
<1>3. Mine(w) \in Objects /\ calls[w].resource \in Resources
  BY <1>2, ObjectStep
<1>4. \A phase \in Phases : [Mine(w) EXCEPT !.phase = phase] \in Objects
  BY <1>3 DEF Objects
<1>5. {"Idle", "Starting", "Stopping"} \subseteq Phases /\ "none" \in Executions
  BY DEF Phases, Executions
<1>6. CASE PrepareRefused(w) \/ PrepareAgain(w) \/ ContractError(w) \/ StopRefused(w)
           \/ LookupThrows(w)
  <2>1. /\ Return(w) \/ Throw(w)
        /\ UNCHANGED <<resources, heap, owner, allocated, lost>>
    BY <1>6 DEF PrepareRefused, PrepareAgain, ContractError, StopRefused, LookupThrows
  <2> QED
    BY <1>2, <2>1, ReturnTypes, TypesFrom DEF Types, TypeOK
<1>7. CASE StartAgain(w)
  <2>1. CASE Serving(Mine(w))
    <3>1. Return(w) /\ UNCHANGED <<resources, heap, owner, allocated, lost>>
      BY <1>7, <2>1 DEF StartAgain
    <3> QED
      BY <1>2, <3>1, ReturnTypes, TypesFrom DEF Types, TypeOK
  <2>2. CASE ~Serving(Mine(w))
    <3>1. /\ Update(w, [Mine(w) EXCEPT !.phase = "Starting"])
          /\ Hold(w) /\ Continue(w, "launch")
          /\ UNCHANGED <<resources, allocated, lost>>
      BY <1>7, <2>2 DEF StartAgain
    <3>2. "launch" \in Path(calls[w].method) /\ "launch" \in Inside
      BY <1>7, Names DEF StartAgain, Entering, Inside, Holding
    <3> QED
      BY <1>2, <1>4, <1>5, <3>1, <3>2, ContinueType, ObjectStep, TypesFrom
         DEF Types, TypeOK
  <2> QED
    BY <2>1, <2>2
<1>8. CASE PrepareBegin(w)
  <2>1. "allocate" \in Path(calls[w].method) /\ "allocate" \in Inside
    BY <1>8, Names DEF PrepareBegin, Entering, Inside, Holding
  <2>2. [Mine(w) EXCEPT !.bindings = {}] \in Objects
    BY <1>3, FreshType DEF Objects
  <2> QED
    BY <1>2, <1>8, <2>1, <2>2, ContinueType, ObjectStep, TypesFrom
       DEF PrepareBegin, Types, TypeOK
<1>9. CASE StopIdle(w)
  <2>1. TornDown(Mine(w)) \in Objects
    BY <1>3, <1>5, FreshType DEF TornDown, Objects
  <2>2. Return(w) \/ (calls[w].method = "destroy" /\ Continue(w, "erase"))
    BY <1>9 DEF StopIdle, Teardown, AfterTeardown, Entering
  <2>3. "erase" \in Path("destroy") /\ "erase" \in Inside
    BY Names DEF Inside
  <2>4. /\ calls' \in [Workers -> Calls]
        /\ \A v \in Workers : WellFormed(calls'[v])
    BY <1>2, <2>2, <2>3, ReturnTypes, ContinueType
  <2> QED
    BY <1>2, <1>9, <2>1, <2>4, ObjectStep, TypesFrom DEF StopIdle, Teardown, Types, TypeOK
<1>10. CASE StopRunning(w)
  <2>1. "halt" \in Path(calls[w].method) /\ "halt" \in Inside
    BY <1>10, Names DEF StopRunning, Entering, Inside, Holding
  <2> QED
    BY <1>2, <1>4, <1>5, <1>10, <2>1, ContinueType, ObjectStep, TypesFrom
       DEF StopRunning, Types, TypeOK
<1>11. CASE ListStreams(w)
  <2>1. \E got \in Bindings : Answer(w, "ok", got)
    BY <1>3, <1>11, FreshType DEF ListStreams, Objects
  <2> QED
    BY <1>2, <1>11, <2>1, AnswerType, TypesFrom DEF ListStreams, Types, TypeOK
<1>12. CASE Route(w)
  <2>1. \E got \in Bindings : Answer(w, "ok", got)
    BY <1>3, <1>12 DEF Route, Objects, Bindings
  <2> QED
    BY <1>2, <1>12, <2>1, AnswerType, TypesFrom DEF Route, Types, TypeOK
<1>13. CASE Fetch(w)
  <2>1. PICK b \in Mine(w).bindings :
            calls' = [calls EXCEPT ![w].pc = "connect", ![w].resource = None,
                                   ![w].got = {b}]
    BY <1>13 DEF Fetch
  <2> DEFINE c == [calls[w] EXCEPT !.pc = "connect", !.resource = None, !.got = {b}]
  <2>2. {b} \in Bindings
    BY <1>3 DEF Objects, Bindings
  <2>3. c \in Calls
    BY <1>2, <2>2 DEF Calls, Pcs
  <2>4. WellFormed(c)
    BY <1>2, <1>13, CallShape, Names
       DEF Fetch, Entering, Calls, WellFormed, Inside, Holding, Carrying
  <2>5. calls' = [calls EXCEPT ![w] = c]
    BY <2>1
  <2> HIDE DEF c
  <2> QED
    BY <1>13, <2>3, <2>4, <2>5, CallStep, TypesFrom DEF Fetch, Types, TypeOK
<1>14. CASE SendSettings(w)
  <2>1. "reply" \in Path(calls[w].method) /\ "reply" \in Inside
    BY <1>14, Names DEF SendSettings, Entering, Settings, Inside, Holding
  <2> QED
    BY <1>2, <1>14, <2>1, ContinueType, ObjectStep, TypesFrom
       DEF SendSettings, Types, TypeOK
<1> QED
  BY <1>6, <1>7, <1>8, <1>9, <1>10, <1>11, <1>12, <1>13, <1>14 DEF Enter

LEMMA InsideTypes ==
    ASSUME Types, NEW w \in Workers,
           \/ Allocate(w) \/ AllocateThrows(w) \/ Load(w)
           \/ \E kind \in Exceptions : LoadThrows(w, kind)
           \/ Launch(w) \/ LaunchThrows(w) \/ Halt(w)
           \/ \E kind \in Exceptions : HaltThrows(w, kind)
           \/ Reply(w) \/ EraseEntry(w)
    PROVE  Types'
<1>1. calls[w].pc \in Inside /\ calls[w].pc # "enter"
  BY DEF Allocate, AllocateThrows, Load, LoadThrows, Launch, LaunchThrows, Halt,
         HaltThrows, Reply, EraseEntry, At, Inside, Holding
<1>2. /\ calls[w].pc # "idle"
      /\ calls[w] \in Calls
      /\ calls[w].method \in Methods
      /\ calls[w].id \in Sessions
      /\ calls[w].pc \in Path(calls[w].method)
      /\ calls[w].got # {} => calls[w].pc \in Carrying
  BY <1>1, CallShape DEF Inside, Holding
<1>3. Mine(w) \in Objects /\ calls[w].resource \in Resources
  BY <1>1, ObjectStep
<1>4. calls[w].got \in Bindings /\ PortsOf(calls[w].got) \subseteq Ports
  BY <1>2 DEF Calls, Bindings, PortsOf
<1>5. CASE Allocate(w)
  <2>1. PICK stream \in Missing(w), port \in Ports \ allocated :
            /\ allocated' = allocated \cup {port}
            /\ calls' = [calls EXCEPT ![w].got = @ \cup {<<stream, port>>}]
    BY <1>5 DEF Allocate
  <2> DEFINE c == [calls[w] EXCEPT !.got = @ \cup {<<stream, port>>}]
  <2>2. stream \in Streams
    BY <1>2, <2>1, RuntimeAssumption DEF Missing
  <2>3. c.got \in Bindings /\ c \in Calls
    BY <1>2, <1>4, <2>1, <2>2 DEF Calls, Bindings
  <2>4. WellFormed(c)
    BY <1>2, <1>5, CallShape DEF Allocate, At, Calls, WellFormed, Inside, Holding, Carrying
  <2>5. calls' = [calls EXCEPT ![w] = c]
    BY <2>1
  <2> HIDE DEF c
  <2> QED
    BY <1>5, <2>1, <2>3, <2>4, <2>5, CallStep, TypesFrom DEF Allocate, Types, TypeOK
<1>6. CASE Load(w)
  <2> DEFINE o == [Mine(w) EXCEPT !.execution = "prepared", !.phase = "Idle",
                                  !.bindings = calls[w].got]
             starting == [o EXCEPT !.phase = "Starting"]
             c == [calls[w] EXCEPT !.pc = "launch", !.got = {}]
  <2>1. o \in Objects /\ starting \in Objects
    BY <1>3, <1>4 DEF Objects, Phases, Executions
  <2>2. CASE calls[w].method = "prepare"
    <3>1. Update(w, o) /\ Unlock(w) /\ Return(w)
      BY <1>6, <2>2 DEF Load
    <3> HIDE DEF o
    <3> QED
      BY <1>1, <1>2, <1>6, <2>1, <3>1, ReturnTypes, ObjectStep, TypesFrom
         DEF Load, Types, TypeOK
  <2>3. CASE calls[w].method # "prepare"
    <3>1. /\ Update(w, starting)
          /\ calls' = [calls EXCEPT ![w] = c]
          /\ UNCHANGED owner
      BY <1>6, <2>3 DEF Load
    <3>2. c \in Calls
      BY <1>2, FreshType DEF Calls, Pcs
    <3>3. calls[w].method = "start"
      BY <1>2, <1>6, <2>3, Names DEF Load, At, Methods, Lifecycle, Reads, Settings
    <3>4. WellFormed(c)
      BY <1>1, <1>2, <1>6, <3>3, CallShape, Names DEF Load, Calls, WellFormed, Inside, Holding
    <3> HIDE DEF c, starting
    <3> QED
      BY <1>1, <1>6, <2>1, <3>1, <3>2, <3>4, CallStep, ObjectStep, TypesFrom
         DEF Load, Types, TypeOK
  <2> QED
    BY <2>2, <2>3
<1>7. CASE AllocateThrows(w)
  BY <1>1, <1>2, <1>4, <1>7, ReturnTypes, ObjectStep, TypesFrom
     DEF AllocateThrows, Types, TypeOK
<1>8. ASSUME NEW kind \in Exceptions, LoadThrows(w, kind) PROVE Types'
  <2>1. allocated' \subseteq Ports /\ lost' \subseteq Ports
    BY <1>4, <1>8 DEF LoadThrows, Types, TypeOK
  <2> QED
    BY <1>1, <1>2, <1>8, <2>1, ReturnTypes, ObjectStep, TypesFrom
       DEF LoadThrows, Types, TypeOK
<1>9. CASE Launch(w)
  <2>1. [Mine(w) EXCEPT !.execution = "running", !.phase = "Running"] \in Objects
    BY <1>3 DEF Objects, Phases, Executions
  <2> QED
    BY <1>1, <1>2, <1>9, <2>1, ReturnTypes, ObjectStep, TypesFrom DEF Launch, Types, TypeOK
<1>10. CASE LaunchThrows(w)
  BY <1>1, <1>2, <1>10, ReturnTypes, ObjectStep, TypesFrom DEF LaunchThrows, Types, TypeOK
<1>11. CASE Halt(w)
  <2>1. TornDown(Mine(w)) \in Objects
    BY <1>3, FreshType DEF TornDown, Objects, Phases, Executions
  <2>2. calls[w].method \in {"stop", "destroy"} /\ calls[w].got = {}
    BY <1>2, <1>11, Names DEF Halt, At, Methods, Lifecycle, Reads, Settings, Carrying
  <2>3. Return(w) \/ (calls[w].method = "destroy" /\ Continue(w, "erase"))
    BY <1>11, <2>2 DEF Halt, Teardown, AfterTeardown
  <2>4. "erase" \in Path("destroy") /\ "erase" \in Inside
    BY Names DEF Inside
  <2>5. /\ calls' \in [Workers -> Calls]
        /\ \A v \in Workers : WellFormed(calls'[v])
    BY <1>1, <1>2, <2>2, <2>3, <2>4, ReturnTypes, ContinueType
  <2> QED
    BY <1>1, <1>11, <2>1, <2>5, ObjectStep, TypesFrom DEF Halt, Teardown, Types, TypeOK
<1>12. ASSUME NEW kind \in Exceptions, HaltThrows(w, kind) PROVE Types'
  <2>1. [Mine(w) EXCEPT !.phase = "Failed"] \in Objects
    BY <1>3 DEF Objects, Phases
  <2>2. heap' \in [Resources -> Objects]
    BY <1>1, <1>12, <2>1, ObjectStep DEF HaltThrows, Types, TypeOK
  <2> QED
    BY <1>1, <1>2, <1>12, <2>2, ReturnTypes, ObjectStep, TypesFrom
       DEF HaltThrows, Types, TypeOK
<1>13. CASE Reply(w)
  BY <1>1, <1>2, <1>13, ReturnTypes, ObjectStep, TypesFrom DEF Reply, Types, TypeOK
<1>14. CASE EraseEntry(w)
  <2>1. resources' \in [Sessions -> Resources \cup {None}]
    BY <1>2, <1>14 DEF EraseEntry, Types, TypeOK
  <2> QED
    BY <1>2, <1>14, <2>1, ReturnTypes, TypesFrom DEF EraseEntry, Types, TypeOK
<1> QED
  BY <1>5, <1>6, <1>7, <1>8, <1>9, <1>10, <1>11, <1>12, <1>13, <1>14

LEMMA ConnectTypes ==
    ASSUME Types, NEW w \in Workers, Connect(w) \/ ConnectFails(w)
    PROVE  Types'
<1>1. At(w, "connect") /\ calls[w].pc # "idle"
  BY DEF Connect, ConnectFails, At
<1>2. CASE Connect(w)
  <2>1. PICK id \in Sessions :
            calls' = [calls EXCEPT ![w].pc = "returned", ![w].outcome = "ok",
                                   ![w].from = id]
    BY <1>2 DEF Connect, Listening
  <2> DEFINE c == [calls[w] EXCEPT !.pc = "returned", !.outcome = "ok", !.from = id]
  <2>2. c \in Calls
    BY <1>1, CallShape DEF Calls, Pcs
  <2>3. WellFormed(c)
    BY <1>1, CallShape, Names DEF At, Calls, WellFormed, Inside, Holding, Carrying
  <2>4. calls' = [calls EXCEPT ![w] = c]
    BY <2>1
  <2> HIDE DEF c
  <2> QED
    BY <1>2, <2>2, <2>3, <2>4, CallStep, TypesFrom DEF Connect, Types, TypeOK
<1>3. CASE ConnectFails(w)
  BY <1>1, <1>3, AnswerType, FreshType, TypesFrom DEF ConnectFails, Types, TypeOK
<1> QED
  BY <1>2, <1>3

LEMMA TypesNext == Types /\ [Next]_vars => Types'
<1> SUFFICES ASSUME Types, [Next]_vars PROVE Types'
  OBVIOUS
<1>1. CASE UNCHANGED vars
  BY <1>1 DEF vars, Types, TypeOK, At, Inside
<1>2. ASSUME NEW w \in Workers, Step(w) PROVE Types'
  BY <1>2, LookupTypes, EnterTypes, InsideTypes, ConnectTypes DEF Step, Proceed
<1> QED
  BY <1>1, <1>2, InvokeTypes, CollectTypes DEF Next

\* Every variable keeps its type, and a call that works on an object refers to
\* one (gr4_runtime_manager.cpp: resources is checked for null by every caller of
\* find_resources).
THEOREM TypeCorrect == Spec => []TypeOK
<1>1. Spec => []Types
  BY InitTypes, TypesNext, PTL DEF Spec
<1>2. Types => TypeOK
  BY DEF Types
<1> QED
  BY <1>1, <1>2, PTL

-----------------------------------------------------------------------------
(* Locking. A thread changes an object only under its mutex, and leaves it   *)
(* consistent when it gives the mutex up.                                    *)

LEMMA ConsistentObjects ==
    ObjectsConsistent <=> \A r \in Resources : owner[r] = None => Consistent(heap[r])
  BY DEF ObjectsConsistent, Consistent

LEMMA ConsistentObjectsNext ==
    ObjectsConsistent' <=> \A r \in Resources : owner'[r] = None => Consistent(heap'[r])
  BY DEF ObjectsConsistent, Consistent

LEMMA FreshConsistent == Consistent(Fresh)
  BY DEF Consistent, Fresh

\* Nobody else is at work on an object whose mutex is free or held by w.
LEMMA HoldersElsewhere ==
    ASSUME Types, MutexDiscipline, NEW w \in Workers, NEW r \in Resources,
           owner[r] \in {None, w}, NEW v \in Workers \ {w}, calls[v].pc \in Holding
    PROVE  calls[v].resource # r /\ calls[v].resource \in Resources
<1>1. owner[calls[v].resource] = v
  BY DEF MutexDiscipline, Locked
<1>2. v # None
  BY RuntimeAssumption
<1>3. calls[v].pc # "idle" /\ calls[v].pc \in Inside
  BY DEF Holding, Inside
<1> QED
  BY <1>1, <1>2, <1>3, ObjectStep

\* A step in the section of an object, or one that enters or leaves it.
LEMMA SectionStep ==
    ASSUME Types, Locking, NEW w \in Workers, NEW r \in Resources,
           calls[w].resource = r,
           owner[r] \in {None, w}, owner'[r] \in {None, w},
           \A v \in Workers \ {w} : calls'[v] = calls[v],
           \A q \in Resources \ {r} : heap'[q] = heap[q] /\ owner'[q] = owner[q],
           calls'[w].pc \in Holding => calls'[w].resource = r,
           calls'[w].pc \in Holding <=> owner'[r] = w,
           owner'[r] = None => Consistent(heap'[r]),
           calls'[w].pc \in Holding => Knows(calls'[w].pc, heap'[r])
    PROVE  Locking'
<1>0. w # None
  BY RuntimeAssumption
<1>1. MutexDiscipline /\ HolderKnows /\ ObjectsConsistent
  BY DEF Locking
<1>2. \A v \in Workers \ {w} : calls[v].pc \in Holding =>
          calls[v].resource # r /\ calls[v].resource \in Resources
  BY <1>1, HoldersElsewhere
<1>3. ASSUME NEW v \in Workers, calls'[v].pc \in Holding
      PROVE  owner'[calls'[v].resource] = v /\ Knows(calls'[v].pc, heap'[calls'[v].resource])
  <2>1. CASE v = w
    BY <1>0, <1>3, <2>1
  <2>2. CASE v # w
    BY <1>1, <1>2, <1>3, <2>2 DEF MutexDiscipline, Locked, HolderKnows, Mine
  <2> QED
    BY <2>1, <2>2
<1>4. ASSUME NEW q \in Resources, owner'[q] # None
      PROVE  calls'[owner'[q]].pc \in Holding /\ calls'[owner'[q]].resource = q
  <2>1. CASE q = r
    BY <1>4, <2>1
  <2>2. CASE q # r
    <3>1. owner'[q] = owner[q] /\ owner[q] \in Workers
      BY <1>4, <2>2 DEF Types, TypeOK
    <3>2. calls[owner[q]].pc \in Holding /\ calls[owner[q]].resource = q
      BY <1>1, <1>4, <3>1 DEF MutexDiscipline
    <3> QED
      BY <2>2, <3>1, <3>2
  <2> QED
    BY <2>1, <2>2
<1>5. MutexDiscipline'
  BY <1>3, <1>4 DEF MutexDiscipline, Locked
<1>6. HolderKnows'
  <2> SUFFICES ASSUME NEW v \in Workers PROVE Knows(calls'[v].pc, heap'[calls'[v].resource])
    BY DEF HolderKnows, Mine
  <2>1. CASE calls'[v].pc \in Holding
    BY <1>3, <2>1
  <2>2. CASE calls'[v].pc \notin Holding
    BY <2>2 DEF Knows, Holding
  <2> QED
    BY <2>1, <2>2
<1>7. ObjectsConsistent'
  <2>1. \A q \in Resources : owner'[q] = None => Consistent(heap'[q])
    BY <1>1, ConsistentObjects
  <2> QED
    BY <2>1, ConsistentObjectsNext
<1> QED
  BY <1>5, <1>6, <1>7 DEF Locking

\* A step outside the sections, and those that create or erase an object.
LEMMA OutsideStep ==
    ASSUME Types, Locking, NEW w \in Workers,
           \A v \in Workers \ {w} : calls'[v] = calls[v],
           UNCHANGED owner, calls[w].pc \notin Holding, calls'[w].pc \notin Holding,
           \A q \in Resources :
               \/ heap'[q] = heap[q]
               \/ owner[q] = None /\ Consistent(heap'[q])
    PROVE  Locking'
<1>1. MutexDiscipline /\ HolderKnows /\ ObjectsConsistent
  BY DEF Locking
<1>2. ASSUME NEW v \in Workers, calls'[v].pc \in Holding
      PROVE  /\ calls'[v] = calls[v]
             /\ owner[calls[v].resource] = v
             /\ heap'[calls[v].resource] = heap[calls[v].resource]
             /\ Knows(calls[v].pc, heap[calls[v].resource])
  <2>1. calls'[v] = calls[v]
    BY <1>2
  <2>2. calls[v].resource \in Resources
    BY <1>2, <2>1, ObjectStep DEF Inside
  <2>3. owner[calls[v].resource] = v /\ v # None
    BY <1>1, <1>2, <2>1, RuntimeAssumption DEF MutexDiscipline, Locked
  <2> QED
    BY <1>1, <2>1, <2>2, <2>3 DEF HolderKnows, Mine
<1>3. MutexDiscipline'
  <2>1. ASSUME NEW q \in Resources, owner'[q] # None
        PROVE  calls'[owner'[q]].pc \in Holding /\ calls'[owner'[q]].resource = q
    <3>1. owner'[q] = owner[q] /\ owner[q] \in Workers
      BY <2>1 DEF Types, TypeOK
    <3>2. calls[owner[q]].pc \in Holding /\ calls[owner[q]].resource = q
      BY <1>1, <2>1, <3>1 DEF MutexDiscipline
    <3> QED
      BY <3>1, <3>2
  <2> QED
    BY <1>2, <2>1 DEF MutexDiscipline, Locked
<1>4. HolderKnows'
  <2> SUFFICES ASSUME NEW v \in Workers PROVE Knows(calls'[v].pc, heap'[calls'[v].resource])
    BY DEF HolderKnows, Mine
  <2>1. CASE calls'[v].pc \in Holding
    BY <1>2, <2>1
  <2>2. CASE calls'[v].pc \notin Holding
    BY <2>2 DEF Knows, Holding
  <2> QED
    BY <2>1, <2>2
<1>5. ObjectsConsistent'
  <2>1. \A q \in Resources : owner'[q] = None => Consistent(heap'[q])
    BY <1>1, ConsistentObjects
  <2> QED
    BY <2>1, ConsistentObjectsNext
<1> QED
  BY <1>3, <1>4, <1>5 DEF Locking

-----------------------------------------------------------------------------
(* The steps, point by point. *)

LEMMA AnswerIs ==
    ASSUME Types, NEW w \in Workers, NEW outcome, NEW got, Answer(w, outcome, got)
    PROVE  /\ calls'[w].pc = "returned" /\ calls'[w].resource = None
           /\ calls'[w].got = got /\ calls'[w].outcome = outcome
           /\ calls'[w].method = calls[w].method /\ calls'[w].id = calls[w].id
           /\ calls'[w].from = calls[w].from
           /\ \A v \in Workers \ {w} : calls'[v] = calls[v]
  BY DEF Answer, Types, TypeOK, Calls

LEMMA ReturnIs ==
    ASSUME Types, NEW w \in Workers, Return(w) \/ Throw(w)
    PROVE  /\ calls'[w].pc = "returned" /\ calls'[w].resource = None
           /\ calls'[w].got = {} /\ calls'[w].outcome \in {"ok", "throws"}
           /\ calls'[w].method = calls[w].method /\ calls'[w].id = calls[w].id
           /\ calls'[w].from = calls[w].from
           /\ \A v \in Workers \ {w} : calls'[v] = calls[v]
  BY AnswerIs DEF Return, Throw

LEMMA ContinueIs ==
    ASSUME Types, NEW w \in Workers, NEW pc, Continue(w, pc)
    PROVE  /\ calls'[w].pc = pc /\ calls'[w].resource = calls[w].resource
           /\ calls'[w].got = calls[w].got /\ calls'[w].outcome = calls[w].outcome
           /\ calls'[w].method = calls[w].method /\ calls'[w].id = calls[w].id
           /\ calls'[w].from = calls[w].from
           /\ \A v \in Workers \ {w} : calls'[v] = calls[v]
  BY DEF Continue, Types, TypeOK, Calls

LEMMA ObjectIs ==
    ASSUME Types, NEW w \in Workers, calls[w].pc \in Inside
    PROVE  /\ \A object : Update(w, object) =>
                  /\ heap'[calls[w].resource] = object
                  /\ \A q \in Resources \ {calls[w].resource} : heap'[q] = heap[q]
           /\ Hold(w) =>
                  /\ owner'[calls[w].resource] = w
                  /\ \A q \in Resources \ {calls[w].resource} : owner'[q] = owner[q]
           /\ Unlock(w) =>
                  /\ owner'[calls[w].resource] = None
                  /\ \A q \in Resources \ {calls[w].resource} : owner'[q] = owner[q]
<1>1. calls[w].resource \in Resources
  BY ObjectStep
<1> QED
  BY <1>1 DEF Update, Hold, Unlock, Types, TypeOK

\* What the call under way sees when it enters a section.
LEMMA Entered ==
    ASSUME Types, NEW w \in Workers, NEW methods, Entering(w, methods)
    PROVE  /\ calls[w].pc = "enter" /\ calls[w].pc \in Inside
           /\ calls[w].got = {}
           /\ calls[w].method \in methods
           /\ calls[w].id \in Sessions
           /\ calls[w].resource \in Resources
           /\ Mine(w) \in Objects
           /\ owner[calls[w].resource] = None
<1>1. calls[w].pc = "enter" /\ calls[w].pc \in Inside /\ calls[w].pc # "idle"
  BY DEF Entering, At, Inside
<1> QED
  BY <1>1, CallShape, ObjectStep DEF Entering, Carrying, Holding, Unlocked

\* Steps that look at an object, or at its session's entry, and leave.
Passes(w) ==
    \/ PrepareRefused(w) \/ PrepareAgain(w) \/ ContractError(w) \/ StopRefused(w)
    \/ LookupThrows(w) \/ ListStreams(w) \/ Route(w)
    \/ StartAgain(w) /\ Serving(Mine(w))

LEMMA PassesIs ==
    ASSUME Types, NEW w \in Workers, Passes(w)
    PROVE  /\ calls[w].pc = "enter"
           /\ calls'[w].pc = "returned" /\ calls'[w].resource = None
           /\ calls'[w].method = calls[w].method /\ calls'[w].id = calls[w].id
           /\ calls'[w].from = calls[w].from
           /\ calls'[w].outcome \in {"ok", "throws"}
           /\ \A v \in Workers \ {w} : calls'[v] = calls[v]
           /\ UNCHANGED <<resources, heap, owner, allocated, lost>>
<1>1. CASE PrepareRefused(w) \/ PrepareAgain(w) \/ ContractError(w) \/ StopRefused(w)
           \/ LookupThrows(w)
  <2>1. calls[w].pc = "enter"
    BY <1>1 DEF PrepareRefused, PrepareAgain, ContractError, StopRefused, LookupThrows,
                Entering, At
  <2>2. /\ Return(w) \/ Throw(w)
        /\ UNCHANGED <<resources, heap, owner, allocated, lost>>
    BY <1>1 DEF PrepareRefused, PrepareAgain, ContractError, StopRefused, LookupThrows
  <2> QED
    BY <2>1, <2>2, ReturnIs
<1>2. CASE ListStreams(w)
  BY <1>2, AnswerIs DEF ListStreams, Entering, At
<1>3. CASE Route(w)
  BY <1>3, AnswerIs DEF Route, Entering, At
<1>4. CASE StartAgain(w) /\ Serving(Mine(w))
  BY <1>4, ReturnIs DEF StartAgain, Entering, At
<1> QED
  BY <1>1, <1>2, <1>3, <1>4 DEF Passes

LEMMA FetchIs ==
    ASSUME Types, NEW w \in Workers, Fetch(w)
    PROVE  /\ calls[w].pc = "enter"
           /\ calls'[w].pc = "connect" /\ calls'[w].resource = None
           /\ calls'[w].method = calls[w].method /\ calls'[w].id = calls[w].id
           /\ calls'[w].from = calls[w].from
           /\ \E b \in Mine(w).bindings : calls'[w].got = {b}
           /\ \A v \in Workers \ {w} : calls'[v] = calls[v]
           /\ UNCHANGED <<resources, heap, owner, allocated, lost>>
  BY DEF Fetch, Entering, At, Types, TypeOK, Calls

LEMMA LookupIs ==
    ASSUME Types, NEW w \in Workers, Find(w) \/ CreateResources(w) \/ NotFound(w)
    PROVE  /\ calls[w].pc = "lookup" /\ calls[w].got = {} /\ calls[w].resource = None
           /\ calls[w].id \in Sessions
           /\ calls'[w].pc \in {"enter", "returned"}
           /\ calls'[w].got = {}
           /\ calls'[w].method = calls[w].method /\ calls'[w].id = calls[w].id
           /\ calls'[w].from = calls[w].from
           /\ \A v \in Workers \ {w} : calls'[v] = calls[v]
           /\ UNCHANGED <<owner, allocated, lost>>
<1>1. calls[w].pc = "lookup"
  BY DEF Find, CreateResources, NotFound, At
<1>2. calls[w].got = {} /\ calls[w].resource = None /\ calls[w].id \in Sessions
  BY <1>1, CallShape DEF Inside, Holding, Carrying
<1>3. ASSUME NEW r, Take(w, r)
      PROVE  /\ calls'[w].pc = "enter" /\ calls'[w].got = calls[w].got
             /\ calls'[w].method = calls[w].method /\ calls'[w].id = calls[w].id
             /\ calls'[w].from = calls[w].from
             /\ \A v \in Workers \ {w} : calls'[v] = calls[v]
  BY <1>3 DEF Take, Types, TypeOK, Calls
<1>4. CASE Find(w)
  BY <1>1, <1>2, <1>3, <1>4 DEF Find
<1>5. CASE CreateResources(w)
  BY <1>1, <1>2, <1>3, <1>5 DEF CreateResources
<1>6. CASE NotFound(w)
  <2>1. (Return(w) \/ Throw(w)) /\ UNCHANGED <<owner, allocated, lost>>
    BY <1>6 DEF NotFound
  <2> QED
    BY <1>1, <1>2, <2>1, ReturnIs
<1> QED
  BY <1>4, <1>5, <1>6

LEMMA ConnectIs ==
    ASSUME Types, NEW w \in Workers, Connect(w) \/ ConnectFails(w)
    PROVE  /\ calls[w].pc = "connect" /\ calls[w].resource = None
           /\ calls'[w].pc = "returned" /\ calls'[w].resource = None
           /\ calls'[w].method = calls[w].method /\ calls'[w].id = calls[w].id
           /\ \A v \in Workers \ {w} : calls'[v] = calls[v]
           /\ UNCHANGED <<resources, heap, owner, allocated, lost>>
<1>1. calls[w].pc = "connect"
  BY DEF Connect, ConnectFails, At
<1>2. calls[w].resource = None
  BY <1>1, CallShape DEF Inside, Holding
<1>3. CASE Connect(w)
  <2>1. PICK id \in Sessions :
            calls' = [calls EXCEPT ![w].pc = "returned", ![w].outcome = "ok",
                                   ![w].from = id]
    BY <1>3 DEF Connect, Listening
  <2>2. UNCHANGED <<resources, heap, owner, allocated, lost>>
    BY <1>3 DEF Connect
  <2> QED
    BY <1>1, <1>2, <2>1, <2>2 DEF Types, TypeOK, Calls
<1>4. CASE ConnectFails(w)
  BY <1>1, <1>2, <1>4, AnswerIs DEF ConnectFails
<1> QED
  BY <1>3, <1>4

-----------------------------------------------------------------------------

\* Thread w is in the section of object r, and takes the step for the others.
LEMMA LeaveLocking ==
    ASSUME Types, Locking, NEW w \in Workers, calls[w].pc \in Holding,
           \A v \in Workers \ {w} : calls'[v] = calls[v], calls'[w].pc \notin Holding,
           Unlock(w),
           \A q \in Resources \ {calls[w].resource} : heap'[q] = heap[q],
           Consistent(heap'[calls[w].resource])
    PROVE  Locking'
<1>1. calls[w].pc \in Inside /\ calls[w].resource \in Resources
  BY ObjectStep DEF Inside
<1>2. owner[calls[w].resource] = w /\ w # None
  BY RuntimeAssumption DEF Locking, MutexDiscipline, Locked
<1>3. /\ owner'[calls[w].resource] = None
      /\ \A q \in Resources \ {calls[w].resource} : owner'[q] = owner[q]
  BY <1>1, ObjectIs
<1> QED
  BY <1>1, <1>2, <1>3, SectionStep

LEMMA EnterLocking ==
    ASSUME Types, Locking, NEW w \in Workers, NEW pc \in Holding,
           calls[w].pc = "enter", Unlocked(w), Hold(w), Continue(w, pc),
           \A q \in Resources \ {calls[w].resource} : heap'[q] = heap[q],
           Knows(pc, heap'[calls[w].resource])
    PROVE  Locking'
<1>1. calls[w].pc \in Inside /\ calls[w].resource \in Resources /\ w # None
  BY ObjectStep, RuntimeAssumption DEF Inside
<1>2. /\ owner'[calls[w].resource] = w
      /\ \A q \in Resources \ {calls[w].resource} : owner'[q] = owner[q]
  BY <1>1, ObjectIs
<1>3. /\ calls'[w].pc = pc /\ calls'[w].resource = calls[w].resource
      /\ \A v \in Workers \ {w} : calls'[v] = calls[v]
  BY ContinueIs
<1> QED
  BY <1>1, <1>2, <1>3, SectionStep DEF Unlocked

LEMMA EnterKeepsLocking ==
    ASSUME Types, Locking, NEW w \in Workers, Enter(w)
    PROVE  Locking'
<1>1. CASE Passes(w) \/ Fetch(w)
  BY <1>1, PassesIs, FetchIs, OutsideStep DEF Holding
<1>2. CASE StartAgain(w) /\ ~Serving(Mine(w))
  <2>1. /\ Entering(w, {"prepare", "start"})
        /\ Mine(w).execution # "none"
        /\ Update(w, [Mine(w) EXCEPT !.phase = "Starting"])
        /\ Hold(w) /\ Continue(w, "launch")
    BY <1>2 DEF StartAgain, Entering
  <2>2. Knows("launch", [Mine(w) EXCEPT !.phase = "Starting"])
    BY <2>1, Entered DEF Knows, Objects
  <2>3. /\ heap'[calls[w].resource] = [Mine(w) EXCEPT !.phase = "Starting"]
        /\ \A q \in Resources \ {calls[w].resource} : heap'[q] = heap[q]
    BY <2>1, Entered, ObjectIs
  <2>4. calls[w].pc = "enter" /\ Unlocked(w) /\ "launch" \in Holding
    BY <2>1, Entered DEF Entering, Holding
  <2> QED
    BY <2>1, <2>2, <2>3, <2>4, EnterLocking
<1>3. CASE PrepareBegin(w)
  <2>1. /\ Entering(w, {"prepare", "start"})
        /\ Mine(w).execution = "none"
        /\ Update(w, [Mine(w) EXCEPT !.bindings = {}])
        /\ Hold(w) /\ Continue(w, "allocate")
    BY <1>3 DEF PrepareBegin
  <2>2. Consistent(Mine(w))
    BY <2>1, Entered, ConsistentObjects DEF Locking, Mine
  <2>3. [Mine(w) EXCEPT !.bindings = {}] = Fresh
    BY <2>1, <2>2, Entered DEF Consistent, Objects, Fresh
  <2>4. /\ heap'[calls[w].resource] = Fresh
        /\ \A q \in Resources \ {calls[w].resource} : heap'[q] = heap[q]
    BY <2>1, <2>3, Entered, ObjectIs
  <2>5. calls[w].pc = "enter" /\ Unlocked(w) /\ "allocate" \in Holding
    BY <2>1, Entered DEF Entering, Holding
  <2>6. Knows("allocate", Fresh)
    BY DEF Knows
  <2> QED
    BY <2>1, <2>4, <2>5, <2>6, EnterLocking
<1>4. CASE StopIdle(w)
  <2>1. /\ Entering(w, {"stop", "destroy"})
        /\ Update(w, TornDown(Mine(w)))
        /\ UNCHANGED owner
        /\ Return(w) \/ Continue(w, "erase")
    BY <1>4 DEF StopIdle, Teardown, AfterTeardown
  <2>2. Consistent(TornDown(Mine(w)))
    BY <2>1, Entered DEF Consistent, TornDown, Objects
  <2>3. /\ calls'[w].pc \in {"returned", "erase"}
        /\ \A v \in Workers \ {w} : calls'[v] = calls[v]
    BY <2>1, ReturnIs, ContinueIs
  <2>4. /\ heap'[calls[w].resource] = TornDown(Mine(w))
        /\ \A q \in Resources \ {calls[w].resource} : heap'[q] = heap[q]
    BY <2>1, Entered, ObjectIs
  <2>5. calls[w].pc \notin Holding /\ calls'[w].pc \notin Holding
    BY <2>1, <2>3, Entered DEF Holding
  <2> QED
    BY <2>1, <2>2, <2>3, <2>4, <2>5, Entered, OutsideStep
<1>5. CASE StopRunning(w)
  <2>1. /\ Entering(w, {"stop", "destroy"})
        /\ Mine(w).execution = "running"
        /\ Update(w, [Mine(w) EXCEPT !.phase = "Stopping"])
        /\ Hold(w) /\ Continue(w, "halt")
    BY <1>5 DEF StopRunning
  <2>2. Knows("halt", [Mine(w) EXCEPT !.phase = "Stopping"])
    BY <2>1, Entered DEF Knows, Objects
  <2>3. /\ heap'[calls[w].resource] = [Mine(w) EXCEPT !.phase = "Stopping"]
        /\ \A q \in Resources \ {calls[w].resource} : heap'[q] = heap[q]
    BY <2>1, Entered, ObjectIs
  <2>4. calls[w].pc = "enter" /\ Unlocked(w) /\ "halt" \in Holding
    BY <2>1, Entered DEF Entering, Holding
  <2> QED
    BY <2>1, <2>2, <2>3, <2>4, EnterLocking
<1>6. CASE SendSettings(w)
  <2>1. /\ Entering(w, Settings)
        /\ Serving(Mine(w))
        /\ UNCHANGED heap
        /\ Hold(w) /\ Continue(w, "reply")
    BY <1>6 DEF SendSettings
  <2>2. Knows("reply", heap'[calls[w].resource])
    BY <2>1 DEF Knows, Mine
  <2> QED
    BY <2>1, <2>2, Entered, EnterLocking DEF Entering, Holding
<1> QED
  BY <1>1, <1>2, <1>3, <1>4, <1>5, <1>6 DEF Enter, Passes

LEMMA InsideKeepsLocking ==
    ASSUME Types, Locking, NEW w \in Workers,
           \/ Allocate(w) \/ AllocateThrows(w) \/ Load(w)
           \/ \E kind \in Exceptions : LoadThrows(w, kind)
           \/ Launch(w) \/ LaunchThrows(w) \/ Halt(w)
           \/ \E kind \in Exceptions : HaltThrows(w, kind)
           \/ Reply(w)
    PROVE  Locking'
<1>1. calls[w].pc \in Holding /\ calls[w].pc \in Inside
  BY DEF Allocate, AllocateThrows, Load, LoadThrows, Launch, LaunchThrows, Halt,
         HaltThrows, Reply, At, Inside, Holding
<1>2. /\ calls[w].resource \in Resources
      /\ Mine(w) \in Objects
      /\ Knows(calls[w].pc, Mine(w))
      /\ owner[calls[w].resource] = w
      /\ w # None
  BY <1>1, ObjectStep, RuntimeAssumption
     DEF Locking, HolderKnows, MutexDiscipline, Locked
<1>3. "returned" \notin Holding /\ "erase" \notin Holding /\ "launch" \in Holding
  BY DEF Holding
<1>4. CASE Allocate(w)
  <2>1. PICK got :
            /\ calls' = [calls EXCEPT ![w].got = got]
            /\ UNCHANGED <<heap, owner>>
    BY <1>4 DEF Allocate
  <2>2. /\ calls'[w].pc = calls[w].pc /\ calls'[w].resource = calls[w].resource
        /\ \A v \in Workers \ {w} : calls'[v] = calls[v]
    BY <2>1 DEF Types, TypeOK, Calls
  <2> QED
    BY <1>1, <1>2, <2>1, <2>2, SectionStep DEF Mine
<1>5. CASE AllocateThrows(w)
  <2>1. At(w, "allocate") /\ Unlock(w) /\ Throw(w) /\ UNCHANGED heap
    BY <1>5 DEF AllocateThrows
  <2>2. Consistent(heap'[calls[w].resource])
    BY <1>2, <2>1, FreshConsistent DEF Knows, At, Mine
  <2> QED
    BY <1>1, <1>3, <2>1, <2>2, ReturnIs, LeaveLocking
<1>6. ASSUME NEW kind \in Exceptions, LoadThrows(w, kind) PROVE Locking'
  <2>1. At(w, "allocate") /\ Unlock(w) /\ Throw(w) /\ UNCHANGED heap
    BY <1>6 DEF LoadThrows
  <2>2. Consistent(heap'[calls[w].resource])
    BY <1>2, <2>1, FreshConsistent DEF Knows, At, Mine
  <2> QED
    BY <1>1, <1>3, <2>1, <2>2, ReturnIs, LeaveLocking
<1>7. CASE Load(w)
  <2> DEFINE o == [Mine(w) EXCEPT !.execution = "prepared", !.phase = "Idle",
                                  !.bindings = calls[w].got]
             starting == [o EXCEPT !.phase = "Starting"]
  <2>1. Consistent(o) /\ Knows("launch", starting)
    BY <1>2 DEF Consistent, Knows, Objects
  <2>2. CASE calls[w].method = "prepare"
    <3>1. Update(w, o) /\ Unlock(w) /\ Return(w)
      BY <1>7, <2>2 DEF Load
    <3> HIDE DEF o
    <3> QED
      BY <1>1, <1>3, <2>1, <3>1, ReturnIs, ObjectIs, LeaveLocking
  <2>3. CASE calls[w].method # "prepare"
    <3>1. /\ Update(w, starting)
          /\ calls' = [calls EXCEPT ![w].pc = "launch", ![w].got = {}]
          /\ UNCHANGED owner
      BY <1>7, <2>3 DEF Load
    <3>2. /\ calls'[w].pc = "launch" /\ calls'[w].resource = calls[w].resource
          /\ \A v \in Workers \ {w} : calls'[v] = calls[v]
      BY <3>1 DEF Types, TypeOK, Calls
    <3> HIDE DEF starting
    <3>3. /\ heap'[calls[w].resource] = starting
          /\ \A q \in Resources \ {calls[w].resource} : heap'[q] = heap[q]
      BY <1>1, <3>1, ObjectIs
    <3> QED
      BY <1>1, <1>2, <1>3, <2>1, <3>1, <3>2, <3>3, SectionStep
  <2> QED
    BY <2>2, <2>3
<1>8. CASE Launch(w)
  <2> DEFINE o == [Mine(w) EXCEPT !.execution = "running", !.phase = "Running"]
  <2>1. Update(w, o) /\ Unlock(w) /\ Return(w)
    BY <1>8 DEF Launch
  <2>2. Consistent(o)
    BY <1>2 DEF Consistent, Objects
  <2> HIDE DEF o
  <2> QED
    BY <1>1, <1>3, <2>1, <2>2, ReturnIs, ObjectIs, LeaveLocking
<1>9. CASE LaunchThrows(w)
  <2>1. At(w, "launch") /\ Unlock(w) /\ Throw(w) /\ UNCHANGED heap
    BY <1>9 DEF LaunchThrows
  <2>2. Consistent(heap'[calls[w].resource])
    BY <1>2, <2>1 DEF Knows, At, Mine, Consistent
  <2> QED
    BY <1>1, <1>3, <2>1, <2>2, ReturnIs, LeaveLocking
<1>10. CASE Halt(w)
  <2>1. /\ Update(w, TornDown(Mine(w))) /\ Unlock(w)
        /\ Return(w) \/ Continue(w, "erase")
    BY <1>10 DEF Halt, Teardown, AfterTeardown
  <2>2. Consistent(TornDown(Mine(w)))
    BY <1>2 DEF Consistent, TornDown, Objects
  <2>3. /\ calls'[w].pc \notin Holding
        /\ \A v \in Workers \ {w} : calls'[v] = calls[v]
    BY <1>3, <2>1, ReturnIs, ContinueIs
  <2> QED
    BY <1>1, <2>1, <2>2, <2>3, ObjectIs, LeaveLocking
<1>11. ASSUME NEW kind \in Exceptions, HaltThrows(w, kind) PROVE Locking'
  <2>1. At(w, "halt") /\ Unlock(w) /\ Throw(w)
    BY <1>11 DEF HaltThrows
  <2>2. CASE kind = "std"
    <3>1. Update(w, [Mine(w) EXCEPT !.phase = "Failed"])
      BY <1>11, <2>2 DEF HaltThrows
    <3>2. Consistent([Mine(w) EXCEPT !.phase = "Failed"])
      BY <1>2, <2>1 DEF Consistent, Objects, Knows, At
    <3> QED
      BY <1>1, <1>3, <2>1, <3>1, <3>2, ReturnIs, ObjectIs, LeaveLocking
  <2>3. CASE kind # "std"
    <3>1. UNCHANGED heap /\ "foreign" \in Exceptions
      BY <1>11, <2>3, RuntimeAssumption DEF HaltThrows
    <3>2. Consistent(heap'[calls[w].resource])
      BY <1>2, <2>1, <3>1 DEF Consistent, Knows, At, Mine
    <3> QED
      BY <1>1, <1>3, <2>1, <3>1, <3>2, ReturnIs, LeaveLocking
  <2> QED
    BY <2>2, <2>3
<1>12. CASE Reply(w)
  <2>1. At(w, "reply") /\ Unlock(w) /\ (Return(w) \/ Throw(w)) /\ UNCHANGED heap
    BY <1>12 DEF Reply
  <2>2. Consistent(heap'[calls[w].resource])
    BY <1>2, <2>1 DEF Consistent, Knows, At, Mine, Serving
  <2> QED
    BY <1>1, <1>3, <2>1, <2>2, ReturnIs, LeaveLocking
<1> QED
  BY <1>4, <1>5, <1>6, <1>7, <1>8, <1>9, <1>10, <1>11, <1>12

\* A new object is free: a thread that held the mutex would refer to it.
LEMMA UnreferencedFree ==
    ASSUME Types, MutexDiscipline, NEW r \in Resources, ~Referenced(r)
    PROVE  owner[r] = None
  BY DEF MutexDiscipline, Referenced, Types, TypeOK

LEMMA EraseIs ==
    ASSUME Types, NEW w \in Workers, EraseEntry(w)
    PROVE  /\ calls[w].pc = "erase" /\ calls[w].pc \in Inside
           /\ calls[w].method = "destroy"
           /\ calls[w].id \in Sessions
           /\ calls[w].resource \in Resources
           /\ calls'[w].pc = "returned" /\ calls'[w].resource = None
           /\ calls'[w].got = {} /\ calls'[w].outcome = "ok"
           /\ calls'[w].method = calls[w].method /\ calls'[w].id = calls[w].id
           /\ calls'[w].from = calls[w].from
           /\ \A v \in Workers \ {w} : calls'[v] = calls[v]
           /\ UNCHANGED <<heap, owner, allocated, lost>>
<1>1. calls[w].pc = "erase" /\ calls[w].pc \in Inside /\ calls[w].pc # "idle"
  BY DEF EraseEntry, At, Inside
<1>2. calls[w].method = "destroy"
  BY <1>1, CallShape, Names DEF Methods, Lifecycle, Reads, Settings
<1> QED
  BY <1>1, <1>2, CallShape, ObjectStep, AnswerIs DEF EraseEntry, Return

LEMMA InvokeIs ==
    ASSUME Types, NEW w \in Workers, NEW method, NEW id, Invoke(w, method, id)
    PROVE  /\ calls[w].pc = "idle" /\ calls[w].method = "none" /\ calls[w].resource = None
           /\ calls'[w].pc = "lookup" /\ calls'[w].resource = None
           /\ calls'[w].method = method /\ calls'[w].id = id
           /\ calls'[w].got = {} /\ calls'[w].outcome = "none"
           /\ calls'[w].from = None
           /\ \A v \in Workers \ {w} : calls'[v] = calls[v]
           /\ UNCHANGED <<resources, heap, owner, allocated, lost>>
  BY DEF Invoke, NoCall, Types, TypeOK

LEMMA CollectIs ==
    ASSUME Types, NEW w \in Workers, Collect(w)
    PROVE  /\ calls[w].pc = "returned" /\ calls[w].resource = None
           /\ calls'[w] = NoCall
           /\ calls'[w].pc = "idle" /\ calls'[w].method = "none"
           /\ calls'[w].resource = None /\ calls'[w].got = {}
           /\ \A v \in Workers \ {w} : calls'[v] = calls[v]
           /\ UNCHANGED <<resources, heap, owner, allocated, lost>>
<1>1. calls[w].pc = "returned" /\ calls[w].resource = None
  BY CallShape DEF Collect, At, Inside, Holding
<1> QED
  BY <1>1 DEF Collect, NoCall, Types, TypeOK

LEMMA InitLocking == Init => Locking
<1> SUFFICES ASSUME Init PROVE Locking
  OBVIOUS
<1>1. \A w \in Workers : calls[w].pc = "idle"
  BY NoCallType DEF Init
<1>2. MutexDiscipline
  BY <1>1 DEF Init, MutexDiscipline, Holding
<1>3. HolderKnows
  BY <1>1 DEF HolderKnows, Knows
<1>4. ObjectsConsistent
  BY ConsistentObjects, FreshConsistent DEF Init
<1> QED
  BY <1>2, <1>3, <1>4 DEF Locking

LEMMA LockingNext == Types /\ Locking /\ [Next]_vars => Locking'
<1> SUFFICES ASSUME Types, Locking, [Next]_vars PROVE Locking'
  OBVIOUS
<1>1. CASE UNCHANGED vars
  BY <1>1 DEF vars, Locking, MutexDiscipline, Locked, HolderKnows, Mine,
              ObjectsConsistent
<1>2. ASSUME NEW w \in Workers, NEW method \in Methods, NEW id \in Sessions,
             Invoke(w, method, id)
      PROVE  Locking'
  BY <1>2, InvokeIs, OutsideStep DEF Holding
<1>3. ASSUME NEW w \in Workers, Collect(w) PROVE Locking'
  BY <1>3, CollectIs, OutsideStep DEF Holding
<1>4. ASSUME NEW w \in Workers, Find(w) \/ NotFound(w) PROVE Locking'
  <2>1. UNCHANGED heap
    BY <1>4 DEF Find, NotFound
  <2> QED
    BY <1>4, <2>1, LookupIs, OutsideStep DEF Holding
<1>5. ASSUME NEW w \in Workers, CreateResources(w) PROVE Locking'
  <2>1. PICK r \in Resources : ~Referenced(r) /\ heap' = [heap EXCEPT ![r] = Fresh]
    BY <1>5 DEF CreateResources
  <2>2. owner[r] = None
    BY <2>1, UnreferencedFree DEF Locking
  <2>3. \A q \in Resources :
            heap'[q] = heap[q] \/ (owner[q] = None /\ Consistent(heap'[q]))
    BY <2>1, <2>2, FreshConsistent DEF Types, TypeOK
  <2>4. /\ UNCHANGED owner
        /\ calls[w].pc \notin Holding /\ calls'[w].pc \notin Holding
        /\ \A v \in Workers \ {w} : calls'[v] = calls[v]
    BY <1>5, LookupIs DEF Holding
  <2> QED
    BY <2>3, <2>4, OutsideStep
<1>6. ASSUME NEW w \in Workers, Connect(w) \/ ConnectFails(w) PROVE Locking'
  BY <1>6, ConnectIs, OutsideStep DEF Holding
<1>7. ASSUME NEW w \in Workers, EraseEntry(w) PROVE Locking'
  BY <1>7, EraseIs, OutsideStep DEF Holding
<1>8. ASSUME NEW w \in Workers, Step(w) PROVE Locking'
  BY <1>4, <1>5, <1>6, <1>7, <1>8, EnterKeepsLocking, InsideKeepsLocking DEF Step, Proceed
<1> QED
  BY <1>1, <1>2, <1>3, <1>8 DEF Next

\* No two threads are ever in the sections of one object together, and every way
\* out of a section, the exceptions included, gives the mutex up.
THEOREM SectionsExclusive == Spec => []MutexDiscipline
<1>1. Types /\ Locking /\ [Next]_vars => (Types /\ Locking)'
  BY TypesNext, LockingNext
<1>2. Init => Types /\ Locking
  BY InitTypes, InitLocking
<1>3. Types /\ Locking => MutexDiscipline
  BY DEF Locking
<1> QED
  BY <1>1, <1>2, <1>3, PTL DEF Spec

\* Whoever takes an object's mutex finds the object in a state that a whole
\* operation, or one that failed, has left.
THEOREM FreeObjectsConsistent == Spec => []ObjectsConsistent
<1>1. Types /\ Locking /\ [Next]_vars => (Types /\ Locking)'
  BY TypesNext, LockingNext
<1>2. Init => Types /\ Locking
  BY InitTypes, InitLocking
<1>3. Types /\ Locking => ObjectsConsistent
  BY DEF Locking
<1> QED
  BY <1>1, <1>2, <1>3, PTL DEF Spec

-----------------------------------------------------------------------------
(* Entries. The map names the object of a lifecycle call as long as the call *)
(* lasts, so nothing is built in an object that the map has dropped.         *)

LEMMA LifecycleIs ==
    /\ Lifecycle = {"prepare", "start", "stop", "destroy"}
    /\ \A m \in Methods : \A pc \in Path(m) :
           pc \in {"allocate", "launch", "halt", "erase"} => m \in Lifecycle
    /\ NoCall.method \notin Lifecycle
  BY Names DEF Lifecycle, Methods, Reads, Settings, NoCall

\* The steps of Enter and those in the sections, seen from the map.
Sectional(w) ==
    \/ Enter(w)
    \/ Allocate(w) \/ AllocateThrows(w) \/ Load(w)
    \/ \E kind \in Exceptions : LoadThrows(w, kind)
    \/ Launch(w) \/ LaunchThrows(w) \/ Halt(w)
    \/ \E kind \in Exceptions : HaltThrows(w, kind)
    \/ Reply(w)

\* What such a step leaves as it is: the map, every other object, and the
\* object too unless the call is one of the lifecycle.
KeepsRest(w) ==
    /\ UNCHANGED resources
    /\ \A v \in Workers \ {w} : calls'[v] = calls[v]
    /\ calls'[w].method = calls[w].method /\ calls'[w].id = calls[w].id
    /\ calls'[w].from = calls[w].from
    /\ calls'[w].resource \in {calls[w].resource, None}
    /\ \A q \in Resources \ {calls[w].resource} : heap'[q] = heap[q]
    /\ UNCHANGED heap \/ calls[w].method \in Lifecycle
    /\ calls'[w].pc = "erase" => Empty(heap'[calls[w].resource])

LEMMA TornDownEmpty ==
    ASSUME NEW object \in Objects
    PROVE  Empty(TornDown(object))
  BY DEF Empty, TornDown, Objects

LEMMA EnterKeepsRest ==
    ASSUME Types, NEW w \in Workers, Enter(w)
    PROVE  calls[w].pc = "enter" /\ KeepsRest(w)
<1>1. CASE Passes(w) \/ Fetch(w)
  BY <1>1, PassesIs, FetchIs DEF KeepsRest
<1>2. CASE StartAgain(w) /\ ~Serving(Mine(w))
  <2>1. /\ Entering(w, {"prepare", "start"}) /\ UNCHANGED resources
        /\ Update(w, [Mine(w) EXCEPT !.phase = "Starting"])
        /\ Continue(w, "launch")
    BY <1>2 DEF StartAgain, Entering
  <2> QED
    BY <2>1, Entered, ObjectIs, ContinueIs, LifecycleIs DEF KeepsRest
<1>3. CASE PrepareBegin(w)
  <2>1. /\ Entering(w, {"prepare", "start"}) /\ UNCHANGED resources
        /\ Update(w, [Mine(w) EXCEPT !.bindings = {}])
        /\ Continue(w, "allocate")
    BY <1>3 DEF PrepareBegin
  <2> QED
    BY <2>1, Entered, ObjectIs, ContinueIs, LifecycleIs DEF KeepsRest
<1>4. CASE StopIdle(w)
  <2>1. /\ Entering(w, {"stop", "destroy"}) /\ UNCHANGED resources
        /\ Update(w, TornDown(Mine(w)))
        /\ Return(w) \/ Continue(w, "erase")
    BY <1>4 DEF StopIdle, Teardown, AfterTeardown
  <2> QED
    BY <2>1, Entered, ObjectIs, ReturnIs, ContinueIs, LifecycleIs, TornDownEmpty
       DEF KeepsRest
<1>5. CASE StopRunning(w)
  <2>1. /\ Entering(w, {"stop", "destroy"}) /\ UNCHANGED resources
        /\ Update(w, [Mine(w) EXCEPT !.phase = "Stopping"])
        /\ Continue(w, "halt")
    BY <1>5 DEF StopRunning
  <2> QED
    BY <2>1, Entered, ObjectIs, ContinueIs, LifecycleIs DEF KeepsRest
<1>6. CASE SendSettings(w)
  <2>1. /\ Entering(w, Settings) /\ UNCHANGED <<resources, heap>> /\ Continue(w, "reply")
    BY <1>6 DEF SendSettings
  <2> QED
    BY <2>1, Entered, ContinueIs DEF KeepsRest
<1> QED
  BY <1>1, <1>2, <1>3, <1>4, <1>5, <1>6 DEF Enter, Passes

LEMMA SectionalKeepsRest ==
    ASSUME Types, NEW w \in Workers, Sectional(w)
    PROVE  /\ calls[w].pc \in {"enter"} \cup Holding
           /\ calls[w].resource \in Resources
           /\ calls[w].id \in Sessions
           /\ KeepsRest(w)
<1>1. CASE Enter(w)
  <2>1. calls[w].pc = "enter" /\ calls[w].pc \in Inside /\ KeepsRest(w)
    BY <1>1, EnterKeepsRest DEF Inside
  <2> QED
    BY <2>1, ObjectStep, CallShape
<1>2. CASE ~Enter(w)
  <2>1. calls[w].pc \in Holding /\ calls[w].pc \in Inside
    BY <1>2 DEF Sectional, Allocate, AllocateThrows, Load, LoadThrows, Launch, LaunchThrows,
                Halt, HaltThrows, Reply, At, Inside, Holding
  <2>2. /\ calls[w].resource \in Resources /\ calls[w].id \in Sessions
        /\ Mine(w) \in Objects
        /\ calls[w].pc \in {"allocate", "launch", "halt"} => calls[w].method \in Lifecycle
    BY <2>1, ObjectStep, CallShape, LifecycleIs
  <2>3. CASE Allocate(w)
    <3>1. PICK got :
              /\ calls' = [calls EXCEPT ![w].got = got]
              /\ UNCHANGED <<resources, heap>> /\ calls[w].pc = "allocate"
      BY <2>3 DEF Allocate, At
    <3> QED
      BY <2>1, <2>2, <3>1 DEF KeepsRest, Types, TypeOK, Calls
  <2>4. CASE AllocateThrows(w) \/ LaunchThrows(w) \/ Reply(w)
             \/ \E kind \in Exceptions : LoadThrows(w, kind)
    <3>1. (Return(w) \/ Throw(w)) /\ UNCHANGED <<resources, heap>>
      BY <2>4 DEF AllocateThrows, LaunchThrows, Reply, LoadThrows
    <3> QED
      BY <2>1, <2>2, <3>1, ReturnIs DEF KeepsRest
  <2>5. CASE Load(w)
    <3> DEFINE o == [Mine(w) EXCEPT !.execution = "prepared", !.phase = "Idle",
                                    !.bindings = calls[w].got]
               starting == [o EXCEPT !.phase = "Starting"]
    <3>1. \/ Update(w, o) /\ Return(w)
          \/ /\ Update(w, starting)
             /\ calls' = [calls EXCEPT ![w].pc = "launch", ![w].got = {}]
      BY <2>5 DEF Load
    <3>2. UNCHANGED resources /\ calls[w].pc = "allocate"
      BY <2>5 DEF Load, At
    <3> HIDE DEF o, starting
    <3>3. \A q \in Resources \ {calls[w].resource} : heap'[q] = heap[q]
      BY <2>1, <3>1, ObjectIs
    <3>4. CASE Return(w)
      BY <2>1, <2>2, <3>2, <3>3, <3>4, ReturnIs DEF KeepsRest
    <3>5. CASE calls' = [calls EXCEPT ![w].pc = "launch", ![w].got = {}]
      <4>1. /\ \A v \in Workers \ {w} : calls'[v] = calls[v]
            /\ calls'[w].method = calls[w].method /\ calls'[w].id = calls[w].id
            /\ calls'[w].from = calls[w].from
            /\ calls'[w].resource = calls[w].resource /\ calls'[w].pc = "launch"
        BY <3>5 DEF Types, TypeOK, Calls
      <4> QED
        BY <2>1, <2>2, <3>2, <3>3, <4>1 DEF KeepsRest
    <3> QED
      BY <3>1, <3>4, <3>5
  <2>6. CASE Launch(w)
    BY <2>1, <2>2, <2>6, ObjectIs, ReturnIs DEF KeepsRest, Launch, At
  <2>7. CASE Halt(w)
    <3>1. /\ Update(w, TornDown(Mine(w))) /\ UNCHANGED resources
          /\ Return(w) \/ Continue(w, "erase")
          /\ calls[w].pc = "halt"
      BY <2>7 DEF Halt, Teardown, AfterTeardown, At
    <3> QED
      BY <2>1, <2>2, <3>1, ObjectIs, ReturnIs, ContinueIs, TornDownEmpty DEF KeepsRest
  <2>8. ASSUME NEW kind \in Exceptions, HaltThrows(w, kind) PROVE KeepsRest(w)
    <3>1. /\ Update(w, [Mine(w) EXCEPT !.phase = "Failed"]) \/ UNCHANGED heap
          /\ Throw(w) /\ UNCHANGED resources /\ calls[w].pc = "halt"
      BY <2>8 DEF HaltThrows, At
    <3> QED
      BY <2>1, <2>2, <3>1, ObjectIs, ReturnIs DEF KeepsRest
  <2> QED
    BY <1>2, <2>1, <2>2, <2>3, <2>4, <2>5, <2>6, <2>7, <2>8 DEF Sectional
<1> QED
  BY <1>1, <1>2

LEMMA SameObjectSameCall ==
    ASSUME Types, Entries, NEW v \in Workers, NEW w \in Workers,
           calls[v].method \in Lifecycle, calls[w].method \in Lifecycle,
           calls[v].resource = calls[w].resource, calls[w].resource # None
    PROVE  v = w
<1>1. resources[calls[v].id] = resources[calls[w].id] /\ resources[calls[w].id] # None
  BY DEF Entries, EntryStands
<1>2. calls[v].id \in Sessions /\ calls[w].id \in Sessions
  BY LifecycleIs DEF Types, WellFormed
<1>3. calls[v].id = calls[w].id
  BY <1>1, <1>2 DEF Entries, OneEntry
<1> QED
  BY <1>3 DEF Entries, OneCaller

\* What a thread at "erase" looks like.
LEMMA Erasing ==
    ASSUME Types, NEW w \in Workers, At(w, "erase")
    PROVE  /\ calls[w].method \in Lifecycle /\ calls[w].id \in Sessions
           /\ calls[w].resource \in Resources /\ calls[w].resource # None
<1>1. calls[w].pc = "erase" /\ calls[w].pc \in Inside /\ calls[w].pc # "idle"
  BY DEF At, Inside
<1> QED
  BY <1>1, CallShape, ObjectStep, LifecycleIs

LEMMA SectionalKeepsEntries ==
    ASSUME Types, Types', Entries, NEW w \in Workers, Sectional(w)
    PROVE  Entries'
<1> DEFINE r == calls[w].resource
<1>1. /\ r \in Resources /\ r # None /\ calls[w].id \in Sessions
      /\ calls[w].pc # "erase"
      /\ KeepsRest(w)
  BY SectionalKeepsRest, RuntimeAssumption DEF Holding
<1>2. \A v \in Workers :
          /\ calls'[v].method = calls[v].method /\ calls'[v].id = calls[v].id
          /\ calls'[v].resource \in {calls[v].resource, None}
  BY <1>1 DEF KeepsRest
<1>3. OneCaller' /\ OneEntry' /\ EntryStands'
  BY <1>1, <1>2 DEF Entries, OneCaller, OneEntry, EntryStands, KeepsRest
<1>4. ASSUME NEW q \in Resources, \A id \in Sessions : resources'[id] # q
      PROVE  Empty(heap'[q])
  <2>1. \A id \in Sessions : resources[id] # q
    BY <1>1, <1>4 DEF KeepsRest
  <2>2. Empty(heap[q])
    BY <2>1 DEF Entries, ErasedEmpty
  <2>3. calls[w].method \in Lifecycle => q # r
    BY <1>1, <2>1 DEF Entries, EntryStands
  <2> QED
    BY <1>1, <2>2, <2>3 DEF KeepsRest
<1>5. ASSUME NEW v \in Workers, At(v, "erase")'
      PROVE  Empty(Mine(v)')
  <2>1. CASE v = w
    <3>1. calls'[w].pc = "erase" /\ calls'[w].resource # None
      BY <1>5, <2>1 DEF At, Types, TypeOK
    <3> QED
      BY <1>1, <2>1, <3>1 DEF KeepsRest, Mine
  <2>2. CASE v # w
    <3>1. At(v, "erase") /\ calls'[v] = calls[v]
      BY <1>1, <1>5, <2>2 DEF KeepsRest, At
    <3>2. Empty(heap[calls[v].resource])
      BY <3>1 DEF Entries, ErasedEmpty, Mine
    <3>3. calls[w].method \in Lifecycle => calls[v].resource # r
      BY <1>1, <2>2, <3>1, Erasing, SameObjectSameCall
    <3>4. heap'[calls[v].resource] = heap[calls[v].resource]
      BY <1>1, <3>1, <3>3, Erasing DEF KeepsRest
    <3> QED
      BY <3>1, <3>2, <3>4 DEF Mine
  <2> QED
    BY <2>1, <2>2
<1> QED
  BY <1>3, <1>4, <1>5 DEF Entries, ErasedEmpty

LEMMA LookupKeepsEntries ==
    ASSUME Types, Entries, NEW w \in Workers, Find(w) \/ CreateResources(w) \/ NotFound(w)
    PROVE  Entries'
<1>1. /\ calls[w].pc = "lookup" /\ calls[w].id \in Sessions
      /\ calls'[w].pc \in {"enter", "returned"}
      /\ calls'[w].method = calls[w].method /\ calls'[w].id = calls[w].id
      /\ \A v \in Workers \ {w} : calls'[v] = calls[v]
  BY LookupIs
<1>2. OneCaller'
  BY <1>1 DEF Entries, OneCaller
<1>3. CASE Find(w) \/ NotFound(w)
  <2>1. UNCHANGED <<resources, heap>>
    BY <1>3 DEF Find, NotFound
  <2>2. calls'[w].resource = None \/ calls'[w].resource = resources[calls[w].id]
    <3>1. CASE Find(w)
      BY <3>1 DEF Find, Take, Types, TypeOK, Calls
    <3>2. CASE NotFound(w)
      BY <3>2, ReturnIs DEF NotFound
    <3> QED
      BY <1>3, <3>1, <3>2
  <2>3. OneEntry' /\ EntryStands'
    BY <1>1, <2>1, <2>2 DEF Entries, OneEntry, EntryStands
  <2>4. ErasedEmpty'
    BY <1>1, <2>1 DEF Entries, ErasedEmpty, At, Mine
  <2> QED
    BY <1>2, <2>3, <2>4 DEF Entries
<1>4. CASE CreateResources(w)
  <2>1. PICK r \in Resources :
            /\ ~Referenced(r)
            /\ resources' = [resources EXCEPT ![calls[w].id] = r]
            /\ heap' = [heap EXCEPT ![r] = Fresh]
            /\ Take(w, r)
    BY <1>4 DEF CreateResources
  <2>2. resources[calls[w].id] = None
    BY <1>4 DEF CreateResources
  <2>3. /\ resources'[calls[w].id] = r
        /\ \A id \in Sessions \ {calls[w].id} : resources'[id] = resources[id]
        /\ heap'[r] = Fresh
        /\ \A q \in Resources \ {r} : heap'[q] = heap[q]
        /\ calls'[w].resource = r
    BY <1>1, <2>1 DEF Take, Types, TypeOK, Calls
  <2>4. \A id \in Sessions : resources[id] # r
    BY <2>1 DEF Referenced
  <2>5. \A v \in Workers : calls[v].resource # r
    BY <2>1 DEF Referenced
  <2>6. OneEntry'
    BY <2>3, <2>4 DEF Entries, OneEntry
  <2>7. EntryStands'
    <3> SUFFICES ASSUME NEW v \in Workers, v # w, calls[v].method \in Lifecycle,
                        calls[v].resource # None
                 PROVE  resources'[calls[v].id] = calls[v].resource
      BY <1>1, <2>3 DEF EntryStands
    <3>1. resources[calls[v].id] = calls[v].resource
      BY DEF Entries, EntryStands
    <3>2. calls[v].id \in Sessions
      BY CallShape, LifecycleIs, NoCallType DEF Types, WellFormed
    <3> QED
      BY <2>2, <2>3, <3>1, <3>2
  <2>8. ErasedEmpty'
    <3>1. ASSUME NEW q \in Resources, \A id \in Sessions : resources'[id] # q
          PROVE  Empty(heap'[q])
      <4>1. q # r /\ \A id \in Sessions : resources[id] # q
        BY <1>1, <2>2, <2>3, <3>1, RuntimeAssumption
      <4> QED
        BY <2>3, <4>1 DEF Entries, ErasedEmpty
    <3>2. ASSUME NEW v \in Workers, At(v, "erase")'
          PROVE  Empty(Mine(v)')
      <4>1. v # w /\ calls'[v] = calls[v] /\ At(v, "erase")
        BY <1>1, <3>2 DEF At
      <4>2. calls[v].resource \in Resources \ {r}
        BY <2>5, <4>1, Erasing
      <4> QED
        BY <2>3, <4>1, <4>2 DEF Entries, ErasedEmpty, Mine
    <3> QED
      BY <3>1, <3>2 DEF ErasedEmpty
  <2> QED
    BY <1>2, <2>6, <2>7, <2>8 DEF Entries
<1> QED
  BY <1>3, <1>4

\* Destroy drops its own entry, which is still that of its object.
LEMMA EraseDrops ==
    ASSUME Types, Entries, NEW w \in Workers, EraseEntry(w)
    PROVE  /\ resources[calls[w].id] = calls[w].resource
           /\ resources'[calls[w].id] = None
           /\ \A id \in Sessions \ {calls[w].id} : resources'[id] = resources[id]
<1>1. calls[w].method \in Lifecycle /\ calls[w].resource # None /\ calls[w].id \in Sessions
  BY Erasing DEF EraseEntry
<1>2. resources[calls[w].id] = calls[w].resource
  BY <1>1 DEF Entries, EntryStands
<1> QED
  BY <1>1, <1>2 DEF EraseEntry, Types, TypeOK

LEMMA EraseKeepsEntries ==
    ASSUME Types, Entries, NEW w \in Workers, EraseEntry(w)
    PROVE  Entries'
<1>1. /\ calls[w].method \in Lifecycle /\ calls[w].id \in Sessions
      /\ calls[w].resource \in Resources
      /\ At(w, "erase")
  BY Erasing DEF EraseEntry
<1>2. /\ calls'[w].pc = "returned" /\ calls'[w].resource = None
      /\ calls'[w].method = calls[w].method /\ calls'[w].id = calls[w].id
      /\ \A v \in Workers \ {w} : calls'[v] = calls[v]
      /\ heap' = heap
  BY EraseIs
<1>3. OneCaller'
  BY <1>2 DEF Entries, OneCaller
<1>4. OneEntry'
  BY <1>1, EraseDrops DEF Entries, OneEntry
<1>5. EntryStands'
  <2> SUFFICES ASSUME NEW v \in Workers, v # w, calls[v].method \in Lifecycle,
                      calls[v].resource # None
               PROVE  resources'[calls[v].id] = calls[v].resource
    BY <1>2 DEF EntryStands
  <2>1. resources[calls[v].id] = calls[v].resource
    BY DEF Entries, EntryStands
  <2>2. calls[v].id \in Sessions
    BY CallShape, LifecycleIs, NoCallType DEF Types, WellFormed
  <2>3. calls[v].id # calls[w].id
    BY <1>1 DEF Entries, OneCaller
  <2> QED
    BY <2>1, <2>2, <2>3, EraseDrops
<1>6. ErasedEmpty'
  <2>1. ASSUME NEW q \in Resources, \A id \in Sessions : resources'[id] # q
        PROVE  Empty(heap'[q])
    <3>1. CASE q = calls[w].resource
      BY <1>1, <1>2, <3>1 DEF Entries, ErasedEmpty, Mine
    <3>2. CASE q # calls[w].resource
      <4>1. \A id \in Sessions : resources[id] # q
        BY <2>1, <3>2, EraseDrops
      <4> QED
        BY <1>2, <4>1 DEF Entries, ErasedEmpty
    <3> QED
      BY <3>1, <3>2
  <2>2. ASSUME NEW v \in Workers, At(v, "erase")' PROVE Empty(Mine(v)')
    <3>1. At(v, "erase") /\ Mine(v)' = Mine(v)
      BY <1>2, <2>2 DEF At, Mine
    <3> QED
      BY <3>1 DEF Entries, ErasedEmpty
  <2> QED
    BY <2>1, <2>2 DEF ErasedEmpty
<1> QED
  BY <1>3, <1>4, <1>5, <1>6 DEF Entries

LEMMA InitEntries == Init => Entries
<1> SUFFICES ASSUME Init PROVE Entries
  OBVIOUS
<1>1. \A w \in Workers : calls[w].pc = "idle" /\ calls[w].method \notin Lifecycle
  BY NoCallType, LifecycleIs DEF Init
<1>2. Empty(Fresh)
  BY DEF Empty, Fresh
<1> QED
  BY <1>1, <1>2 DEF Init, Entries, OneCaller, OneEntry, EntryStands, ErasedEmpty, At

\* A thread that comes or goes without an object.
LEMMA BorderKeepsEntries ==
    ASSUME Types, Entries, NEW w \in Workers,
           UNCHANGED <<resources, heap>>,
           \A v \in Workers \ {w} : calls'[v] = calls[v],
           calls'[w].resource = None, calls'[w].pc # "erase",
           calls'[w].method \in Lifecycle =>
               \A v \in Workers \ {w} :
                   calls[v].method \in Lifecycle => calls[v].id # calls'[w].id
    PROVE  Entries'
  BY DEF Entries, OneCaller, OneEntry, EntryStands, ErasedEmpty, At, Mine

LEMMA EntriesNext == Types /\ Types' /\ Entries /\ [Next]_vars => Entries'
<1> SUFFICES ASSUME Types, Types', Entries, [Next]_vars PROVE Entries'
  OBVIOUS
<1>1. CASE UNCHANGED vars
  BY <1>1 DEF vars, Entries, OneCaller, OneEntry, EntryStands, ErasedEmpty, At, Mine
<1>2. ASSUME NEW w \in Workers, NEW method \in Methods, NEW id \in Sessions,
             CallerAllowed(method, id), Invoke(w, method, id)
      PROVE  Entries'
  BY <1>2, InvokeIs, BorderKeepsEntries DEF CallerAllowed
<1>3. ASSUME NEW w \in Workers, Collect(w) PROVE Entries'
  BY <1>3, CollectIs, LifecycleIs, BorderKeepsEntries
<1>4. ASSUME NEW w \in Workers, Connect(w) \/ ConnectFails(w) PROVE Entries'
  <2>1. /\ calls[w].pc = "connect"
        /\ UNCHANGED <<resources, heap>>
        /\ \A v \in Workers \ {w} : calls'[v] = calls[v]
        /\ calls'[w].resource = None /\ calls'[w].pc = "returned"
        /\ calls'[w].method = calls[w].method /\ calls'[w].id = calls[w].id
    BY <1>4, ConnectIs
  <2>2. \A v \in Workers \ {w} :
            calls[w].method \in Lifecycle /\ calls[v].method \in Lifecycle =>
                calls[v].id # calls[w].id
    BY DEF Entries, OneCaller
  <2> QED
    BY <2>1, <2>2, BorderKeepsEntries
<1>5. ASSUME NEW w \in Workers, Step(w) PROVE Entries'
  BY <1>4, <1>5, LookupKeepsEntries, EraseKeepsEntries, SectionalKeepsEntries
     DEF Step, Proceed, Sectional
<1> QED
  BY <1>1, <1>2, <1>3, <1>5 DEF Next

\* Nothing is left in an object that neither the map nor a call refers to: what
\* destroy relies on when it takes resources_mutex_ again after it has given up
\* the object's own.
THEOREM NothingIsOrphaned == Spec => []NothingOrphaned
<1>1. Types /\ Entries /\ [Next]_vars => (Types /\ Entries)'
  BY TypesNext, EntriesNext
<1>2. Init => Types /\ Entries
  BY InitTypes, InitEntries
<1>3. Types /\ Entries => NothingOrphaned
  BY DEF Entries, ErasedEmpty, NothingOrphaned, Referenced, Empty
<1> QED
  BY <1>1, <1>2, <1>3, PTL DEF Spec

-----------------------------------------------------------------------------
(* The ports. *)

\* k, an object or a thread, keeps the binding b: Kept, taken apart.
Keeps(k, b) ==
    \/ k \in Resources /\ b \in heap[k].bindings
    \/ k \in Workers /\ At(k, "allocate") /\ b \in calls[k].got

\* PortsExclusive and NoPortLeaked, said with Keeps.
Ledger ==
    /\ \A k, l, b, c : Keeps(k, b) /\ Keeps(l, c) /\ b[2] = c[2] => k = l /\ b = c
    /\ \A k, b : Keeps(k, b) => b[2] \in allocated /\ b[2] \notin lost
    /\ \A p : p \in allocated => p \in lost \/ (\E k, b : Keeps(k, b) /\ b[2] = p)
    /\ lost \subseteq allocated

LEMMA KeptIs == \A x : x \in Kept <=> \E k, b : x = <<k, b>> /\ Keeps(k, b)
<1>1. \A x : x \in Kept <=>
          \/ \E r \in Resources : \E b \in heap[r].bindings : x = <<r, b>>
          \/ \E w \in Workers : At(w, "allocate") /\ \E b \in calls[w].got : x = <<w, b>>
  BY DEF Kept
<1> QED
  BY <1>1 DEF Keeps

LEMMA LedgerIs == PortsExclusive /\ NoPortLeaked <=> Ledger
<1> DEFINE ports == {x[2][2] : x \in Kept}
<1>1. \A x \in Kept : \E k, b : x = <<k, b>> /\ x[2] = b /\ Keeps(k, b)
  BY KeptIs
<1>2. \A k, b : Keeps(k, b) => <<k, b>> \in Kept /\ <<k, b>>[2] = b
  BY KeptIs
<1>3. \A p : p \in ports <=> \E x \in Kept : x[2][2] = p
  OBVIOUS
<1>4. \A p : p \in ports <=> \E k, b : Keeps(k, b) /\ b[2] = p
  <2>1. ASSUME NEW p \in ports PROVE \E k, b : Keeps(k, b) /\ b[2] = p
    <3>1. PICK x \in Kept : x[2][2] = p
      BY <1>3
    <3>2. PICK k, b : x[2] = b /\ Keeps(k, b)
      BY <1>1
    <3> QED
      BY <3>1, <3>2
  <2>2. ASSUME NEW k, NEW b, Keeps(k, b) PROVE b[2] \in ports
    <3>1. <<k, b>> \in Kept /\ <<k, b>>[2][2] = b[2]
      BY <1>2, <2>2
    <3> HIDE DEF ports
    <3> QED
      BY <1>3, <3>1
  <2> HIDE DEF ports
  <2> QED
    BY <2>1, <2>2
<1>5. NoPortLeaked <=> allocated = ports \cup lost /\ ports \cap lost = {}
  BY DEF NoPortLeaked
<1>6. PortsExclusive <=>
          /\ \A k, l, b, c : Keeps(k, b) /\ Keeps(l, c) /\ b[2] = c[2] => k = l /\ b = c
          /\ \A k, b : Keeps(k, b) => b[2] \in allocated
  <2>1. ASSUME PortsExclusive, NEW k, NEW l, NEW b, NEW c,
               Keeps(k, b), Keeps(l, c), b[2] = c[2]
        PROVE  k = l /\ b = c /\ b[2] \in allocated
    <3>1. /\ <<k, b>> \in Kept /\ <<k, b>>[2] = b
          /\ <<l, c>> \in Kept /\ <<l, c>>[2] = c
      BY <1>2, <2>1
    <3>2. <<k, b>> = <<l, c>> /\ b[2] \in allocated
      BY <2>1, <3>1 DEF PortsExclusive
    <3> QED
      BY <3>2
  <2>2. ASSUME \A k, l, b, c : Keeps(k, b) /\ Keeps(l, c) /\ b[2] = c[2] => k = l /\ b = c,
               \A k, b : Keeps(k, b) => b[2] \in allocated
        PROVE  PortsExclusive
    BY <1>1, <2>2 DEF PortsExclusive
  <2> QED
    BY <2>1, <2>2
<1> HIDE DEF ports
<1> QED
  BY <1>4, <1>5, <1>6 DEF Ledger

\* The four things a step may do to the ports: nothing; reserve one that is in
\* nobody's hands; pass all that one keeper has to another; give all that one
\* keeper has back, or lose it.
LEMMA LedgerStays ==
    ASSUME Ledger, UNCHANGED <<allocated, lost>>, \A k, b : Keeps(k, b)' <=> Keeps(k, b)
    PROVE  Ledger'
  BY DEF Ledger

LEMMA LedgerReserves ==
    ASSUME Ledger, NEW k, NEW b, b[2] \notin allocated,
           allocated' = allocated \cup {b[2]}, UNCHANGED lost,
           \A l, c : Keeps(l, c)' <=> Keeps(l, c) \/ (l = k /\ c = b)
    PROVE  Ledger'
  BY DEF Ledger

LEMMA LedgerPasses ==
    ASSUME Ledger, NEW k, NEW l, k # l, UNCHANGED <<allocated, lost>>,
           \A b : ~Keeps(l, b), \A b : ~Keeps(k, b)', \A b : Keeps(l, b)' <=> Keeps(k, b),
           \A m, b : m # k /\ m # l => (Keeps(m, b)' <=> Keeps(m, b))
    PROVE  Ledger'
  BY DEF Ledger

LEMMA LedgerGivesUp ==
    ASSUME Ledger, NEW k, NEW B, \A b : b \in B <=> Keeps(k, b),
           \A b : ~Keeps(k, b)',
           \A l, b : l # k => (Keeps(l, b)' <=> Keeps(l, b)),
           \/ allocated' = allocated \ PortsOf(B) /\ UNCHANGED lost
           \/ UNCHANGED allocated /\ lost' = lost \cup PortsOf(B)
    PROVE  Ledger'
<1>1. \A p : p \in PortsOf(B) <=> \E b : Keeps(k, b) /\ b[2] = p
  BY DEF PortsOf
<1>2. \A l, b : Keeps(l, b)' <=> Keeps(l, b) /\ l # k
  OBVIOUS
<1>3. \A l, b : Keeps(l, b) /\ l # k => b[2] \notin PortsOf(B)
  BY <1>1 DEF Ledger
<1> QED
  BY <1>1, <1>2, <1>3 DEF Ledger

\* Only the thread that takes the step and its object can keep something else.
LEMMA KeepsFrame ==
    ASSUME NEW w, NEW r,
           \A v \in Workers \ {w} : calls'[v] = calls[v],
           \A q \in Resources \ {r} : heap'[q] = heap[q]
    PROVE  \A k, b : k # w /\ k # r => (Keeps(k, b)' <=> Keeps(k, b))
  BY DEF Keeps, At

\* What a thread and its object keep.
LEMMA KeepsOfThread ==
    ASSUME NEW w \in Workers
    PROVE  /\ \A b : Keeps(w, b) <=> calls[w].pc = "allocate" /\ b \in calls[w].got
           /\ \A b : Keeps(w, b)' <=> calls'[w].pc = "allocate" /\ b \in calls'[w].got
  BY RuntimeAssumption DEF Keeps, At

LEMMA KeepsOfObject ==
    ASSUME NEW r \in Resources
    PROVE  /\ r \notin Workers
           /\ \A b : Keeps(r, b) <=> b \in heap[r].bindings
           /\ \A b : Keeps(r, b)' <=> b \in heap'[r].bindings
  BY RuntimeAssumption DEF Keeps

\* A step of a call that has not reserved ports, and does not after it, with
\* the bindings of every object as they were.
LEMMA NothingReserved ==
    ASSUME Ledger, NEW w \in Workers, UNCHANGED <<allocated, lost>>,
           \A v \in Workers \ {w} : calls'[v] = calls[v],
           calls[w].pc # "allocate", calls'[w].pc # "allocate",
           \A q \in Resources : heap'[q].bindings = heap[q].bindings
    PROVE  Ledger'
<1>1. \A k, b : Keeps(k, b)' <=> Keeps(k, b)
  BY DEF Keeps, At
<1> QED
  BY <1>1, LedgerStays

\* The object gives its ports back, and the call has none of its own.
LEMMA ObjectGivesUp ==
    ASSUME Ledger, NEW w \in Workers, NEW r \in Resources,
           \A v \in Workers \ {w} : calls'[v] = calls[v],
           \A q \in Resources \ {r} : heap'[q] = heap[q],
           calls[w].pc # "allocate",
           calls'[w].pc # "allocate" \/ calls'[w].got = {},
           heap'[r].bindings = {},
           allocated' = allocated \ PortsOf(heap[r].bindings), UNCHANGED lost
    PROVE  Ledger'
<1>1. \A b : ~Keeps(w, b) /\ ~Keeps(w, b)'
  BY KeepsOfThread
<1>2. \A b : (b \in heap[r].bindings <=> Keeps(r, b)) /\ ~Keeps(r, b)'
  BY KeepsOfObject
<1>3. \A l, b : l # r => (Keeps(l, b)' <=> Keeps(l, b))
  BY <1>1, KeepsFrame
<1> QED
  BY <1>2, <1>3, LedgerGivesUp

\* An allocation or a loader throws: what the call has reserved is given back
\* or lost.
LEMMA CallGivesUp ==
    ASSUME Ledger, NEW w \in Workers, calls[w].pc = "allocate",
           \A v \in Workers \ {w} : calls'[v] = calls[v],
           calls'[w].pc # "allocate", UNCHANGED heap,
           \/ allocated' = allocated \ PortsOf(calls[w].got) /\ UNCHANGED lost
           \/ UNCHANGED allocated /\ lost' = lost \cup PortsOf(calls[w].got)
    PROVE  Ledger'
<1>1. \A b : (b \in calls[w].got <=> Keeps(w, b)) /\ ~Keeps(w, b)'
  BY KeepsOfThread
<1>2. \A l, b : l # w => (Keeps(l, b)' <=> Keeps(l, b))
  BY DEF Keeps, At
<1> QED
  BY <1>1, <1>2, LedgerGivesUp

LEMMA AllocateKeepsLedger ==
    ASSUME Types, Ledger, NEW w \in Workers, Allocate(w)
    PROVE  Ledger'
<1>1. calls[w].pc = "allocate" /\ UNCHANGED <<heap, lost>>
  BY DEF Allocate, At
<1>2. PICK stream \in Missing(w), port \in Ports \ allocated :
          /\ allocated' = allocated \cup {port}
          /\ calls' = [calls EXCEPT ![w].got = @ \cup {<<stream, port>>}]
  BY DEF Allocate
<1> DEFINE b == <<stream, port>>
<1>3. b[2] = port
  OBVIOUS
<1>4. /\ calls'[w].pc = "allocate" /\ calls'[w].got = calls[w].got \cup {b}
      /\ \A v \in Workers \ {w} : calls'[v] = calls[v]
  BY <1>1, <1>2 DEF Types, TypeOK, Calls
<1> HIDE DEF b
<1>5. \A c : Keeps(w, c)' <=> Keeps(w, c) \/ c = b
  BY <1>1, <1>4, KeepsOfThread
<1>6. \A l, c : l # w => (Keeps(l, c)' <=> Keeps(l, c))
  BY <1>1, <1>4 DEF Keeps, At
<1>7. \A l, c : Keeps(l, c)' <=> Keeps(l, c) \/ (l = w /\ c = b)
  BY <1>5, <1>6
<1> QED
  BY <1>1, <1>2, <1>3, <1>7, LedgerReserves

\* The reserved ports become the object's, which had none.
LEMMA LoadKeepsLedger ==
    ASSUME Types, Locking, Ledger, NEW w \in Workers, Load(w)
    PROVE  Ledger'
<1> DEFINE o == [Mine(w) EXCEPT !.execution = "prepared", !.phase = "Idle",
                                !.bindings = calls[w].got]
           starting == [o EXCEPT !.phase = "Starting"]
<1>1. /\ calls[w].pc = "allocate" /\ calls[w].pc \in Inside
      /\ UNCHANGED <<allocated, lost>>
  BY DEF Load, At, Inside, Holding
<1>2. calls[w].resource \in Resources /\ Mine(w) \in Objects /\ Mine(w) = Fresh
  BY <1>1, ObjectStep DEF Locking, HolderKnows, Knows
<1>3. PICK r \in Resources : r = calls[w].resource
  BY <1>2
<1>4. o.bindings = calls[w].got /\ starting.bindings = calls[w].got
  BY <1>2 DEF Objects
<1>5. /\ Update(w, o) \/ Update(w, starting)
      /\ calls'[w].pc # "allocate"
      /\ \A v \in Workers \ {w} : calls'[v] = calls[v]
  <2>1. CASE calls[w].method = "prepare"
    <3>1. Update(w, o) /\ Return(w)
      BY <2>1 DEF Load
    <3> HIDE DEF o
    <3> QED
      BY <3>1, ReturnIs
  <2>2. CASE calls[w].method # "prepare"
    <3>1. /\ Update(w, starting)
          /\ calls' = [calls EXCEPT ![w].pc = "launch", ![w].got = {}]
      BY <2>2 DEF Load
    <3>2. /\ calls'[w].pc = "launch"
          /\ \A v \in Workers \ {w} : calls'[v] = calls[v]
      BY <3>1 DEF Types, TypeOK, Calls
    <3> HIDE DEF starting
    <3> QED
      BY <3>1, <3>2
  <2> QED
    BY <2>1, <2>2
<1> HIDE DEF o, starting
<1>6. /\ heap[r].bindings = {} /\ heap'[r].bindings = calls[w].got
      /\ \A q \in Resources \ {r} : heap'[q] = heap[q]
  BY <1>1, <1>2, <1>4, <1>5, <1>3, ObjectIs DEF Mine, Fresh
<1>7. w # r /\ (\A b : ~Keeps(r, b)) /\ (\A b : Keeps(r, b)' <=> b \in calls[w].got)
  BY <1>6, KeepsOfObject
<1>8. (\A b : Keeps(w, b) <=> b \in calls[w].got) /\ (\A b : ~Keeps(w, b)')
  BY <1>1, <1>5, KeepsOfThread
<1>9. \A m, b : m # w /\ m # r => (Keeps(m, b)' <=> Keeps(m, b))
  BY <1>5, <1>6, KeepsFrame
<1> QED
  BY <1>1, <1>7, <1>8, <1>9, LedgerPasses

LEMMA EnterKeepsLedger ==
    ASSUME Types, Ledger, NEW w \in Workers, Enter(w)
    PROVE  Ledger'
<1> DEFINE r == calls[w].resource
<1>1. CASE Passes(w) \/ Fetch(w)
  BY <1>1, PassesIs, FetchIs, NothingReserved
<1>2. CASE (StartAgain(w) /\ ~Serving(Mine(w))) \/ StopRunning(w) \/ SendSettings(w)
  <2> DEFINE starting == [Mine(w) EXCEPT !.phase = "Starting"]
             stopping == [Mine(w) EXCEPT !.phase = "Stopping"]
  <2>1. /\ \/ Entering(w, {"start"}) \/ Entering(w, {"stop", "destroy"})
           \/ Entering(w, Settings)
        /\ Continue(w, "launch") \/ Continue(w, "halt") \/ Continue(w, "reply")
        /\ Update(w, starting) \/ Update(w, stopping) \/ UNCHANGED heap
        /\ UNCHANGED <<allocated, lost>>
    BY <1>2 DEF StartAgain, StopRunning, SendSettings
  <2>2. calls[w].pc = "enter" /\ calls[w].pc \in Inside /\ r \in Resources /\ Mine(w) \in Objects
    BY <2>1, Entered
  <2>3. starting.bindings = heap[r].bindings /\ stopping.bindings = heap[r].bindings
    BY <2>2 DEF Objects, Mine
  <2> HIDE DEF starting, stopping
  <2>4. \A q \in Resources : heap'[q].bindings = heap[q].bindings
    BY <2>1, <2>2, <2>3, ObjectIs
  <2>5. calls'[w].pc # "allocate" /\ \A v \in Workers \ {w} : calls'[v] = calls[v]
    BY <2>1, ContinueIs
  <2> QED
    BY <2>1, <2>2, <2>4, <2>5, NothingReserved
<1>3. CASE PrepareBegin(w) \/ StopIdle(w)
  <2> DEFINE emptied == [Mine(w) EXCEPT !.bindings = {}]
             down == TornDown(Mine(w))
  <2>1. /\ Entering(w, {"prepare", "start"}) \/ Entering(w, {"stop", "destroy"})
        /\ allocated' = allocated \ PortsOf(Mine(w).bindings) /\ UNCHANGED lost
        /\ Update(w, emptied) \/ Update(w, down)
        /\ Return(w) \/ Continue(w, "allocate") \/ Continue(w, "erase")
    BY <1>3 DEF PrepareBegin, StopIdle, Teardown, AfterTeardown
  <2>2. /\ calls[w].pc = "enter" /\ calls[w].pc \in Inside /\ calls[w].got = {}
        /\ r \in Resources /\ Mine(w) \in Objects
    BY <2>1, Entered
  <2>3. emptied.bindings = {} /\ down.bindings = {}
    BY <2>2 DEF Objects, TornDown
  <2> HIDE DEF emptied, down
  <2>4. heap'[r].bindings = {} /\ \A q \in Resources \ {r} : heap'[q] = heap[q]
    BY <2>1, <2>2, <2>3, ObjectIs
  <2>5. /\ calls'[w].got = {}
        /\ \A v \in Workers \ {w} : calls'[v] = calls[v]
    BY <2>1, <2>2, ReturnIs, ContinueIs
  <2> QED
    BY <2>1, <2>2, <2>4, <2>5, ObjectGivesUp DEF Mine
<1> QED
  BY <1>1, <1>2, <1>3 DEF Enter, Passes

LEMMA InsideKeepsLedger ==
    ASSUME Types, Locking, Ledger, NEW w \in Workers,
           \/ Allocate(w) \/ AllocateThrows(w) \/ Load(w)
           \/ \E kind \in Exceptions : LoadThrows(w, kind)
           \/ Launch(w) \/ LaunchThrows(w) \/ Halt(w)
           \/ \E kind \in Exceptions : HaltThrows(w, kind)
           \/ Reply(w)
    PROVE  Ledger'
<1> DEFINE r == calls[w].resource
<1>1. ASSUME \/ AllocateThrows(w)
             \/ \E kind \in Exceptions : LoadThrows(w, kind)
      PROVE  Ledger'
  <2>1. /\ calls[w].pc = "allocate" /\ Throw(w) /\ UNCHANGED heap
        /\ \/ allocated' = allocated \ PortsOf(calls[w].got) /\ UNCHANGED lost
           \/ UNCHANGED allocated /\ lost' = lost \cup PortsOf(calls[w].got)
    BY <1>1 DEF AllocateThrows, LoadThrows, At
  <2> QED
    BY <2>1, ReturnIs, CallGivesUp
<1>2. CASE Halt(w)
  <2> DEFINE down == TornDown(Mine(w))
  <2>1. /\ calls[w].pc = "halt" /\ calls[w].pc \in Inside
        /\ allocated' = allocated \ PortsOf(Mine(w).bindings) /\ UNCHANGED lost
        /\ Update(w, down)
        /\ Return(w) \/ Continue(w, "erase")
    BY <1>2 DEF Halt, Teardown, AfterTeardown, At, Inside, Holding
  <2>2. r \in Resources /\ Mine(w) \in Objects
    BY <2>1, ObjectStep
  <2>3. down.bindings = {}
    BY <2>2 DEF Objects, TornDown
  <2> HIDE DEF down
  <2>4. heap'[r].bindings = {} /\ \A q \in Resources \ {r} : heap'[q] = heap[q]
    BY <2>1, <2>2, <2>3, ObjectIs
  <2>5. calls'[w].pc # "allocate" /\ \A v \in Workers \ {w} : calls'[v] = calls[v]
    BY <2>1, ReturnIs, ContinueIs
  <2> QED
    BY <2>1, <2>2, <2>4, <2>5, ObjectGivesUp DEF Mine
<1>3. ASSUME \/ Launch(w) \/ LaunchThrows(w) \/ Reply(w)
             \/ \E kind \in Exceptions : HaltThrows(w, kind)
      PROVE  Ledger'
  <2> DEFINE launched == [Mine(w) EXCEPT !.execution = "running", !.phase = "Running"]
             failed == [Mine(w) EXCEPT !.phase = "Failed"]
  <2>1. /\ calls[w].pc \in {"launch", "halt", "reply"} /\ calls[w].pc \in Inside
        /\ UNCHANGED <<allocated, lost>>
        /\ Return(w) \/ Throw(w)
        /\ UNCHANGED heap \/ Update(w, launched) \/ Update(w, failed)
    BY <1>3 DEF Launch, LaunchThrows, HaltThrows, Reply, At, Inside, Holding
  <2>2. r \in Resources /\ Mine(w) \in Objects
    BY <2>1, ObjectStep
  <2>3. launched.bindings = heap[r].bindings /\ failed.bindings = heap[r].bindings
    BY <2>2 DEF Objects, Mine
  <2> HIDE DEF launched, failed
  <2>4. \A q \in Resources : heap'[q].bindings = heap[q].bindings
    BY <2>1, <2>2, <2>3, ObjectIs
  <2>5. calls'[w].pc = "returned" /\ \A v \in Workers \ {w} : calls'[v] = calls[v]
    BY <2>1, ReturnIs
  <2> QED
    BY <2>1, <2>4, <2>5, NothingReserved
<1> QED
  BY <1>1, <1>2, <1>3, AllocateKeepsLedger, LoadKeepsLedger

\* The cell that a new object takes has no binding left.
LEMMA LookupKeepsLedger ==
    ASSUME Types, Entries, Ledger, NEW w \in Workers,
           Find(w) \/ CreateResources(w) \/ NotFound(w)
    PROVE  Ledger'
<1>1. /\ calls[w].pc = "lookup" /\ calls'[w].pc \in {"enter", "returned"}
      /\ \A v \in Workers \ {w} : calls'[v] = calls[v]
      /\ UNCHANGED <<allocated, lost>>
  BY LookupIs
<1>2. \A q \in Resources : heap'[q].bindings = heap[q].bindings
  <2>1. CASE Find(w) \/ NotFound(w)
    BY <2>1 DEF Find, NotFound
  <2>2. CASE CreateResources(w)
    <3>1. PICK r \in Resources : ~Referenced(r) /\ heap' = [heap EXCEPT ![r] = Fresh]
      BY <2>2 DEF CreateResources
    <3>2. heap[r].bindings = {}
      BY <3>1 DEF Referenced, Entries, ErasedEmpty, Empty
    <3> QED
      BY <3>1, <3>2 DEF Fresh, Types, TypeOK
  <2> QED
    BY <2>1, <2>2
<1> QED
  BY <1>1, <1>2, NothingReserved

LEMMA LedgerNext == Types /\ Locking /\ Entries /\ Ledger /\ [Next]_vars => Ledger'
<1> SUFFICES ASSUME Types, Locking, Entries, Ledger, [Next]_vars PROVE Ledger'
  OBVIOUS
<1>1. CASE UNCHANGED vars
  <2>1. \A k, b : Keeps(k, b)' <=> Keeps(k, b)
    BY <1>1 DEF vars, Keeps, At
  <2> QED
    BY <1>1, <2>1, LedgerStays DEF vars
<1>2. ASSUME NEW w \in Workers, NEW method \in Methods, NEW id \in Sessions,
             Invoke(w, method, id)
      PROVE  Ledger'
  BY <1>2, InvokeIs, NothingReserved
<1>3. ASSUME NEW w \in Workers, Collect(w) PROVE Ledger'
  BY <1>3, CollectIs, NothingReserved
<1>4. ASSUME NEW w \in Workers, Connect(w) \/ ConnectFails(w) PROVE Ledger'
  BY <1>4, ConnectIs, NothingReserved
<1>5. ASSUME NEW w \in Workers, EraseEntry(w) PROVE Ledger'
  BY <1>5, EraseIs, NothingReserved
<1>6. ASSUME NEW w \in Workers, Step(w) PROVE Ledger'
  BY <1>4, <1>5, <1>6, EnterKeepsLedger, InsideKeepsLedger, LookupKeepsLedger
     DEF Step, Proceed
<1> QED
  BY <1>1, <1>2, <1>3, <1>6 DEF Next

LEMMA InitLedger == Init => Ledger
<1> SUFFICES ASSUME Init PROVE Ledger
  OBVIOUS
<1>1. \A k, b : ~Keeps(k, b)
  BY NoCallType DEF Init, Keeps, At, Fresh
<1> QED
  BY <1>1 DEF Init, Ledger

-----------------------------------------------------------------------------
(* What a call does to its session, and what the others do not do to it. *)

\* Only a lifecycle call on a session touches the session's entry or object.
LEMMA StepStaysOut ==
    ASSUME Types, Entries, NEW w \in Workers, Step(w), NEW id \in Sessions,
           calls[w].method \in Lifecycle => calls[w].id # id
    PROVE  /\ resources'[id] = resources[id]
           /\ resources[id] # None => heap'[resources[id]] = heap[resources[id]]
<1>1. CASE Sectional(w)
  <2>1. /\ calls[w].resource \in Resources /\ calls[w].id \in Sessions /\ KeepsRest(w)
        /\ calls[w].resource # None
    BY <1>1, SectionalKeepsRest, RuntimeAssumption
  <2>2. ASSUME calls[w].method \in Lifecycle, resources[id] # None
        PROVE  resources[id] \in Resources \ {calls[w].resource}
    <3>1. resources[calls[w].id] = calls[w].resource
      BY <2>1, <2>2 DEF Entries, EntryStands
    <3> QED
      BY <2>1, <2>2, <3>1 DEF Entries, OneEntry, Types, TypeOK
  <2> QED
    BY <2>1, <2>2 DEF KeepsRest
<1>2. CASE Find(w) \/ NotFound(w) \/ Connect(w) \/ ConnectFails(w)
  BY <1>2 DEF Find, NotFound, Connect, ConnectFails
<1>3. CASE CreateResources(w)
  <2>1. PICK r \in Resources :
            /\ ~Referenced(r)
            /\ resources' = [resources EXCEPT ![calls[w].id] = r]
            /\ heap' = [heap EXCEPT ![r] = Fresh]
    BY <1>3 DEF CreateResources
  <2>2. calls[w].id # id
    BY <1>3, LifecycleIs DEF CreateResources
  <2> QED
    BY <2>1, <2>2 DEF Referenced, Types, TypeOK
<1>4. CASE EraseEntry(w)
  BY <1>4, EraseIs, EraseDrops, LifecycleIs
<1> QED
  BY <1>1, <1>2, <1>3, <1>4 DEF Step, Proceed, Sectional

\* The steps on which a start, a stop or a destroy returns.
LEMMA ReturnsDone ==
    ASSUME Types, Entries, NEW w \in Workers, Step(w),
           calls[w].method \in Lifecycle,
           calls'[w].pc = "returned", calls'[w].outcome = "ok",
           NEW method, method = calls[w].method, NEW id, id = calls[w].id
    PROVE  Done(method, id)'
<1> DEFINE r == calls[w].resource
<1>1. ASSUME Throw(w) PROVE FALSE
  BY <1>1, AnswerIs DEF Throw
<1>2. ASSUME NEW pc, Continue(w, pc), pc # "returned" PROVE FALSE
  BY <1>2, ContinueIs
<1>3. ASSUME calls[w].pc \in Inside
      PROVE  /\ id \in Sessions /\ r \in Resources /\ r # None /\ Mine(w) \in Objects
             /\ resources[id] = r
  <2>1. r \in Resources /\ Mine(w) \in Objects
    BY <1>3, ObjectStep
  <2>2. id \in Sessions /\ r # None
    BY <2>1, LifecycleIs, RuntimeAssumption DEF Types, WellFormed
  <2> QED
    BY <2>1, <2>2 DEF Entries, EntryStands
<1>4. CASE StartAgain(w)
  <2>1. /\ Entering(w, {"start"}) /\ Serving(Mine(w)) /\ UNCHANGED <<resources, heap>>
    BY <1>2, <1>4 DEF StartAgain
  <2>2. calls[w].pc \in Inside /\ method = "start"
    BY <2>1, Entered
  <2> QED
    BY <1>3, <2>1, <2>2 DEF Done, Up, Mine
<1>5. CASE PrepareAgain(w)
  <2>1. method = "prepare"
    BY <1>5 DEF PrepareAgain, Entering
  <2> QED
    BY <2>1 DEF Done
<1>6. CASE Load(w)
  <2>1. CASE calls[w].method = "prepare"
    BY <2>1 DEF Done
  <2>2. CASE calls[w].method # "prepare"
    <3>1. calls' = [calls EXCEPT ![w].pc = "launch", ![w].got = {}]
      BY <1>6, <2>2 DEF Load
    <3>2. calls'[w].pc = "launch"
      BY <3>1 DEF Types, TypeOK, Calls
    <3> QED
      BY <3>2
  <2> QED
    BY <2>1, <2>2
<1>7. CASE Launch(w)
  <2> DEFINE o == [Mine(w) EXCEPT !.execution = "running", !.phase = "Running"]
  <2>1. calls[w].pc = "launch" /\ calls[w].pc \in Inside /\ Update(w, o) /\ UNCHANGED resources
    BY <1>7 DEF Launch, At, Inside, Holding
  <2>2. method = "start"
    BY <2>1, CallShape, Names, LifecycleIs
  <2>3. Serving(o)
    BY <1>3, <2>1 DEF Objects, Serving
  <2> HIDE DEF o
  <2> QED
    BY <1>3, <2>1, <2>2, <2>3, ObjectIs DEF Done, Up
<1>8. CASE StopIdle(w) \/ Halt(w)
  <2> DEFINE down == TornDown(Mine(w))
  <2>1. /\ Update(w, down) /\ UNCHANGED resources
        /\ calls[w].method = "stop" \/ Continue(w, "erase")
        /\ calls[w].pc \in {"enter", "halt"} /\ calls[w].pc \in Inside
    BY <1>8 DEF StopIdle, Halt, Teardown, AfterTeardown, Entering, At, Inside, Holding
  <2>2. method = "stop"
    BY <1>2, <2>1
  <2>3. Empty(down)
    BY <1>3, <2>1, TornDownEmpty
  <2> HIDE DEF down
  <2> QED
    BY <1>3, <2>1, <2>2, <2>3, ObjectIs DEF Done, Clean
<1>9. CASE EraseEntry(w)
  BY <1>9, EraseIs, EraseDrops DEF Done, Gone
<1>10. CASE NotFound(w)
  BY <1>10 DEF NotFound, Done, Clean, Gone
<1>11. CASE Find(w) \/ CreateResources(w)
  <2>1. PICK q : Take(w, q)
    BY <1>11 DEF Find, CreateResources
  <2> QED
    BY <2>1 DEF Take, Types, TypeOK, Calls
<1>12. CASE \/ PrepareRefused(w) \/ ContractError(w) \/ StopRefused(w)
            \/ AllocateThrows(w) \/ LaunchThrows(w)
            \/ \E kind \in Exceptions : LoadThrows(w, kind)
            \/ \E kind \in Exceptions : HaltThrows(w, kind)
  BY <1>1, <1>12 DEF PrepareRefused, ContractError, StopRefused, AllocateThrows,
                     LaunchThrows, LoadThrows, HaltThrows
<1>13. CASE PrepareBegin(w) \/ StopRunning(w)
  BY <1>2, <1>13 DEF PrepareBegin, StopRunning
<1>14. CASE Allocate(w)
  <2>1. PICK got : calls' = [calls EXCEPT ![w].got = got]
    BY <1>14 DEF Allocate
  <2>2. calls'[w].pc = "allocate"
    BY <1>14, <2>1 DEF Types, TypeOK, Calls, Allocate, At
  <2> QED
    BY <2>2
<1>15. CASE ListStreams(w) \/ LookupThrows(w) \/ Route(w) \/ Fetch(w) \/ SendSettings(w)
  <2>1. calls[w].method \in {"plan", "fetch", "route", "settings"}
    BY <1>15 DEF ListStreams, LookupThrows, Route, Fetch, SendSettings, Entering, Settings
  <2> QED
    BY <2>1, LifecycleIs
<1>16. CASE Reply(w) \/ Connect(w) \/ ConnectFails(w)
  <2>1. calls[w].pc \in {"reply", "connect"}
    BY <1>16 DEF Reply, Connect, ConnectFails, At
  <2> QED
    BY <2>1, CallShape, Names, LifecycleIs
<1> QED
  BY <1>4, <1>5, <1>6, <1>7, <1>8, <1>9, <1>10, <1>11, <1>12, <1>13, <1>14, <1>15, <1>16
     DEF Step, Enter, Proceed

\* A step of one call leaves the others alone and its own method and session.
LEMMA StepIs ==
    ASSUME Types, NEW w \in Workers, Step(w)
    PROVE  /\ calls[w].pc # "idle" /\ calls[w] # NoCall
           /\ calls'[w].method = calls[w].method /\ calls'[w].id = calls[w].id
           /\ \A v \in Workers \ {w} : calls'[v] = calls[v]
<1>1. CASE Sectional(w)
  BY <1>1, SectionalKeepsRest, NoCallType DEF KeepsRest, Holding
<1>2. CASE ~Sectional(w)
  BY <1>2, LookupIs, ConnectIs, EraseIs, NoCallType DEF Step, Proceed, Sectional
<1> QED
  BY <1>1, <1>2

\* A session whose entry and object stay as they are keeps what was done.
LEMMA DoneStays ==
    ASSUME NEW method, NEW id, Done(method, id), resources'[id] = resources[id],
           resources[id] # None => heap'[resources[id]] = heap[resources[id]]
    PROVE  Done(method, id)'
  BY DEF Done, Up, Clean, Gone

LEMMA DoneNext == Types /\ Types' /\ Entries /\ OkMeansDone /\ [Next]_vars => OkMeansDone'
<1> SUFFICES ASSUME Types, Types', Entries, OkMeansDone, [Next]_vars,
                    NEW v \in Workers, calls'[v].pc = "returned", calls'[v].outcome = "ok",
                    NEW method, method = calls'[v].method, NEW id, id = calls'[v].id
             PROVE  Done(method, id)'
  BY DEF OkMeansDone, At
<1>1. method \in Methods \cup {"none"} /\ (method \in Lifecycle => id \in Sessions)
  BY LifecycleIs DEF Types, TypeOK, Calls, WellFormed
<1>2. CASE method \notin Lifecycle
  BY <1>1, <1>2 DEF Done, Lifecycle
<1>3. ASSUME method \in Lifecycle, calls'[v] = calls[v],
             UNCHANGED <<resources, heap>>
      PROVE  Done(method, id)'
  <2>1. Done(method, id)
    BY <1>3 DEF OkMeansDone, At
  <2> QED
    BY <1>3, <2>1, DoneStays
<1>4. ASSUME method \in Lifecycle, NEW w \in Workers, Step(w) PROVE Done(method, id)'
  <2>1. CASE w = v
    <3>1. calls[v].method = method /\ calls[v].id = id
      BY <1>4, <2>1, StepIs
    <3> QED
      BY <1>4, <2>1, <3>1, ReturnsDone
  <2>2. CASE w # v
    <3>1. calls'[v] = calls[v]
      BY <1>4, <2>2, StepIs
    <3>2. Done(method, id)
      BY <3>1 DEF OkMeansDone, At
    <3>3. calls[w].method \in Lifecycle => calls[w].id # id
      BY <1>4, <2>2, <3>1 DEF Entries, OneCaller
    <3> QED
      BY <1>1, <1>4, <3>2, <3>3, StepStaysOut, DoneStays
  <2> QED
    BY <2>1, <2>2
<1>5. CASE UNCHANGED vars
  BY <1>2, <1>3, <1>5 DEF vars
<1>6. ASSUME NEW w \in Workers, NEW m \in Methods, NEW i \in Sessions, Invoke(w, m, i)
      PROVE  Done(method, id)'
  BY <1>2, <1>3, <1>6, InvokeIs
<1>7. ASSUME NEW w \in Workers, Collect(w) PROVE Done(method, id)'
  BY <1>2, <1>3, <1>7, CollectIs
<1> QED
  BY <1>2, <1>4, <1>5, <1>6, <1>7 DEF Next

LEMMA InitDone == Init => OkMeansDone
  BY NoCallType DEF Init, OkMeansDone, At

-----------------------------------------------------------------------------
(* What the calls that use a running execution come back with. *)

LEMMA BindingIs ==
    ASSUME Types, NEW w \in Workers, calls[w].pc \in Inside, NEW b \in Mine(w).bindings
    PROVE  \E s \in Streams, p \in Ports : b = <<s, p>>
<1>1. Mine(w).bindings \subseteq Streams \X Ports
  BY ObjectStep DEF Objects, Bindings
<1> QED
  BY <1>1

\* Only a fetch gets to "connect".
LEMMA ConnectsByFetch ==
    ASSUME Types, NEW w \in Workers, Step(w), calls'[w].pc = "connect"
    PROVE  Fetch(w)
<1>1. ASSUME Return(w) \/ Throw(w) PROVE FALSE
  BY <1>1, ReturnIs
<1>2. ASSUME NEW pc, pc # "connect", Continue(w, pc) PROVE FALSE
  BY <1>2, ContinueIs
<1>3. CASE Enter(w) /\ ~Fetch(w)
  <2>1. CASE Passes(w)
    BY <2>1, PassesIs
  <2>2. CASE StartAgain(w) /\ ~Serving(Mine(w))
    BY <1>2, <2>2 DEF StartAgain
  <2>3. CASE PrepareBegin(w) \/ StopRunning(w) \/ SendSettings(w)
    BY <1>2, <2>3 DEF PrepareBegin, StopRunning, SendSettings
  <2>4. CASE StopIdle(w)
    BY <1>1, <1>2, <2>4 DEF StopIdle, Teardown, AfterTeardown
  <2> QED
    BY <1>3, <2>1, <2>2, <2>3, <2>4 DEF Enter, Passes
<1>4. CASE Find(w) \/ CreateResources(w) \/ NotFound(w) \/ EraseEntry(w)
           \/ Connect(w) \/ ConnectFails(w)
  BY <1>4, LookupIs, EraseIs, ConnectIs
<1>5. CASE \/ AllocateThrows(w) \/ Launch(w) \/ LaunchThrows(w) \/ Reply(w)
           \/ \E kind \in Exceptions : LoadThrows(w, kind)
           \/ \E kind \in Exceptions : HaltThrows(w, kind)
  BY <1>1, <1>5 DEF AllocateThrows, Launch, LaunchThrows, Reply, LoadThrows, HaltThrows
<1>6. CASE Halt(w)
  BY <1>1, <1>2, <1>6 DEF Halt, Teardown, AfterTeardown
<1>7. CASE Allocate(w)
  <2>1. At(w, "allocate") /\ \E got : calls' = [calls EXCEPT ![w].got = got]
    BY <1>7 DEF Allocate
  <2> QED
    BY <2>1 DEF At, Types, TypeOK, Calls
<1>8. CASE Load(w)
  <2>1. \/ Return(w)
        \/ calls' = [calls EXCEPT ![w].pc = "launch", ![w].got = {}]
    BY <1>8 DEF Load
  <2>2. calls'[w].pc # "connect"
    BY <1>1, <2>1 DEF Types, TypeOK, Calls
  <2> QED
    BY <2>2
<1> QED
  BY <1>3, <1>4, <1>5, <1>6, <1>7, <1>8 DEF Step, Proceed

\* Only Route answers a route with success.
LEMMA AnswersByRoute ==
    ASSUME Types, NEW w \in Workers, Step(w), calls[w].method = "route",
           calls'[w].pc = "returned", calls'[w].outcome = "ok"
    PROVE  Route(w)
<1>1. calls[w].pc \in {"lookup", "enter", "returned"}
  BY StepIs, CallShape, Names
<1>2. CASE Enter(w)
  <2>1. ASSUME Throw(w) PROVE FALSE
    BY <2>1, AnswerIs DEF Throw
  <2> QED
    BY <1>2, <2>1
       DEF Enter, PrepareRefused, PrepareAgain, StartAgain, ContractError, PrepareBegin,
           StopIdle, StopRefused, StopRunning, ListStreams, LookupThrows, Fetch,
           SendSettings, Entering, Settings
<1>3. CASE Find(w) \/ CreateResources(w) \/ NotFound(w)
  <2>1. CASE NotFound(w)
    BY <2>1, AnswerIs DEF NotFound, Throw
  <2>2. ASSUME NEW r, Take(w, r) PROVE FALSE
    BY <2>2 DEF Take, Types, TypeOK, Calls
  <2> QED
    BY <1>3, <2>1, <2>2 DEF Find, CreateResources
<1>4. CASE ~Enter(w) /\ ~(Find(w) \/ CreateResources(w) \/ NotFound(w))
  <2>1. calls[w].pc \in {"allocate", "launch", "halt", "erase", "connect", "reply"}
    BY <1>4
       DEF Step, Proceed, Allocate, AllocateThrows, Load, LoadThrows, Launch,
           LaunchThrows, Halt, HaltThrows, EraseEntry, Connect, ConnectFails, Reply, At
  <2> QED
    BY <1>1, <2>1
<1> QED
  BY <1>2, <1>3, <1>4

LEMMA EndpointNext == Types /\ Types' /\ OneEndpoint /\ [Next]_vars => OneEndpoint'
<1> SUFFICES ASSUME Types, Types', OneEndpoint, [Next]_vars, NEW v \in Workers
             PROVE  /\ calls'[v].pc = "connect" =>
                           \E s \in Streams \ Websocket, p \in Ports :
                               calls'[v].got = {<<s, p>>}
                    /\ /\ calls'[v].pc = "returned" /\ calls'[v].method = "route"
                       /\ calls'[v].outcome = "ok"
                       => \E s \in Websocket, p \in Ports : calls'[v].got = {<<s, p>>}
  BY DEF OneEndpoint, At
<1>1. CASE calls'[v] = calls[v]
  BY <1>1 DEF OneEndpoint, At
<1>2. ASSUME NEW w \in Workers, NEW m \in Methods, NEW i \in Sessions, Invoke(w, m, i),
             calls'[v] # calls[v]
      PROVE  calls'[v].pc = "lookup"
  BY <1>2, InvokeIs
<1>3. ASSUME NEW w \in Workers, Collect(w), calls'[v] # calls[v]
      PROVE  calls'[v].pc = "idle"
  BY <1>3, CollectIs
<1>4. ASSUME NEW w \in Workers, Step(w), calls'[v] # calls[v]
      PROVE  v = w
  BY <1>4, StepIs
<1>5. CASE Step(v)
  <2>1. ASSUME calls'[v].pc = "connect"
        PROVE  \E s \in Streams \ Websocket, p \in Ports : calls'[v].got = {<<s, p>>}
    <3>1. Fetch(v) /\ calls[v].pc = "enter" /\ calls[v].pc \in Inside
      BY <1>5, <2>1, ConnectsByFetch, FetchIs DEF Inside
    <3>2. PICK b \in Mine(v).bindings : b[1] \notin Websocket /\ calls'[v].got = {b}
      BY <3>1 DEF Fetch, Types, TypeOK, Calls
    <3>3. PICK s \in Streams, p \in Ports : b = <<s, p>>
      BY <3>1, BindingIs
    <3> QED
      BY <3>2, <3>3
  <2>2. ASSUME calls'[v].pc = "returned", calls'[v].method = "route",
               calls'[v].outcome = "ok"
        PROVE  \E s \in Websocket, p \in Ports : calls'[v].got = {<<s, p>>}
    <3>1. Route(v)
      BY <1>5, <2>2, StepIs, AnswersByRoute
    <3>2. PICK b \in Mine(v).bindings : b[1] \in Websocket /\ Answer(v, "ok", {b})
      BY <3>1 DEF Route
    <3>3. calls[v].pc \in Inside /\ calls'[v].got = {b}
      BY <3>1, <3>2, AnswerIs DEF Route, Entering, At, Inside
    <3>4. PICK s \in Streams, p \in Ports : b = <<s, p>>
      BY <3>3, BindingIs
    <3> QED
      BY <3>2, <3>3, <3>4
  <2> QED
    BY <2>1, <2>2
<1>6. CASE UNCHANGED vars
  BY <1>1, <1>6 DEF vars
<1> QED
  BY <1>1, <1>2, <1>3, <1>4, <1>5, <1>6 DEF Next

LEMMA InitEndpoint == Init => OneEndpoint
  BY NoCallType DEF Init, OneEndpoint, At

-----------------------------------------------------------------------------
(* The endpoints of an execution. *)

\* But for Load, a step in a section either leaves the object without an
\* execution or leaves the bindings of the one there was.
LEMMA SectionKeepsBindings ==
    ASSUME Types, Locking, NEW w \in Workers, Sectional(w), ~Load(w),
           NEW r, r = calls[w].resource, heap'[r].execution # "none"
    PROVE  heap[r].execution # "none" /\ heap'[r].bindings = heap[r].bindings
<1>1. /\ calls[w].pc \in {"enter"} \cup Holding /\ calls[w].pc \in Inside
      /\ r \in Resources /\ heap[r] \in Objects /\ Mine(w) = heap[r]
      /\ Mine(w) \in Objects
  BY SectionalKeepsRest DEF Inside, Types, TypeOK, Mine
<1>2. CASE UNCHANGED heap
  BY <1>2
<1>3. ASSUME NEW o, Update(w, o)
      PROVE  heap'[r] = o
  BY <1>1, <1>3, ObjectIs
<1>4. ASSUME Update(w, TornDown(Mine(w))) PROVE FALSE
  BY <1>1, <1>3, <1>4 DEF TornDown, Objects
<1>5. CASE StartAgain(w) /\ ~Serving(Mine(w))
  <2>1. Mine(w).execution # "none" /\ Update(w, [Mine(w) EXCEPT !.phase = "Starting"])
    BY <1>5 DEF StartAgain
  <2> QED
    BY <1>1, <1>3, <2>1 DEF Objects
<1>6. CASE PrepareBegin(w)
  <2>1. Mine(w).execution = "none" /\ Update(w, [Mine(w) EXCEPT !.bindings = {}])
    BY <1>6 DEF PrepareBegin
  <2> QED
    BY <1>1, <1>3, <2>1 DEF Objects
<1>7. CASE StopRunning(w)
  <2>1. Mine(w).execution = "running" /\ Update(w, [Mine(w) EXCEPT !.phase = "Stopping"])
    BY <1>7 DEF StopRunning
  <2> QED
    BY <1>1, <1>3, <2>1 DEF Objects
<1>8. CASE Launch(w)
  <2>1. /\ Mine(w).execution # "none"
        /\ Update(w, [Mine(w) EXCEPT !.execution = "running", !.phase = "Running"])
    BY <1>8 DEF Launch, At, Locking, HolderKnows, Knows
  <2> QED
    BY <1>1, <1>3, <2>1 DEF Objects
<1>9. ASSUME NEW kind \in Exceptions, HaltThrows(w, kind)
      PROVE  heap[r].execution # "none" /\ heap'[r].bindings = heap[r].bindings
  <2>1. /\ Mine(w).execution = "running"
        /\ UNCHANGED heap \/ Update(w, [Mine(w) EXCEPT !.phase = "Failed"])
    BY <1>9 DEF HaltThrows, At, Locking, HolderKnows, Knows
  <2> QED
    BY <1>1, <1>2, <1>3, <2>1 DEF Objects
<1>10. CASE StopIdle(w) \/ Halt(w)
  BY <1>4, <1>10 DEF StopIdle, Halt, Teardown
<1>11. CASE \/ Passes(w) \/ Fetch(w) \/ SendSettings(w)
            \/ Allocate(w) \/ AllocateThrows(w) \/ LaunchThrows(w) \/ Reply(w)
            \/ \E kind \in Exceptions : LoadThrows(w, kind)
  <2>1. UNCHANGED heap
    BY <1>11, PassesIs
       DEF Fetch, SendSettings, Allocate, AllocateThrows, LaunchThrows, Reply, LoadThrows
  <2> QED
    BY <1>2, <2>1
<1> QED
  BY <1>5, <1>6, <1>7, <1>8, <1>9, <1>10, <1>11 DEF Sectional, Enter, Passes

\* Load waits until every managed stream of the graph has its endpoint.
LEMMA LoadBinds ==
    ASSUME Types, NEW w \in Workers, Load(w), NEW s \in Authored[calls[w].id]
    PROVE  \E b \in heap'[calls[w].resource].bindings : b[1] = s
<1> DEFINE prepared == [Mine(w) EXCEPT !.execution = "prepared", !.phase = "Idle",
                                       !.bindings = calls[w].got]
           starting == [prepared EXCEPT !.phase = "Starting"]
<1>1. /\ At(w, "allocate") /\ Missing(w) = {}
      /\ Update(w, prepared) \/ Update(w, starting)
  BY DEF Load
<1>2. calls[w].pc \in Inside /\ Mine(w) \in Objects
  BY <1>1, ObjectStep DEF At, Inside, Holding
<1>3. prepared.bindings = calls[w].got /\ starting.bindings = calls[w].got
  BY <1>2 DEF Objects
<1>4. \E b \in calls[w].got : b[1] = s
  BY <1>1 DEF Missing
<1> HIDE DEF prepared, starting
<1> QED
  BY <1>1, <1>2, <1>3, <1>4, ObjectIs

LEMMA BoundNext ==
    Types /\ Locking /\ Entries /\ EveryStreamBound /\ [Next]_vars => EveryStreamBound'
<1> SUFFICES ASSUME Types, Locking, Entries, EveryStreamBound, [Next]_vars,
                    NEW id \in Sessions, NEW r, r = resources'[id], r # None,
                    heap'[r].execution # "none", NEW s \in Authored[id]
             PROVE  \E b \in heap'[r].bindings : b[1] = s
  BY DEF EveryStreamBound
<1>1. CASE resources'[id] = resources[id] /\ heap'[r] = heap[r]
  BY <1>1 DEF EveryStreamBound
<1>2. CASE UNCHANGED <<resources, heap>>
  BY <1>1, <1>2
<1>3. ASSUME NEW w \in Workers, Find(w) \/ CreateResources(w) \/ NotFound(w)
      PROVE  \E b \in heap'[r].bindings : b[1] = s
  <2>1. CASE CreateResources(w)
    <3>1. PICK q \in Resources : /\ ~Referenced(q)
                                 /\ resources' = [resources EXCEPT ![calls[w].id] = q]
                                 /\ heap' = [heap EXCEPT ![q] = Fresh]
      BY <2>1 DEF CreateResources
    <3>2. heap'[q].execution = "none" /\ r # q
      BY <3>1 DEF Types, TypeOK, Fresh
    <3>3. resources'[id] = resources[id] /\ heap'[r] = heap[r]
      BY <3>1, <3>2 DEF Types, TypeOK
    <3> QED
      BY <1>1, <3>3
  <2>2. CASE Find(w) \/ NotFound(w)
    BY <1>2, <2>2 DEF Find, NotFound
  <2> QED
    BY <1>3, <2>1, <2>2
<1>4. ASSUME NEW w \in Workers, EraseEntry(w) PROVE \E b \in heap'[r].bindings : b[1] = s
  <2>1. UNCHANGED heap /\ resources'[id] = resources[id]
    BY <1>4 DEF EraseEntry, Types, TypeOK
  <2> QED
    BY <1>1, <2>1
<1>5. ASSUME NEW w \in Workers, Sectional(w) PROVE \E b \in heap'[r].bindings : b[1] = s
  <2>1. /\ KeepsRest(w) /\ r = resources[id] /\ r \in Resources
        /\ calls[w].id \in Sessions
    BY <1>5, SectionalKeepsRest DEF KeepsRest, Types, TypeOK
  <2>2. CASE r # calls[w].resource
    BY <1>1, <2>1, <2>2 DEF KeepsRest
  <2>3. CASE r = calls[w].resource /\ ~Load(w)
    <3>1. heap[r].execution # "none" /\ heap'[r].bindings = heap[r].bindings
      BY <1>5, <2>3, SectionKeepsBindings
    <3> QED
      BY <2>1, <3>1 DEF EveryStreamBound
  <2>4. CASE r = calls[w].resource /\ Load(w)
    <3>1. calls[w].pc = "allocate" /\ calls[w].method \in Lifecycle
      BY <2>4, CallShape, LifecycleIs DEF Load, At
    <3>2. resources[calls[w].id] = r
      BY <2>4, <3>1 DEF Entries, EntryStands
    <3>3. calls[w].id = id
      BY <2>1, <3>2 DEF Entries, OneEntry
    <3> QED
      BY <2>4, <3>3, LoadBinds
  <2> QED
    BY <2>2, <2>3, <2>4
<1>6. ASSUME NEW w \in Workers, Step(w) PROVE \E b \in heap'[r].bindings : b[1] = s
  <2>1. CASE Connect(w) \/ ConnectFails(w)
    BY <1>2, <2>1, ConnectIs
  <2> QED
    BY <1>3, <1>4, <1>5, <1>6, <2>1 DEF Step, Proceed, Sectional
<1>7. ASSUME NEW w \in Workers, NEW method \in Methods, NEW i \in Sessions,
             Invoke(w, method, i)
      PROVE  \E b \in heap'[r].bindings : b[1] = s
  BY <1>2, <1>7, InvokeIs
<1>8. ASSUME NEW w \in Workers, Collect(w) PROVE \E b \in heap'[r].bindings : b[1] = s
  BY <1>2, <1>8, CollectIs
<1> QED
  BY <1>2, <1>6, <1>7, <1>8 DEF Next, vars

LEMMA InitBound == Init => EveryStreamBound
  BY DEF Init, EveryStreamBound

-----------------------------------------------------------------------------
(* The inductive invariant, and what is left to conclude. *)

LEMMA InitIInv == Init => IInv
  BY InitTypes, InitLocking, InitEntries, InitLedger, LedgerIs, InitDone,
     InitEndpoint, InitBound DEF IInv

LEMMA LedgerIsNext == (PortsExclusive /\ NoPortLeaked <=> Ledger)'
  BY LedgerIs, PTL

\* One step of the manager keeps the invariant, whoever takes it: modules that
\* compose the manager with others cite this.
THEOREM StepKeepsIInv == IInv /\ [Next]_vars => IInv'
  BY TypesNext, LockingNext, EntriesNext, LedgerNext, LedgerIs, LedgerIsNext, DoneNext,
     EndpointNext, BoundNext DEF IInv

\* Types, mutexes, entries, ports, endpoints and answers together: the invariant
\* that every step keeps.
THEOREM ManagerInvariant == Spec => []IInv
<1> QED
  BY InitIInv, StepKeepsIInv, PTL DEF Spec

\* Two streams never share a port, in one graph or in two, stored or still
\* being prepared, and a port in use is never handed out again.
THEOREM PortsAreExclusive == Spec => []PortsExclusive
<1>1. IInv => PortsExclusive
  BY DEF IInv
<1> QED
  BY <1>1, ManagerInvariant, PTL

\* allocated_ports_ is the ports in use and those lost in one of the two ways,
\* and nothing else.
THEOREM PortsAreAccounted == Spec => []NoPortLeaked
<1>1. IInv => NoPortLeaked
  BY DEF IInv
<1> QED
  BY <1>1, ManagerInvariant, PTL

\* A start that returned has left the graph running, a stop has left nothing
\* running and no port taken, a destroy has left no entry; and however the
\* other sessions' calls interleave it is still so when the caller goes on.
THEOREM OkIsDone == Spec => []OkMeansDone
<1>1. IInv => OkMeansDone
  BY DEF IInv
<1> QED
  BY <1>1, ManagerInvariant, PTL

-----------------------------------------------------------------------------
(* Whose stream answers. *)

\* The bindings of two sessions have no port in common.
LEMMA OneSessionPerPort ==
    ASSUME IInv, NEW i \in Sessions, NEW j \in Sessions,
           resources[i] # None, resources[j] # None,
           NEW b \in heap[resources[i]].bindings, NEW c \in heap[resources[j]].bindings,
           b[2] = c[2]
    PROVE  i = j
<1>1. Types /\ Entries /\ Ledger
  BY LedgerIs DEF IInv
<1>2. resources[i] \in Resources /\ resources[j] \in Resources
  BY <1>1 DEF Types, TypeOK
<1>3. Keeps(resources[i], b) /\ Keeps(resources[j], c)
  BY <1>2 DEF Keeps
<1>4. resources[i] = resources[j]
  BY <1>1, <1>3 DEF Ledger
<1> QED
  BY <1>1, <1>4 DEF Entries, OneEntry

LEMMA OnlyConnectAnswers ==
    ASSUME Types, NEW w \in Workers, Step(w), calls'[w].from # calls[w].from
    PROVE  Connect(w)
<1>1. ~Sectional(w)
  BY SectionalKeepsRest DEF KeepsRest
<1>2. ~(Find(w) \/ CreateResources(w) \/ NotFound(w))
  BY LookupIs
<1>3. ~(EraseEntry(w) \/ ConnectFails(w))
  BY AnswerIs DEF EraseEntry, ConnectFails, Return
<1> QED
  BY <1>1, <1>2, <1>3 DEF Step, Proceed, Sectional

\* A fetch is answered by its own session if that still has the endpoint.
LEMMA AnswersOwn ==
    ASSUME IInv, NEW w \in Workers, Step(w), calls'[w].from # calls[w].from,
           resources[calls[w].id] # None,
           heap[resources[calls[w].id]].bindings \cap calls[w].got # {}
    PROVE  calls'[w].from = calls[w].id
<1>1. Types /\ OneEndpoint /\ Connect(w) /\ At(w, "connect")
  BY OnlyConnectAnswers DEF IInv, Connect
<1>2. calls[w].id \in Sessions
  BY <1>1, CallShape DEF At
<1>3. PICK b \in calls[w].got : \E i \in Listening(b[2]) :
          calls' = [calls EXCEPT ![w].pc = "returned", ![w].outcome = "ok",
                                 ![w].from = i]
  BY <1>1 DEF Connect
<1>4. PICK i \in Listening(b[2]) :
          calls' = [calls EXCEPT ![w].pc = "returned", ![w].outcome = "ok",
                                 ![w].from = i]
  BY <1>3
<1>5. calls'[w].from = i
  BY <1>1, <1>4 DEF Types, TypeOK, Calls
<1>6. b \in heap[resources[calls[w].id]].bindings
  BY <1>1 DEF OneEndpoint
<1>7. /\ i \in Sessions /\ resources[i] # None
      /\ \E c \in heap[resources[i]].bindings : b[2] = c[2]
  BY DEF Listening, PortsOf
<1> QED
  BY <1>2, <1>5, <1>6, <1>7, OneSessionPerPort

\* A lookup of the streams, from the map to the answer.
LEMMA PlanIs ==
    ASSUME Types, NEW w \in Workers, Step(w), calls[w].method = "plan"
    PROVE  \/ /\ resources[calls[w].id] # None
              /\ calls'[w].pc = "enter" /\ calls'[w].resource = resources[calls[w].id]
           \/ resources[calls[w].id] = None
           \/ /\ calls[w].pc = "enter" /\ calls'[w].pc = "returned"
              /\ calls'[w].got = IF Serving(Mine(w)) THEN Mine(w).bindings ELSE {}
<1>1. calls[w].pc \in {"lookup", "enter", "returned"}
  BY StepIs, CallShape, Names
<1>2. CASE Enter(w)
  <2>1. ListStreams(w)
    BY <1>2 DEF Enter, PrepareRefused, PrepareAgain, StartAgain, ContractError,
                PrepareBegin, StopIdle, StopRefused, StopRunning, LookupThrows, Route,
                Fetch, SendSettings, Entering, Settings
  <2>2. /\ calls[w].pc = "enter"
        /\ Answer(w, "ok", IF Serving(Mine(w)) THEN Mine(w).bindings ELSE {})
    BY <2>1 DEF ListStreams, Entering, At
  <2> QED
    BY <2>2, AnswerIs
<1>3. CASE Find(w)
  BY <1>3 DEF Find, Take, Types, TypeOK, Calls
<1>4. CASE NotFound(w)
  BY <1>4 DEF NotFound
<1>5. CASE ~Enter(w) /\ ~Find(w) /\ ~NotFound(w)
  BY <1>1, <1>5
     DEF Step, Proceed, CreateResources, Allocate, AllocateThrows, Load, LoadThrows,
         Launch, LaunchThrows, Halt, HaltThrows, EraseEntry, Connect, ConnectFails,
         Reply, At
<1> QED
  BY <1>2, <1>3, <1>4, <1>5

=============================================================================
