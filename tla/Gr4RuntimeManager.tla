-------------------------- MODULE Gr4RuntimeManager --------------------------
(***************************************************************************)
(* src/src/runtime/gr4_runtime_manager.cpp and the port allocator it owns  *)
(* (stream_binding_allocator.cpp).                                         *)
(*                                                                         *)
(* The manager keeps one SessionRuntimeResources object per session behind *)
(* a shared pointer. A call looks the object up under resources_mutex_,    *)
(* then does its work under the object's own mutex; destroy takes          *)
(* resources_mutex_ once more, after it has given the object's mutex up,   *)
(* to erase the map entry. The allocator has a third mutex. Objects are    *)
(* modelled as a heap, because a call may still hold one that the map no   *)
(* longer names.                                                           *)
(*                                                                         *)
(* A section under the object's mutex that makes no call another thread    *)
(* could overtake is one action and leaves no trace in `owner'. Otherwise  *)
(* `owner' names the thread while it allocates ports, loads the graph, and *)
(* waits for the scheduler or for a settings reply.                        *)
(*                                                                         *)
(* Left out: generation and teardown_complete, which are written and never *)
(* read, teardown_error, which only words a message, and async_error,      *)
(* which nothing sets.                                                     *)
(***************************************************************************)
EXTENDS FiniteSets

CONSTANTS
    Sessions,
    Workers,            \* the threads that call the manager
    None,               \* no session, no object, no thread
    Resources,          \* the heap cells for SessionRuntimeResources objects
    Streams,            \* stream identifiers
    Websocket,          \* those of them whose transport is "websocket"
    Authored,           \* Authored[id]: the managed streams of a session's graph
    Ports,              \* the loopback ports the allocator may be given
    Exceptions,         \* what loader and scheduler may throw: "std", "foreign"
    SocketsFail         \* whether opening or binding a socket may fail

ASSUME RuntimeAssumption ==
    /\ None \notin Sessions \cup Workers \cup Resources
    /\ Workers \cap Resources = {}
    /\ Websocket \subseteq Streams
    /\ Authored \in [Sessions -> SUBSET Streams]
    /\ Exceptions \subseteq {"std", "foreign"}
    /\ SocketsFail \in BOOLEAN

VARIABLES
    resources,          \* resources_: the object of each session, None if no entry
    heap,               \* the objects
    owner,              \* the thread that holds an object's mutex, or None
    allocated,          \* allocated_ports_
    lost,               \* history: the ports that have been lost, see below
    calls               \* the call each thread is in

vars == <<resources, heap, owner, allocated, lost, calls>>

-----------------------------------------------------------------------------

Lifecycle == {"prepare", "start", "stop", "destroy"}

Reads == {"plan", "fetch", "route"}

Settings == {"settings"}

Methods == Lifecycle \cup Reads \cup Settings

\* LifecyclePhase
Phases == {"Idle", "Starting", "Running", "Stopping", "Failed"}

\* No Execution, one whose `running' is false, one whose `running' is true.
Executions == {"none", "prepared", "running"}

Bindings == SUBSET (Streams \X Ports)

PortsOf(bindings) == {b[2] : b \in bindings}

Fresh == [phase |-> "Idle", execution |-> "none", bindings |-> {}]

\* got: the bindings the call has to itself: those prepare_locked has reserved
\* and not stored yet, the copy a fetch goes by, the answer of a lookup.
\* from: the session whose stream answered a fetch.
NoCall ==
    [method |-> "none", id |-> None, pc |-> "idle", resource |-> None,
     got |-> {}, from |-> None, outcome |-> "none"]

At(w, pc) == calls[w].pc = pc

Mine(w) == heap[calls[w].resource]

Unlocked(w) == owner[calls[w].resource] = None

Locked(w) == owner[calls[w].resource] = w

\* An object the map or a call refers to is not destroyed.
Referenced(r) ==
    \/ \E id \in Sessions : resources[id] = r
    \/ \E w \in Workers : calls[w].resource = r

Serving(object) == object.execution = "running" /\ object.phase = "Running"

-----------------------------------------------------------------------------
(* How a call begins and ends. *)

Invoke(w, method, id) ==
    /\ calls[w] = NoCall
    /\ calls' = [calls EXCEPT ![w] =
           [NoCall EXCEPT !.method = method, !.id = id, !.pc = "lookup"]]
    /\ UNCHANGED <<resources, heap, owner, allocated, lost>>

\* A mutant: calls for one session may overlap.
BugCallerOverlaps(method, id) == TRUE

\* The manager relies on its caller never having two lifecycle operations on
\* one session under way; SessionService keeps that by its phases, and
\* ControlPlane.tla checks that it does.
CallerAllowed(method, id) ==
    method \in Lifecycle =>
        \A v \in Workers : calls[v].method \in Lifecycle => calls[v].id # id

\* The call gives its reference to the object up.
Answer(w, outcome, got) ==
    calls' = [calls EXCEPT ![w].pc = "returned", ![w].resource = None,
                           ![w].got = got, ![w].outcome = outcome]

Return(w) == Answer(w, "ok", {})

Throw(w) == Answer(w, "throws", {})

Continue(w, pc) == calls' = [calls EXCEPT ![w].pc = pc]

Collect(w) ==
    /\ At(w, "returned")
    /\ calls' = [calls EXCEPT ![w] = NoCall]
    /\ UNCHANGED <<resources, heap, owner, allocated, lost>>

Hold(w) == owner' = [owner EXCEPT ![calls[w].resource] = w]

Unlock(w) == owner' = [owner EXCEPT ![calls[w].resource] = None]

Update(w, object) == heap' = [heap EXCEPT ![calls[w].resource] = object]

-----------------------------------------------------------------------------
(* get_or_create_resources and find_resources, under resources_mutex_. *)

Take(w, r) == calls' = [calls EXCEPT ![w].pc = "enter", ![w].resource = r]

\* A mutant: a missing entry is not noticed.
BugFindIgnoresMissing(w) ==
    /\ At(w, "lookup")
    /\ Take(w, resources[calls[w].id])
    /\ UNCHANGED <<resources, heap, owner, allocated, lost>>

Find(w) ==
    /\ At(w, "lookup")
    /\ resources[calls[w].id] # None
    /\ Take(w, resources[calls[w].id])
    /\ UNCHANGED <<resources, heap, owner, allocated, lost>>

CreateResources(w) ==
    /\ At(w, "lookup")
    /\ calls[w].method \in {"prepare", "start"}
    /\ resources[calls[w].id] = None
    /\ \E r \in Resources :
           /\ ~Referenced(r)
           /\ resources' = [resources EXCEPT ![calls[w].id] = r]
           /\ heap' = [heap EXCEPT ![r] = Fresh]
           /\ Take(w, r)
    /\ UNCHANGED <<owner, allocated, lost>>

\* Without an object there is nothing to stop, destroy or list; the other
\* calls report that the session is not running.
NotFound(w) ==
    /\ At(w, "lookup")
    /\ calls[w].method \notin {"prepare", "start"}
    /\ resources[calls[w].id] = None
    /\ IF calls[w].method \in {"stop", "destroy", "plan"} THEN Return(w) ELSE Throw(w)
    /\ UNCHANGED <<resources, heap, owner, allocated, lost>>

-----------------------------------------------------------------------------
(* prepare_locked, and start, which runs it first. *)

\* A mutant: the section is entered without the mutex.
BugEnterWithoutLock(w, methods) ==
    /\ At(w, "enter")
    /\ calls[w].method \in methods

Entering(w, methods) ==
    /\ At(w, "enter")
    /\ calls[w].method \in methods
    /\ Unlocked(w)

PrepareRefused(w) ==
    /\ Entering(w, {"prepare", "start"})
    /\ Mine(w).phase = "Stopping"
    /\ Throw(w)
    /\ UNCHANGED <<resources, heap, owner, allocated, lost>>

\* An execution that exists is used as it is.
PrepareAgain(w) ==
    /\ Entering(w, {"prepare"})
    /\ Mine(w).phase # "Stopping"
    /\ Mine(w).execution # "none"
    /\ Return(w)
    /\ UNCHANGED <<resources, heap, owner, allocated, lost>>

StartAgain(w) ==
    /\ Entering(w, {"start"})
    /\ Mine(w).phase # "Stopping"
    /\ Mine(w).execution # "none"
    /\ IF Serving(Mine(w))
       THEN Return(w) /\ UNCHANGED <<heap, owner>>
       ELSE /\ Update(w, [Mine(w) EXCEPT !.phase = "Starting"])
            /\ Hold(w)
            /\ Continue(w, "launch")
    /\ UNCHANGED <<resources, allocated, lost>>

\* The stream contract of the graph is not met, or the plugin environment
\* cannot be set up.
ContractError(w) ==
    /\ Entering(w, {"prepare", "start"})
    /\ Mine(w).phase # "Stopping"
    /\ Mine(w).execution = "none"
    /\ Throw(w)
    /\ UNCHANGED <<resources, heap, owner, allocated, lost>>

PrepareBegin(w) ==
    /\ Entering(w, {"prepare", "start"})
    /\ Mine(w).phase # "Stopping"
    /\ Mine(w).execution = "none"
    /\ allocated' = allocated \ PortsOf(Mine(w).bindings)
    /\ Update(w, [Mine(w) EXCEPT !.bindings = {}])
    /\ Hold(w)
    /\ Continue(w, "allocate")
    /\ UNCHANGED <<resources, lost>>

Missing(w) == Authored[calls[w].id] \ {b[1] : b \in calls[w].got}

\* A mutant: the port is not entered in allocated_ports_.
BugPortNotRecorded(w) ==
    /\ At(w, "allocate")
    /\ \E stream \in Missing(w), port \in Ports \ allocated :
           calls' = [calls EXCEPT ![w].got = @ \cup {<<stream, port>>}]
    /\ UNCHANGED <<resources, heap, owner, allocated, lost>>

\* allocate_http and allocate_websocket: a port the system hands out that is
\* not in allocated_ports_ yet.
Allocate(w) ==
    /\ At(w, "allocate")
    /\ \E stream \in Missing(w), port \in Ports \ allocated :
           /\ allocated' = allocated \cup {port}
           /\ calls' = [calls EXCEPT ![w].got = @ \cup {<<stream, port>>}]
    /\ UNCHANGED <<resources, heap, owner, lost>>

\* No socket, or 64 ports in a row that are taken. This is outside the try
\* block: the ports reserved so far stay in allocated_ports_.
AllocateThrows(w) ==
    /\ At(w, "allocate")
    /\ Missing(w) # {}
    /\ SocketsFail \/ Ports \subseteq allocated
    /\ lost' = lost \cup PortsOf(calls[w].got)
    /\ Unlock(w)
    /\ Throw(w)
    /\ UNCHANGED <<resources, heap, allocated>>

\* The graph is loaded with the reserved endpoints injected, the scheduler
\* instantiated and the execution stored; start goes on to launch it.
Load(w) ==
    /\ At(w, "allocate")
    /\ Missing(w) = {}
    /\ LET prepared == [Mine(w) EXCEPT !.execution = "prepared", !.phase = "Idle",
                                       !.bindings = calls[w].got]
       IN  IF calls[w].method = "prepare"
           THEN Update(w, prepared) /\ Unlock(w) /\ Return(w)
           ELSE /\ Update(w, [prepared EXCEPT !.phase = "Starting"])
                /\ calls' = [calls EXCEPT ![w].pc = "launch", ![w].got = {}]
                /\ UNCHANGED owner
    /\ UNCHANGED <<resources, allocated, lost>>

\* A mutant: the handler does not release the reserved ports.
BugLoadThrowsLeaks(w, kind) ==
    /\ At(w, "allocate")
    /\ Missing(w) = {}
    /\ kind \in Exceptions
    /\ Unlock(w)
    /\ Throw(w)
    /\ UNCHANGED <<resources, heap, allocated, lost>>

\* Only a std::exception has the reserved ports released.
LoadThrows(w, kind) ==
    /\ At(w, "allocate")
    /\ Missing(w) = {}
    /\ kind \in Exceptions
    /\ IF kind = "std"
       THEN allocated' = allocated \ PortsOf(calls[w].got) /\ UNCHANGED lost
       ELSE lost' = lost \cup PortsOf(calls[w].got) /\ UNCHANGED allocated
    /\ Unlock(w)
    /\ Throw(w)
    /\ UNCHANGED <<resources, heap>>

-----------------------------------------------------------------------------
(* scheduler->start() *)

Launch(w) ==
    /\ At(w, "launch")
    /\ Update(w, [Mine(w) EXCEPT !.execution = "running", !.phase = "Running"])
    /\ Unlock(w)
    /\ Return(w)
    /\ UNCHANGED <<resources, allocated, lost>>

\* A mutant: the mutex is not given up on the way out.
BugLaunchThrowsKeepsLock(w) ==
    /\ At(w, "launch")
    /\ Exceptions # {}
    /\ Throw(w)
    /\ UNCHANGED <<resources, heap, owner, allocated, lost>>

\* The phase stays Starting; the execution and its ports are kept.
LaunchThrows(w) ==
    /\ At(w, "launch")
    /\ Exceptions # {}
    /\ Unlock(w)
    /\ Throw(w)
    /\ UNCHANGED <<resources, heap, allocated, lost>>

-----------------------------------------------------------------------------
(* stop_locked, and destroy, which runs it first. *)

\* What follows for the call once the object is torn down.
AfterTeardown(w) ==
    IF calls[w].method = "stop" THEN Return(w) ELSE Continue(w, "erase")

\* A mutant: the list of bindings is not cleared.
BugTornDownKeepsBindings(object) ==
    [object EXCEPT !.phase = "Idle", !.execution = "none"]

TornDown(object) ==
    [object EXCEPT !.phase = "Idle", !.execution = "none", !.bindings = {}]

Teardown(w) ==
    /\ allocated' = allocated \ PortsOf(Mine(w).bindings)
    /\ Update(w, TornDown(Mine(w)))
    /\ AfterTeardown(w)

\* No execution, or one that is not running: no scheduler to wait for. Without
\* an execution the phase is not looked at.
StopIdle(w) ==
    /\ Entering(w, {"stop", "destroy"})
    /\ \/ Mine(w).execution = "none"
       \/ Mine(w).execution = "prepared" /\ Mine(w).phase # "Stopping"
    /\ Teardown(w)
    /\ UNCHANGED <<resources, owner, lost>>

StopRefused(w) ==
    /\ Entering(w, {"stop", "destroy"})
    /\ Mine(w).execution # "none"
    /\ Mine(w).phase = "Stopping"
    /\ Throw(w)
    /\ UNCHANGED <<resources, heap, owner, allocated, lost>>

StopRunning(w) ==
    /\ Entering(w, {"stop", "destroy"})
    /\ Mine(w).execution = "running"
    /\ Mine(w).phase # "Stopping"
    /\ Update(w, [Mine(w) EXCEPT !.phase = "Stopping"])
    /\ Hold(w)
    /\ Continue(w, "halt")
    /\ UNCHANGED <<resources, allocated, lost>>

\* scheduler->stop() returns.
Halt(w) ==
    /\ At(w, "halt")
    /\ Teardown(w)
    /\ Unlock(w)
    /\ UNCHANGED <<resources, lost>>

\* A mutant: a failed stop gives the ports up under the running graph.
BugHaltThrowsReleases(w, kind) ==
    /\ At(w, "halt")
    /\ kind \in Exceptions
    /\ allocated' = allocated \ PortsOf(Mine(w).bindings)
    /\ Update(w, [Mine(w) EXCEPT !.phase = "Failed"])
    /\ Unlock(w)
    /\ Throw(w)
    /\ UNCHANGED <<resources, lost>>

\* scheduler->stop() throws: the execution counts as running, with its ports.
\* An exception that is no std::exception also leaves the phase Stopping.
HaltThrows(w, kind) ==
    /\ At(w, "halt")
    /\ kind \in Exceptions
    /\ IF kind = "std"
       THEN Update(w, [Mine(w) EXCEPT !.phase = "Failed"])
       ELSE UNCHANGED heap
    /\ Unlock(w)
    /\ Throw(w)
    /\ UNCHANGED <<resources, allocated, lost>>

\* The end of destroy, after the object's mutex was given up: the entry goes
\* if it is still this object's.
EraseEntry(w) ==
    /\ At(w, "erase")
    /\ resources' = IF resources[calls[w].id] = calls[w].resource
                    THEN [resources EXCEPT ![calls[w].id] = None]
                    ELSE resources
    /\ Return(w)
    /\ UNCHANGED <<heap, owner, allocated, lost>>

-----------------------------------------------------------------------------
(* Calls that use a running execution. Which stream or block the caller     *)
(* names is left open: any that is bound, or one that is not.               *)

ListStreams(w) ==
    /\ Entering(w, {"plan"})
    /\ Answer(w, "ok", IF Serving(Mine(w)) THEN Mine(w).bindings ELSE {})
    /\ UNCHANGED <<resources, heap, owner, allocated, lost>>

LookupThrows(w) ==
    /\ Entering(w, {"fetch", "route"} \cup Settings)
    /\ ~Serving(Mine(w)) \/ calls[w].method \in {"fetch", "route"}
    /\ Throw(w)
    /\ UNCHANGED <<resources, heap, owner, allocated, lost>>

Route(w) ==
    /\ Entering(w, {"route"})
    /\ Serving(Mine(w))
    /\ \E b \in Mine(w).bindings : b[1] \in Websocket /\ Answer(w, "ok", {b})
    /\ UNCHANGED <<resources, heap, owner, allocated, lost>>

\* fetch_http_stream copies the endpoint, and gives up both the mutex and its
\* reference to the object, before it connects.
Fetch(w) ==
    /\ Entering(w, {"fetch"})
    /\ Serving(Mine(w))
    /\ \E b \in Mine(w).bindings :
           /\ b[1] \notin Websocket
           /\ calls' = [calls EXCEPT ![w].pc = "connect", ![w].resource = None,
                                     ![w].got = {b}]
    /\ UNCHANGED <<resources, heap, owner, allocated, lost>>

\* Whoever has the port by now answers.
Listening(port) ==
    {id \in Sessions :
        /\ resources[id] # None
        /\ heap[resources[id]].execution = "running"
        /\ port \in PortsOf(heap[resources[id]].bindings)}

Connect(w) ==
    /\ At(w, "connect")
    /\ \E b \in calls[w].got : \E id \in Listening(b[2]) :
           calls' = [calls EXCEPT ![w].pc = "returned", ![w].outcome = "ok",
                                  ![w].from = id]
    /\ UNCHANGED <<resources, heap, owner, allocated, lost>>

\* Nobody listens, or not yet, or the answer is late.
ConnectFails(w) ==
    /\ At(w, "connect")
    /\ Answer(w, "transient", {})
    /\ UNCHANGED <<resources, heap, owner, allocated, lost>>

\* The mutex is held while the reply to the settings message is awaited.
SendSettings(w) ==
    /\ Entering(w, Settings)
    /\ Serving(Mine(w))
    /\ Hold(w)
    /\ Continue(w, "reply")
    /\ UNCHANGED <<resources, heap, allocated, lost>>

\* A reply, or an error: no such block, a refusal, no reply in a second.
Reply(w) ==
    /\ At(w, "reply")
    /\ Unlock(w)
    /\ Return(w) \/ Throw(w)
    /\ UNCHANGED <<resources, heap, allocated, lost>>

-----------------------------------------------------------------------------

Init ==
    /\ resources = [id \in Sessions |-> None]
    /\ heap = [r \in Resources |-> Fresh]
    /\ owner = [r \in Resources |-> None]
    /\ allocated = {}
    /\ lost = {}
    /\ calls = [w \in Workers |-> NoCall]

\* The steps that take an object's mutex.
Enter(w) ==
    \/ PrepareRefused(w)
    \/ PrepareAgain(w)
    \/ StartAgain(w)
    \/ ContractError(w)
    \/ PrepareBegin(w)
    \/ StopIdle(w)
    \/ StopRefused(w)
    \/ StopRunning(w)
    \/ ListStreams(w)
    \/ LookupThrows(w)
    \/ Route(w)
    \/ Fetch(w)
    \/ SendSettings(w)

Proceed(w) ==
    \/ Find(w)
    \/ CreateResources(w)
    \/ NotFound(w)
    \/ Allocate(w)
    \/ AllocateThrows(w)
    \/ Load(w)
    \/ \E kind \in Exceptions : LoadThrows(w, kind)
    \/ Launch(w)
    \/ LaunchThrows(w)
    \/ Halt(w)
    \/ \E kind \in Exceptions : HaltThrows(w, kind)
    \/ EraseEntry(w)
    \/ Connect(w)
    \/ ConnectFails(w)
    \/ Reply(w)

Step(w) == Enter(w) \/ Proceed(w)

Next ==
    \E w \in Workers :
        \/ \E method \in Methods, id \in Sessions :
               CallerAllowed(method, id) /\ Invoke(w, method, id)
        \/ Step(w)
        \/ Collect(w)

\* A thread inside the manager goes on: scheduler, loader and sockets answer or
\* fail, and a mutex that keeps being given up is granted in the end.
Fairness == \A w \in Workers : WF_vars(Proceed(w)) /\ SF_vars(Enter(w))

Spec == Init /\ [][Next]_vars /\ Fairness

-----------------------------------------------------------------------------
(* Properties *)

Objects == [phase : Phases, execution : Executions, bindings : Bindings]

Pcs ==
    {"idle", "lookup", "enter", "allocate", "launch", "halt", "erase", "connect",
     "reply", "returned"}

Calls ==
    [method : Methods \cup {"none"}, id : Sessions \cup {None}, pc : Pcs,
     resource : Resources \cup {None}, got : Bindings, from : Sessions \cup {None},
     outcome : {"none", "ok", "throws", "transient"}]

\* Where a call holds its object's mutex.
Holding == {"allocate", "launch", "halt", "reply"}

TypeOK ==
    /\ resources \in [Sessions -> Resources \cup {None}]
    /\ heap \in [Resources -> Objects]
    /\ owner \in [Resources -> Workers \cup {None}]
    /\ allocated \subseteq Ports
    /\ lost \subseteq Ports
    /\ calls \in [Workers -> Calls]
    /\ \A w \in Workers :
           calls[w].pc \in {"enter", "erase"} \cup Holding => calls[w].resource # None

\* A thread is in the part of a call that works on an object only while it has
\* the object's mutex, so two threads are never in it together; and a mutex is
\* held by nobody who is not there. The second half is what keeps every path
\* that throws from leaving the object locked.
MutexDiscipline ==
    /\ \A w \in Workers : calls[w].pc \in Holding => Locked(w)
    /\ \A r \in Resources :
           owner[r] # None =>
               calls[owner[r]].pc \in Holding /\ calls[owner[r]].resource = r

\* The bindings in use, each with the object or call that keeps it.
Kept ==
    (UNION {{<<r, b>> : b \in heap[r].bindings} : r \in Resources}) \cup
    (UNION {{<<w, b>> : b \in calls[w].got} : w \in {v \in Workers : At(v, "allocate")}})

\* Two streams are never bound to one port: not in one graph, not in two, not
\* while one of the graphs is still being prepared. And a port in use is in
\* the allocator's set, or it would be handed out again.
PortsExclusive ==
    /\ \A x, y \in Kept : x[2][2] = y[2][2] => x = y
    /\ \A x \in Kept : x[2][2] \in allocated

\* What an object whose mutex is free says about itself. Without an execution
\* it is idle and has given every port back; it claims to be Running only with
\* a running execution; and it is left Stopping, the phase that refuses every
\* later prepare, start, stop and destroy, only by a scheduler that throws
\* something that is no std::exception.
ObjectsConsistent ==
    \A r \in Resources :
        owner[r] = None =>
            /\ heap[r].execution = "none" => heap[r].phase = "Idle" /\ heap[r].bindings = {}
            /\ heap[r].phase = "Running" => heap[r].execution = "running"
            /\ heap[r].phase = "Stopping" => "foreign" \in Exceptions

\* No execution and no port is left to an object that nothing refers to any
\* more. Between the two critical sections of destroy the object is out of its
\* mutex and still in the map: a prepare that came in there would build an
\* execution, let its graph run, and have it dropped from the map.
NothingOrphaned ==
    \A r \in Resources :
        ~Referenced(r) => heap[r].execution = "none" /\ heap[r].bindings = {}

\* allocated_ports_ holds the ports in use and no others, but for those lost in
\* one of the two ways the code has: an allocation that fails outside the try
\* block after others succeeded, and a loader that throws something that is no
\* std::exception. No other path loses a port, whatever throws and in whatever
\* order, and a lost port is never in use again.
NoPortLeaked ==
    LET kept == {x[2][2] : x \in Kept}
    IN  allocated = kept \cup lost /\ kept \cap lost = {}

=============================================================================
