---------------------------- MODULE ControlPlane ----------------------------
(***************************************************************************)
(* SessionService on top of Gr4RuntimeManager: the threads of the control  *)
(* plane carry a request through the critical sections of the service and  *)
(* the locked sections of the manager, interleaved with every other        *)
(* request. A runtime call of SessionService.tla, one free choice there,   *)
(* becomes here a call of the manager, its steps, and the return of its    *)
(* outcome to the service.                                                 *)
(***************************************************************************)
EXTENDS Naturals, FiniteSets

CONSTANTS
    Sessions, Workers, None,
    FetchAttempts,                                      \* of SessionService
    Resources, Streams, Websocket, Authored, Ports,     \* of Gr4RuntimeManager
    Exceptions, SocketsFail

\* What the two parts assume of their constants.
ASSUME ControlPlaneAssumption ==
    /\ None \notin Sessions \cup Workers \cup Resources
    /\ Workers \cap Resources = {}
    /\ FetchAttempts \in Nat \ {0}
    /\ Websocket \subseteq Streams
    /\ Authored \in [Sessions -> SUBSET Streams]
    /\ Exceptions \subseteq {"std", "foreign"}
    /\ SocketsFail \in BOOLEAN

VARIABLES
    repository, phases, tasks,                          \* of SessionService
    resources, heap, owner, allocated, lost, calls      \* of Gr4RuntimeManager

Service == INSTANCE SessionService

Runtime == INSTANCE Gr4RuntimeManager

serviceVars == <<repository, phases, tasks>>

runtimeVars == <<resources, heap, owner, allocated, lost, calls>>

vars == <<serviceVars, runtimeVars>>

-----------------------------------------------------------------------------

Init == Service!Init /\ Runtime!Init

Create(id) == Service!Create(id) /\ UNCHANGED runtimeVars

Begin(w, id) == Service!Begin(w, id) /\ UNCHANGED runtimeVars

\* runtime_manager_.<method>(session)
Call(w) ==
    /\ tasks[w].step \in Service!Methods
    /\ Runtime!Invoke(w, tasks[w].step, tasks[w].id)
    /\ UNCHANGED serviceVars

RuntimeStep(w) == Runtime!Step(w) /\ UNCHANGED serviceVars

\* The call returns or throws to the service, which goes on to its next step
\* or records the failure.
Return(w) ==
    /\ Service!RuntimeReturns(w, calls[w].outcome)
    /\ Runtime!Collect(w)

Commit(w) == Service!Commit(w) /\ UNCHANGED runtimeVars

Next ==
    \/ \E id \in Sessions : Create(id)
    \/ \E w \in Workers, id \in Sessions : Begin(w, id)
    \/ \E w \in Workers :
           \/ Call(w)
           \/ RuntimeStep(w)
           \/ Return(w)
           \/ Commit(w)

\* A thread that is not waiting for an object's mutex goes on; one that is gets
\* it in the end, if it keeps being free.
Fairness ==
    \A w \in Workers :
        /\ WF_vars(Call(w) \/ Return(w) \/ Commit(w))
        /\ WF_vars(Runtime!Proceed(w) /\ UNCHANGED serviceVars)
        /\ SF_vars(Runtime!Enter(w) /\ UNCHANGED serviceVars)

Spec == Init /\ [][Next]_vars /\ Fairness

-----------------------------------------------------------------------------
(* The end of the process, for the modules that model what brings it about: *)
(* everything is kept in memory, and its successor starts from nothing. The *)
(* ports go with the sockets.                                               *)

Restarted ==
    /\ repository' = [id \in Sessions |-> Service!Absent]
    /\ phases' = [id \in Sessions |-> "none"]
    /\ tasks' = [w \in Workers |-> Service!Free]
    /\ resources' = [id \in Sessions |-> None]
    /\ heap' = [r \in Resources |-> Runtime!Fresh]
    /\ owner' = [r \in Resources |-> None]
    /\ allocated' = {}
    /\ lost' = {}
    /\ calls' = [w \in Workers |-> Runtime!NoCall]

-----------------------------------------------------------------------------
(* A session as its settings requests meet it: the two looks they take, at *)
(* the record and then at the phase and the execution of its object.       *)

Object(id) == heap[resources[id]]

RecordOf(id) ==
    IF repository[id].state \in {"running", "absent"} THEN repository[id].state
    ELSE "stopped"

Serves(id) == resources[id] # None /\ Runtime!Serving(Object(id))

Run(id) == INSTANCE SessionRun WITH record <- RecordOf(id), serving <- Serves(id)

-----------------------------------------------------------------------------
(* Properties *)

\* A call is in the manager for the task that made it.
TypeOK ==
    /\ Service!TypeOK
    /\ Runtime!TypeOK
    /\ \A w \in Workers :
           calls[w] # Runtime!NoCall =>
               calls[w].method = tasks[w].step /\ calls[w].id = tasks[w].id

Settled(id) == Service!Owners(id) = {}

\* The record the REST API shows and the runtime agree about a session no
\* operation is under way on: a running session has a running execution, a
\* stopped one has none and holds no port, a removed one has no resources at
\* all.
RecordMatchesRuntime ==
    \A id \in Sessions :
        Settled(id) =>
            CASE repository[id].state = "running" ->
                     resources[id] # None /\ Runtime!Serving(Object(id))
              [] repository[id].state = "stopped" ->
                     resources[id] # None =>
                         Object(id).execution = "none" /\ Object(id).bindings = {}
              [] repository[id].state = "absent" -> resources[id] = None
              [] OTHER -> TRUE

\* The service keeps what the manager relies on: seen through the manager's
\* variables, every step is one of a caller that does not overlap its calls, so
\* that what Gr4RuntimeManager.tla says of such callers (nothing orphaned, no
\* port leaked) holds of the control plane.
MeetsCallerContract == Runtime!Init /\ [][Runtime!Next]_runtimeVars

\* With the manager in place of its free choices the service is still the one
\* of SessionService.tla, its fairness included: every call of the manager
\* returns, although it may wait for the mutex of an object another request
\* holds while its scheduler stops or a settings reply is due.
ImplementsService == Service!Spec

\* Record and graph of each session change in the order that SessionRun.tla
\* allows, one at a time: a record comes to say "running" only of a graph that
\* is serving at that very moment, a graph is launched and halted only while its
\* session has a record, and the record goes only after the graph has stopped.
\* This is all that BlockSettings.tla assumes of the lifecycle.
ImplementsSessionRun ==
    /\ \A id \in Sessions : Run(id)!Init
    /\ [][\A id \in Sessions : [Run(id)!Next]_<<RecordOf(id), Serves(id)>>]_vars

=============================================================================
