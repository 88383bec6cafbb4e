--------------------------- MODULE SessionService ---------------------------
(***************************************************************************)
(* src/src/app/session_service.cpp, the in-memory repository it writes and *)
(* the settings service that reads the same repository.                    *)
(*                                                                         *)
(* A lifecycle operation (start, stop, restart, remove) is three things:   *)
(*   - a critical section under mutex_ that checks the session's state and *)
(*     internal phase, and claims the session with a transitional phase;   *)
(*   - calls into the runtime manager WITHOUT the mutex, which may throw;  *)
(*   - a second critical section that reloads the record and commits the   *)
(*     outcome, or records the failure.                                    *)
(* Each critical section is one action (mutex_ makes it atomic, and the    *)
(* repository has a mutex of its own); each runtime call is one action, in *)
(* which the call returns or throws. What the runtime manager does in the  *)
(* meantime is the business of Gr4RuntimeManager.tla, which                *)
(* ControlPlane.tla puts in place of the free choice made here.            *)
(*                                                                         *)
(* A request that is refused (conflict, not found, validation) or that     *)
(* returns early changes nothing and is a stuttering step.                 *)
(***************************************************************************)
EXTENDS Naturals

CONSTANTS
    Sessions,           \* the identifiers generate_session_id may return
    Workers,            \* the threads that serve requests
    None,               \* "no session"
    FetchAttempts       \* kTransientFetchRetries, 20 in the code

ASSUME NoneAssumption == None \notin Sessions
ASSUME FetchAssumption == FetchAttempts \in Nat \ {0}

VARIABLES
    repository,         \* the stored record of each session
    phases,             \* phases_: the internal phase, "none" if no entry
    tasks               \* what each thread is in the middle of

vars == <<repository, phases, tasks>>

-----------------------------------------------------------------------------

States == {"stopped", "running", "error"}

Phases == {"Idle", "Starting", "Running", "Stopping", "Failed"}

LifecycleOps == {"start", "stop", "restart", "remove"}

\* Requests that look a running session up and then ask the runtime manager.
StreamOps == {"plan", "fetch", "route"}

SettingsOps == {"settings"}

Ops == LifecycleOps \cup StreamOps \cup SettingsOps

\* Runtime manager methods; "commit" is the second critical section.
Methods == {"prepare", "start", "stop", "destroy"} \cup StreamOps \cup SettingsOps

Steps == Methods \cup {"commit"}

\* What a runtime call can come to. "transient" is the one error that
\* fetch_http_stream tries again.
Outcomes == {"ok", "throws", "transient"}

Absent == [state |-> "absent", last_error |-> "none"]

Free == [op |-> "none", id |-> None, step |-> "none", seen |-> "absent", attempt |-> 0]

Exists(id) == repository[id].state # "absent"

-----------------------------------------------------------------------------
(* The critical sections that start an operation. *)

\* Without an entry in phases_, the phase is derived from the record.
PhaseFor(id) ==
    IF phases[id] # "none" THEN phases[id]
    ELSE CASE repository[id].state = "stopped" -> "Idle"
           [] repository[id].state = "running" -> "Running"
           [] OTHER -> "Failed"

InTransition(id) == PhaseFor(id) \in {"Starting", "Stopping"}

Create(id) ==
    /\ ~Exists(id)
    /\ repository' = [repository EXCEPT ![id] = [state |-> "stopped", last_error |-> "none"]]
    /\ phases' = [phases EXCEPT ![id] = "Idle"]
    /\ UNCHANGED tasks

\* The copy of the record taken under the mutex is all the thread goes by
\* afterwards: `seen' is its state.
Accept(w, op, id, step) ==
    tasks' = [tasks EXCEPT ![w] =
        [op |-> op, id |-> id, step |-> step, seen |-> repository[id].state, attempt |-> 0]]

Claim(id, phase) ==
    /\ phases' = [phases EXCEPT ![id] = phase]
    /\ UNCHANGED repository

\* A mutant: a start in progress is no obstacle to another.
BugStartIgnoresStarting(w, id) ==
    /\ tasks[w] = Free
    /\ Exists(id)
    /\ repository[id].state # "running"
    /\ PhaseFor(id) \notin {"Running", "Stopping"}
    /\ Claim(id, "Starting")
    /\ Accept(w, "start", id, "prepare")

StartBegin(w, id) ==
    /\ tasks[w] = Free
    /\ Exists(id)
    /\ repository[id].state # "running"
    /\ PhaseFor(id) # "Running"
    /\ ~InTransition(id)
    /\ Claim(id, "Starting")
    /\ Accept(w, "start", id, "prepare")

\* A mutant: a stopped session is stopped once more.
BugStopStopped(w, id) ==
    /\ tasks[w] = Free
    /\ Exists(id)
    /\ ~InTransition(id)
    /\ Claim(id, "Stopping")
    /\ Accept(w, "stop", id, "stop")

\* A stopped, idle session is returned as it is.
StopBegin(w, id) ==
    /\ tasks[w] = Free
    /\ Exists(id)
    /\ ~InTransition(id)
    /\ ~(repository[id].state = "stopped" /\ PhaseFor(id) = "Idle")
    /\ Claim(id, "Stopping")
    /\ Accept(w, "stop", id, "stop")

FirstStep(id) == IF repository[id].state = "running" THEN "stop" ELSE "destroy"

RestartBegin(w, id) ==
    /\ tasks[w] = Free
    /\ Exists(id)
    /\ ~InTransition(id)
    /\ Claim(id, "Starting")
    /\ Accept(w, "restart", id, FirstStep(id))

\* A mutant: the phase is not looked at.
BugRemoveIgnoresTransition(w, id) ==
    /\ tasks[w] = Free
    /\ Exists(id)
    /\ Claim(id, "Stopping")
    /\ Accept(w, "remove", id, FirstStep(id))

RemoveBegin(w, id) ==
    /\ tasks[w] = Free
    /\ Exists(id)
    /\ ~InTransition(id)
    /\ Claim(id, "Stopping")
    /\ Accept(w, "remove", id, FirstStep(id))

\* active_stream_plan, fetch_http_stream and resolve_websocket_stream.
StreamBegin(w, op, id) ==
    /\ tasks[w] = Free
    /\ Exists(id)
    /\ repository[id].state = "running"
    /\ PhaseFor(id) = "Running"
    /\ Accept(w, op, id, op)
    /\ UNCHANGED <<repository, phases>>

\* The settings service asks the repository and never the phases.
SettingsBegin(w, op, id) ==
    /\ tasks[w] = Free
    /\ repository[id].state = "running"
    /\ Accept(w, op, id, op)
    /\ UNCHANGED <<repository, phases>>

-----------------------------------------------------------------------------
(* The runtime calls, outside the mutex. *)

\* Mutants: stop goes on to destroy; start commits what was only prepared.
BugAfterStopDestroys(op, step) ==
    CASE step = "stop" -> "destroy"
      [] step = "destroy" -> IF op = "restart" THEN "prepare" ELSE "commit"
      [] step = "prepare" -> "start"
      [] step = "start" -> "commit"
      [] OTHER -> "none"

BugAfterPrepareCommits(op, step) ==
    CASE step = "stop" -> IF op = "stop" THEN "commit" ELSE "destroy"
      [] step = "destroy" -> IF op = "restart" THEN "prepare" ELSE "commit"
      [] OTHER -> "commit"

\* The step that follows one that returned; "none" ends the operation.
After(op, step) ==
    CASE step = "stop" -> IF op = "stop" THEN "commit" ELSE "destroy"
      [] step = "destroy" -> IF op = "restart" THEN "prepare" ELSE "commit"
      [] step = "prepare" -> "start"
      [] step = "start" -> "commit"
      [] OTHER -> "none"

Release(w) == tasks' = [tasks EXCEPT ![w] = Free]

RuntimeOk(w) ==
    /\ tasks[w].step \in Methods
    /\ IF tasks[w].op \in LifecycleOps
       THEN tasks' = [tasks EXCEPT ![w].step = After(tasks[w].op, tasks[w].step)]
       ELSE Release(w)
    /\ UNCHANGED <<repository, phases>>

\* A mutant: the failed operation keeps its claim on the session.
BugFailureKeepsPhase(id, op) ==
    /\ repository' = IF Exists(id)
                     THEN [repository EXCEPT ![id] = [state |-> "error", last_error |-> op]]
                     ELSE repository
    /\ UNCHANGED phases

\* record_runtime_failure. A record that has gone is not brought back, and
\* its phase is left as it is.
RecordFailure(id, op) ==
    IF Exists(id)
    THEN /\ repository' = [repository EXCEPT ![id] = [state |-> "error", last_error |-> op]]
         /\ phases' = [phases EXCEPT ![id] = "Failed"]
    ELSE UNCHANGED <<repository, phases>>

\* A mutant: any failed request puts the session in error.
BugThrowsAlwaysRecords(w) ==
    /\ tasks[w].step \in Methods
    /\ Release(w)
    /\ RecordFailure(tasks[w].id, IF tasks[w].op \in LifecycleOps THEN tasks[w].op ELSE "stop")

RuntimeThrows(w) ==
    /\ tasks[w].step \in Methods
    /\ Release(w)
    /\ IF tasks[w].op \in LifecycleOps
       THEN RecordFailure(tasks[w].id, tasks[w].op)
       ELSE UNCHANGED <<repository, phases>>

\* A mutant: the number of attempts has no bound.
BugRetryForever(w) ==
    /\ tasks[w].step = "fetch"
    /\ UNCHANGED <<repository, phases>>
    /\ tasks' = [tasks EXCEPT ![w].attempt = (@ + 1) % FetchAttempts]

\* The copy of the record is not refreshed between attempts.
RuntimeTransient(w) ==
    /\ tasks[w].step = "fetch"
    /\ UNCHANGED <<repository, phases>>
    /\ IF tasks[w].attempt + 1 = FetchAttempts
       THEN Release(w)
       ELSE tasks' = [tasks EXCEPT ![w].attempt = @ + 1]

RuntimeReturns(w, outcome) ==
    \/ outcome = "ok" /\ RuntimeOk(w)
    \/ outcome = "throws" /\ RuntimeThrows(w)
    \/ outcome = "transient" /\ RuntimeTransient(w)

-----------------------------------------------------------------------------
(* The critical sections that commit an operation. *)

\* store_session_locked after load_or_throw: only a record that is still
\* there is updated.
Store(id, state, phase) ==
    IF Exists(id)
    THEN /\ repository' = [repository EXCEPT ![id] = [state |-> state, last_error |-> "none"]]
         /\ phases' = [phases EXCEPT ![id] = phase]
    ELSE UNCHANGED <<repository, phases>>

\* A mutant: the phase outlives the record.
BugErasePhaseFirst(id) ==
    /\ repository' = [repository EXCEPT ![id] = Absent]
    /\ UNCHANGED phases

Erase(id) ==
    IF Exists(id)
    THEN /\ repository' = [repository EXCEPT ![id] = Absent]
         /\ phases' = [phases EXCEPT ![id] = "none"]
    ELSE UNCHANGED <<repository, phases>>

CommitStart(w) ==
    /\ tasks[w].step = "commit"
    /\ tasks[w].op \in {"start", "restart"}
    /\ Store(tasks[w].id, "running", "Running")
    /\ Release(w)

CommitStop(w) ==
    /\ tasks[w].step = "commit"
    /\ tasks[w].op = "stop"
    /\ Store(tasks[w].id, "stopped", "Idle")
    /\ Release(w)

CommitRemove(w) ==
    /\ tasks[w].step = "commit"
    /\ tasks[w].op = "remove"
    /\ Erase(tasks[w].id)
    /\ Release(w)

Commit(w) == CommitStart(w) \/ CommitStop(w) \/ CommitRemove(w)

-----------------------------------------------------------------------------

Init ==
    /\ repository = [id \in Sessions |-> Absent]
    /\ phases = [id \in Sessions |-> "none"]
    /\ tasks = [w \in Workers |-> Free]

Begin(w, id) ==
    \/ StartBegin(w, id)
    \/ StopBegin(w, id)
    \/ RestartBegin(w, id)
    \/ RemoveBegin(w, id)
    \/ \E op \in StreamOps : StreamBegin(w, op, id)
    \/ \E op \in SettingsOps : SettingsBegin(w, op, id)

Advance(w) ==
    \/ \E outcome \in Outcomes : RuntimeReturns(w, outcome)
    \/ Commit(w)

Next ==
    \/ \E id \in Sessions : Create(id)
    \/ \E w \in Workers, id \in Sessions : Begin(w, id)
    \/ \E w \in Workers : Advance(w)

\* A thread in the middle of a request goes on: nothing in it waits for
\* another request, and every runtime call returns or throws.
Fairness == \A w \in Workers : WF_vars(Advance(w))

Spec == Init /\ [][Next]_vars /\ Fairness

-----------------------------------------------------------------------------
(* Properties *)

Records ==
    [state : States \cup {"absent"}, last_error : LifecycleOps \cup {"none"}]

Tasks ==
    [op : Ops \cup {"none"}, id : Sessions \cup {None}, step : Steps \cup {"none"},
     seen : States \cup {"absent"}, attempt : 0 .. FetchAttempts - 1]

\* A request is nothing, or the calls of its own script.
Script(op) ==
    CASE op = "start" -> {"prepare", "start", "commit"}
      [] op = "stop" -> {"stop", "commit"}
      [] op = "restart" -> {"stop", "destroy", "prepare", "start", "commit"}
      [] op = "remove" -> {"stop", "destroy", "commit"}
      [] OTHER -> {op}

WellFormed(task) ==
    \/ task = Free
    \/ /\ task.op \in Ops
       /\ task.id \in Sessions
       /\ task.step \in Script(task.op)

TypeOK ==
    /\ repository \in [Sessions -> Records]
    /\ phases \in [Sessions -> Phases \cup {"none"}]
    /\ tasks \in [Workers -> Tasks]
    /\ \A w \in Workers : WellFormed(tasks[w])

\* The threads in the middle of a lifecycle operation on a session.
Owners(id) == {w \in Workers : tasks[w].op \in LifecycleOps /\ tasks[w].id = id}

\* The phase a lifecycle operation claims its session with.
ClaimedPhase(op) == IF op \in {"start", "restart"} THEN "Starting" ELSE "Stopping"

\* At most one thread at a time is between the two critical sections of a
\* lifecycle operation on a session, although neither holds the mutex there:
\* two starts, or a remove during a slow stop, never overlap.
OneLifecycleOpPerSession ==
    \A v, w \in Workers :
        /\ tasks[v].op \in LifecycleOps
        /\ tasks[w].op \in LifecycleOps
        /\ tasks[v].id = tasks[w].id
        => v = w

\* A session is in a transitional phase exactly while a thread is there to
\* end it. A phase left Starting or Stopping by nobody would make every later
\* start, stop, restart and remove of the session answer "in progress".
TransitionHasOwner ==
    \A id \in Sessions :
        phases[id] \in {"Starting", "Stopping"} =>
            \E w \in Owners(id) : phases[id] = ClaimedPhase(tasks[w].op)

\* The claim outlives everything else: as long as the operation is under way
\* its record is still there, in the state the thread's own copy says, and
\* the session still has the phase the operation claimed.
OwnerStillHolds ==
    \A w \in Workers :
        tasks[w].op \in LifecycleOps =>
            /\ Exists(tasks[w].id)
            /\ repository[tasks[w].id].state = tasks[w].seen
            /\ phases[tasks[w].id] = ClaimedPhase(tasks[w].op)

\* Outside transitions the two views of a session agree: the visible state
\* and the internal phase tell the same story, a removed session leaves no
\* phase behind for one created later with its identifier, and last_error is
\* set for sessions in error and for no other.
Agree(record, phase) ==
    CASE record.state = "absent" -> phase = "none"
      [] record.state = "stopped" -> phase = "Idle"
      [] record.state = "running" -> phase = "Running"
      [] record.state = "error" -> phase = "Failed"

SettledViewsAgree ==
    \A id \in Sessions :
        /\ Owners(id) = {} => Agree(repository[id], phases[id])
        /\ repository[id].last_error # "none" <=> repository[id].state = "error"

\* A stream or settings request in flight never stands in for a lifecycle
\* operation: only a thread that owns the session changes its record, and a
\* running session stops being shown as running only by an operation that was
\* accepted while it was.
RecordChangesByOwner ==
    [][\A id \in Sessions :
        repository'[id] # repository[id] =>
            \/ ~Exists(id)
            \/ \E w \in Owners(id) : tasks'[w] = Free]_vars

\* No request is served for ever. With TransitionHasOwner: no session stays in
\* transition, where it would refuse every later operation.
EveryRequestEnds == \A w \in Workers : tasks[w] # Free ~> tasks[w] = Free

-----------------------------------------------------------------------------
(* Refinement *)

\* The operation under way on a session is that of the thread that owns it.
DoingBar ==
    [id \in Sessions |->
        IF Owners(id) = {} THEN "none"
        ELSE tasks[CHOOSE w \in Owners(id) : TRUE].op]

StatusBar == [id \in Sessions |-> repository[id].state]

Lifecycle == INSTANCE SessionLifecycle WITH status <- StatusBar, doing <- DoingBar

\* The service implements SessionLifecycle: each accepted operation, however
\* its runtime calls interleave with other requests, takes effect at once at
\* its commit and ends as a success or a recorded error.
ImplementsLifecycle == Lifecycle!Spec

=============================================================================
