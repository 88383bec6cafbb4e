-------------------------- MODULE ControlPlaneProofs --------------------------
(***************************************************************************)
(* Theorems about ControlPlane.tla: what the proofs of its two parts say   *)
(* of each alone is put together.                                          *)
(***************************************************************************)
EXTENDS ControlPlane, TLAPS

SP == INSTANCE SessionServiceProofs

RP == INSTANCE Gr4RuntimeManagerProofs

\* A call is in the manager for the task that made it.
Linked ==
    \A w \in Workers :
        calls[w] # RP!NoCall =>
            calls[w].method = tasks[w].step /\ calls[w].id = tasks[w].id

\* What a lifecycle operation has made of its session by the time it commits.
Achieved(op, id) ==
    /\ op \in {"start", "restart"} => RP!Up(id)
    /\ op = "stop" => RP!Clean(id)
    /\ op = "remove" => RP!Gone(id)

CommitsWhatIsDone ==
    \A w \in Workers :
        tasks[w].step = "commit" => Achieved(tasks[w].op, tasks[w].id)

\* RecordMatchesRuntime, of one session.
Matches(id) ==
    /\ repository[id].state = "running" => RP!Up(id)
    /\ repository[id].state = "stopped" => RP!Clean(id)
    /\ repository[id].state = "absent" => RP!Gone(id)

SettledMatch == \A id \in Sessions : SP!Owners(id) = {} => Matches(id)

IInv == SP!IInv /\ RP!IInv /\ Linked /\ CommitsWhatIsDone /\ SettledMatch

-----------------------------------------------------------------------------
(* The two parts under the names of their proofs. *)

LEMMA ServiceTypes ==
    /\ Service!TypeOK <=> SP!TypeOK
    /\ Service!Free = SP!Free
    /\ Service!Methods = SP!Methods
    /\ Service!LifecycleOps = SP!LifecycleOps
<1>1. Service!Free = SP!Free
  BY DEF Service!Free, SP!Free
<1>2. Service!Methods = SP!Methods
  BY DEF Service!Methods, SP!Methods, Service!StreamOps, SP!StreamOps,
         Service!SettingsOps, SP!SettingsOps
<1>3. Service!LifecycleOps = SP!LifecycleOps
  BY DEF Service!LifecycleOps, SP!LifecycleOps
<1>4. Service!TypeOK <=> SP!TypeOK
  BY DEF Service!TypeOK, Service!Records, Service!Tasks, Service!States, Service!Phases,
         Service!WellFormed, Service!Script, Service!Ops, Service!LifecycleOps,
         Service!StreamOps, Service!SettingsOps, Service!Steps, Service!Methods, Service!Free,
         SP!TypeOK, SP!Records, SP!Tasks, SP!States, SP!Phases,
         SP!WellFormed, SP!Script, SP!Ops, SP!LifecycleOps,
         SP!StreamOps, SP!SettingsOps, SP!Steps, SP!Methods, SP!Free
<1> QED
  BY <1>1, <1>2, <1>3, <1>4

LEMMA ServiceActions ==
    /\ Service!Init <=> SP!Init
    /\ \A id : Service!Create(id) <=> SP!Create(id)
    /\ \A w, id : Service!Begin(w, id) <=> SP!Begin(w, id)
    /\ \A w, outcome : Service!RuntimeReturns(w, outcome) <=> SP!RuntimeReturns(w, outcome)
    /\ \A w : Service!Commit(w) <=> SP!Commit(w)
<1>1. Service!Init <=> SP!Init
  BY DEF Service!Init, Service!Absent, Service!Free, SP!Init, SP!Absent, SP!Free
<1>2. ASSUME NEW id PROVE Service!Create(id) <=> SP!Create(id)
  BY DEF Service!Create, Service!Exists, SP!Create, SP!Exists
<1>3. ASSUME NEW w, NEW id PROVE Service!Begin(w, id) <=> SP!Begin(w, id)
  BY DEF Service!Begin, Service!StartBegin, Service!StopBegin, Service!RestartBegin,
         Service!RemoveBegin, Service!StreamBegin, Service!SettingsBegin,
         Service!StreamOps, Service!SettingsOps, Service!Exists, Service!PhaseFor,
         Service!InTransition, Service!Claim, Service!Accept, Service!FirstStep,
         Service!Free, SP!Begin, SP!StartBegin, SP!StopBegin, SP!RestartBegin,
         SP!RemoveBegin, SP!StreamBegin, SP!SettingsBegin, SP!StreamOps,
         SP!SettingsOps, SP!Exists, SP!PhaseFor, SP!InTransition, SP!Claim,
         SP!Accept, SP!FirstStep, SP!Free
<1>4. ASSUME NEW w, NEW outcome
      PROVE  Service!RuntimeReturns(w, outcome) <=> SP!RuntimeReturns(w, outcome)
  BY DEF Service!RuntimeReturns, Service!RuntimeOk, Service!RuntimeThrows,
         Service!RuntimeTransient, Service!RecordFailure, Service!Release,
         Service!After, Service!Methods, Service!LifecycleOps, Service!StreamOps,
         Service!SettingsOps, Service!Exists, Service!Free, SP!RuntimeReturns,
         SP!RuntimeOk, SP!RuntimeThrows, SP!RuntimeTransient, SP!RecordFailure,
         SP!Release, SP!After, SP!Methods, SP!LifecycleOps, SP!StreamOps,
         SP!SettingsOps, SP!Exists, SP!Free
<1>5. ASSUME NEW w PROVE Service!Commit(w) <=> SP!Commit(w)
  BY DEF Service!Commit, Service!CommitStart, Service!CommitStop,
         Service!CommitRemove, Service!Store, Service!Erase, Service!Release,
         Service!Exists, Service!Free, Service!Absent, SP!Commit, SP!CommitStart,
         SP!CommitStop, SP!CommitRemove, SP!Store, SP!Erase, SP!Release, SP!Exists,
         SP!Free, SP!Absent
<1> QED
  BY <1>1, <1>2, <1>3, <1>4, <1>5


LEMMA RuntimeTypes ==
    /\ Runtime!TypeOK <=> RP!TypeOK
    /\ Runtime!NoCall = RP!NoCall
    /\ Runtime!Methods = RP!Methods
    /\ Runtime!Lifecycle = RP!Lifecycle
    /\ \A object : Runtime!Serving(object) <=> RP!Serving(object)
<1>1. Runtime!TypeOK <=> RP!TypeOK
  BY DEF Runtime!TypeOK, Runtime!Objects, Runtime!Phases, Runtime!Executions,
         Runtime!Bindings, Runtime!Calls, Runtime!Methods, Runtime!Lifecycle,
         Runtime!Reads, Runtime!Settings, Runtime!Pcs, Runtime!Holding, RP!TypeOK,
         RP!Objects, RP!Phases, RP!Executions, RP!Bindings, RP!Calls, RP!Methods,
         RP!Lifecycle, RP!Reads, RP!Settings, RP!Pcs, RP!Holding
<1>2. Runtime!NoCall = RP!NoCall
  BY DEF Runtime!NoCall, RP!NoCall
<1>3. Runtime!Methods = RP!Methods /\ Runtime!Lifecycle = RP!Lifecycle
  BY DEF Runtime!Methods, Runtime!Lifecycle, Runtime!Reads, Runtime!Settings,
         RP!Methods, RP!Lifecycle, RP!Reads, RP!Settings
<1>4. \A object : Runtime!Serving(object) <=> RP!Serving(object)
  BY DEF Runtime!Serving, RP!Serving
<1> QED
  BY <1>1, <1>2, <1>3, <1>4

LEMMA RuntimeEnters ==
    ASSUME NEW w PROVE Runtime!Enter(w) <=> RP!Enter(w)
  BY DEF Runtime!Enter, Runtime!PrepareRefused, Runtime!PrepareAgain,
         Runtime!StartAgain, Runtime!ContractError, Runtime!PrepareBegin,
         Runtime!StopIdle, Runtime!StopRefused, Runtime!StopRunning,
         Runtime!ListStreams, Runtime!LookupThrows, Runtime!Route, Runtime!Fetch,
         Runtime!SendSettings, Runtime!At, Runtime!Mine, Runtime!Unlocked,
         Runtime!Return, Runtime!Throw, Runtime!Answer, Runtime!Continue,
         Runtime!Hold, Runtime!Unlock, Runtime!Update, Runtime!Entering,
         Runtime!Serving, Runtime!PortsOf, Runtime!Teardown, Runtime!TornDown,
         Runtime!AfterTeardown, Runtime!Settings, RP!Enter, RP!PrepareRefused,
         RP!PrepareAgain, RP!StartAgain, RP!ContractError, RP!PrepareBegin,
         RP!StopIdle, RP!StopRefused, RP!StopRunning, RP!ListStreams,
         RP!LookupThrows, RP!Route, RP!Fetch, RP!SendSettings, RP!At, RP!Mine,
         RP!Unlocked, RP!Return, RP!Throw, RP!Answer, RP!Continue, RP!Hold,
         RP!Unlock, RP!Update, RP!Entering, RP!Serving, RP!PortsOf, RP!Teardown,
         RP!TornDown, RP!AfterTeardown, RP!Settings

LEMMA RuntimeProceeds ==
    ASSUME NEW w PROVE Runtime!Proceed(w) <=> RP!Proceed(w)
  BY DEF Runtime!Proceed, Runtime!Find, Runtime!CreateResources, Runtime!NotFound,
         Runtime!Allocate, Runtime!AllocateThrows, Runtime!Load, Runtime!LoadThrows,
         Runtime!Launch, Runtime!LaunchThrows, Runtime!Halt, Runtime!HaltThrows,
         Runtime!EraseEntry, Runtime!Connect, Runtime!ConnectFails, Runtime!Reply,
         Runtime!At, Runtime!Mine, Runtime!Unlocked, Runtime!Return, Runtime!Throw,
         Runtime!Answer, Runtime!Continue, Runtime!Hold, Runtime!Unlock,
         Runtime!Update, Runtime!Take, Runtime!Referenced, Runtime!Fresh,
         Runtime!Missing, Runtime!PortsOf, Runtime!Teardown, Runtime!TornDown,
         Runtime!AfterTeardown, Runtime!Listening, RP!Proceed, RP!Find,
         RP!CreateResources, RP!NotFound, RP!Allocate, RP!AllocateThrows, RP!Load,
         RP!LoadThrows, RP!Launch, RP!LaunchThrows, RP!Halt, RP!HaltThrows,
         RP!EraseEntry, RP!Connect, RP!ConnectFails, RP!Reply, RP!At, RP!Mine,
         RP!Unlocked, RP!Return, RP!Throw, RP!Answer, RP!Continue, RP!Hold,
         RP!Unlock, RP!Update, RP!Take, RP!Referenced, RP!Fresh, RP!Missing,
         RP!PortsOf, RP!Teardown, RP!TornDown, RP!AfterTeardown, RP!Listening

LEMMA RuntimeActions ==
    /\ Runtime!Init <=> RP!Init
    /\ \A w, method, id : Runtime!Invoke(w, method, id) <=> RP!Invoke(w, method, id)
    /\ \A w : Runtime!Step(w) <=> RP!Step(w)
    /\ \A w : Runtime!Collect(w) <=> RP!Collect(w)
<1>1. Runtime!Init <=> RP!Init
  BY DEF Runtime!Init, Runtime!Fresh, Runtime!NoCall, RP!Init, RP!Fresh, RP!NoCall
<1>2. \A w, method, id : Runtime!Invoke(w, method, id) <=> RP!Invoke(w, method, id)
  BY DEF Runtime!Invoke, Runtime!NoCall, RP!Invoke, RP!NoCall
<1>3. \A w : Runtime!Step(w) <=> RP!Step(w)
  BY RuntimeEnters, RuntimeProceeds DEF Runtime!Step, RP!Step
<1>4. \A w : Runtime!Collect(w) <=> RP!Collect(w)
  BY DEF Runtime!Collect, Runtime!At, Runtime!NoCall, RP!Collect, RP!At, RP!NoCall
<1> QED
  BY <1>1, <1>2, <1>3, <1>4

LEMMA RecordMatchesIs ==
    SP!TypeOK /\ SettledMatch => RecordMatchesRuntime
<1> SUFFICES ASSUME SP!TypeOK, SettledMatch, NEW id \in Sessions, Settled(id)
             PROVE  CASE repository[id].state = "running" ->
                             resources[id] # None /\ Runtime!Serving(Object(id))
                      [] repository[id].state = "stopped" ->
                             resources[id] # None =>
                                 Object(id).execution = "none" /\ Object(id).bindings = {}
                      [] repository[id].state = "absent" -> resources[id] = None
                      [] OTHER -> TRUE
  BY DEF RecordMatchesRuntime
<1>1. Matches(id)
  BY DEF SettledMatch, Settled, Service!Owners, SP!Owners, Service!LifecycleOps,
         SP!LifecycleOps
<1>2. repository[id].state \in {"running", "stopped", "error", "absent"}
  BY DEF SP!TypeOK, SP!Records, SP!States
<1>3. CASE repository[id].state = "running"
  BY <1>1, <1>3, RuntimeTypes DEF Matches, RP!Up, Object
<1>4. CASE repository[id].state = "stopped"
  BY <1>1, <1>4 DEF Matches, RP!Clean, RP!Empty, Object
<1>5. CASE repository[id].state = "absent"
  BY <1>1, <1>5 DEF Matches, RP!Gone
<1>6. CASE repository[id].state = "error"
  BY <1>6
<1> QED
  BY <1>2, <1>3, <1>4, <1>5, <1>6

-----------------------------------------------------------------------------
(* Tasks and calls. *)

LEMMA MethodsAre ==
    /\ RP!Methods = SP!Methods
    /\ RP!Lifecycle = {"prepare", "start", "stop", "destroy"}
    /\ RP!Lifecycle \subseteq RP!Methods
    /\ SP!Methods = {"prepare", "start", "stop", "destroy", "plan", "fetch", "route",
                     "settings"}
    /\ SP!LifecycleOps = {"start", "stop", "restart", "remove"}
    /\ RP!NoCall.method = "none"
  BY DEF RP!Methods, RP!Lifecycle, RP!Reads, RP!Settings, RP!NoCall, SP!Methods,
         SP!StreamOps, SP!SettingsOps, SP!LifecycleOps

\* A task in a lifecycle call, or at its commit, is one of a lifecycle operation.
LEMMA LifecycleTask ==
    ASSUME SP!TypeOK, NEW w \in Workers,
           tasks[w].step \in RP!Lifecycle \cup {"commit"}
    PROVE  /\ tasks[w].op \in SP!LifecycleOps
           /\ tasks[w].id \in Sessions
           /\ tasks[w].step \in SP!Script(tasks[w].op)
<1>1. tasks[w] # SP!Free
  BY MethodsAre DEF SP!Free
<1>2. tasks[w].op \in SP!Ops /\ tasks[w].id \in Sessions
      /\ tasks[w].step \in SP!Script(tasks[w].op)
  BY <1>1 DEF SP!TypeOK, SP!WellFormed
<1>3. tasks[w].op \notin SP!StreamOps \cup SP!SettingsOps
  <2>1. ASSUME tasks[w].op \in SP!StreamOps \cup SP!SettingsOps
        PROVE  tasks[w].step = tasks[w].op
    BY <1>2, <2>1, SP!OpsScripts, ControlPlaneAssumption
  <2> QED
    BY <2>1, MethodsAre DEF SP!StreamOps, SP!SettingsOps
<1> QED
  BY <1>2, <1>3 DEF SP!Ops

\* A call of the manager is for the step that its thread is at.
LEMMA CallIsTask ==
    ASSUME RP!Types, Linked, NEW w \in Workers, calls[w] # RP!NoCall
    PROVE  /\ calls[w].method = tasks[w].step /\ calls[w].id = tasks[w].id
           /\ tasks[w].step \in SP!Methods
           /\ calls[w].id \in Sessions
  BY MethodsAre DEF Linked, RP!Types, RP!WellFormed

LEMMA NoCallOutside ==
    ASSUME RP!Types, Linked, NEW w \in Workers, tasks[w].step \notin SP!Methods
    PROVE  calls[w] = RP!NoCall
  BY CallIsTask

\* The thread of a lifecycle call owns the call's session.
LEMMA CallerOwns ==
    ASSUME SP!TypeOK, RP!Types, Linked, NEW w \in Workers,
           calls[w].method \in RP!Lifecycle
    PROVE  /\ w \in SP!Owners(calls[w].id)
           /\ tasks[w].op \in SP!LifecycleOps /\ tasks[w].id = calls[w].id
           /\ tasks[w].step = calls[w].method
<1>1. calls[w] # RP!NoCall
  BY MethodsAre
<1> QED
  BY <1>1, CallIsTask, LifecycleTask DEF SP!Owners

-----------------------------------------------------------------------------
(* Every step is one of each part, or none of it. *)

LEMMA StepIsService == Next => SP!Next \/ UNCHANGED serviceVars
<1>1. ASSUME NEW id \in Sessions, Create(id) PROVE SP!Next
  BY <1>1, ServiceActions DEF Create, SP!Next
<1>2. ASSUME NEW w \in Workers, NEW id \in Sessions, Begin(w, id) PROVE SP!Next
  BY <1>2, ServiceActions DEF Begin, SP!Next
<1>3. ASSUME NEW w \in Workers, Call(w) \/ RuntimeStep(w) PROVE UNCHANGED serviceVars
  BY <1>3 DEF Call, RuntimeStep
<1>4. ASSUME NEW w \in Workers, Return(w) PROVE SP!Next
  <2>1. SP!RuntimeReturns(w, calls[w].outcome)
    BY <1>4, ServiceActions DEF Return
  <2>2. calls[w].outcome \in SP!Outcomes
    BY <2>1 DEF SP!RuntimeReturns, SP!Outcomes
  <2> QED
    BY <2>1, <2>2 DEF SP!Next, SP!Advance
<1>5. ASSUME NEW w \in Workers, Commit(w) PROVE SP!Next
  BY <1>5, ServiceActions DEF Commit, SP!Next, SP!Advance
<1> QED
  BY <1>1, <1>2, <1>3, <1>4, <1>5 DEF Next

\* The caller's contract: the call that a task makes is not of the lifecycle, or
\* the only one of the lifecycle on its session.
LEMMA CallIsAllowed ==
    ASSUME SP!TypeOK, SP!OneLifecycleOpPerSession, RP!Types, Linked,
           NEW w \in Workers, Call(w)
    PROVE  /\ tasks[w].step \in RP!Methods /\ tasks[w].id \in Sessions
           /\ RP!Invoke(w, tasks[w].step, tasks[w].id)
           /\ RP!CallerAllowed(tasks[w].step, tasks[w].id)
<1>1. /\ tasks[w].step \in SP!Methods
      /\ RP!Invoke(w, tasks[w].step, tasks[w].id)
  BY RuntimeActions, ServiceTypes DEF Call
<1>2. tasks[w].id \in Sessions /\ calls[w] = RP!NoCall
  BY <1>1, MethodsAre DEF SP!TypeOK, SP!WellFormed, SP!Free, RP!Invoke
<1>3. ASSUME tasks[w].step \in RP!Lifecycle, NEW v \in Workers,
             calls[v].method \in RP!Lifecycle, calls[v].id = tasks[w].id
      PROVE  FALSE
  <2>1. tasks[w].op \in SP!LifecycleOps
    BY <1>3, LifecycleTask
  <2>2. tasks[v].op \in SP!LifecycleOps /\ tasks[v].id = tasks[w].id
    BY <1>3, CallerOwns
  <2>3. v = w
    BY <2>1, <2>2 DEF SP!OneLifecycleOpPerSession
  <2> QED
    BY <1>2, <1>3, <2>3, MethodsAre
<1> QED
  BY <1>1, <1>2, <1>3, MethodsAre DEF RP!CallerAllowed

LEMMA StepIsRuntime ==
    ASSUME SP!TypeOK, SP!OneLifecycleOpPerSession, RP!Types, Linked, Next
    PROVE  RP!Next \/ UNCHANGED runtimeVars
<1>1. ASSUME NEW id \in Sessions, Create(id) PROVE UNCHANGED runtimeVars
  BY <1>1 DEF Create
<1>2. ASSUME NEW w \in Workers, NEW id \in Sessions, Begin(w, id) PROVE UNCHANGED runtimeVars
  BY <1>2 DEF Begin
<1>3. ASSUME NEW w \in Workers, Call(w) PROVE RP!Next
  BY <1>3, CallIsAllowed DEF RP!Next
<1>4. ASSUME NEW w \in Workers, RuntimeStep(w) PROVE RP!Next
  BY <1>4, RuntimeActions DEF RuntimeStep, RP!Next
<1>5. ASSUME NEW w \in Workers, Return(w) PROVE RP!Next
  BY <1>5, RuntimeActions DEF Return, RP!Next
<1>6. ASSUME NEW w \in Workers, Commit(w) PROVE UNCHANGED runtimeVars
  BY <1>6 DEF Commit
<1> QED
  BY <1>1, <1>2, <1>3, <1>4, <1>5, <1>6 DEF Next

LEMMA PartsNext ==
    ASSUME SP!IInv, RP!IInv, Linked, [Next]_vars
    PROVE  SP!IInv' /\ RP!IInv'
<1>1. SP!TypeOK /\ SP!OneLifecycleOpPerSession /\ RP!Types
  BY DEF SP!IInv, RP!IInv
<1>2. [SP!Next]_(SP!vars)
  BY StepIsService DEF vars, serviceVars, SP!vars
<1>3. [RP!Next]_(RP!vars)
  BY <1>1, StepIsRuntime DEF vars, runtimeVars, RP!vars
<1> QED
  BY <1>2, <1>3, SP!NextIInv, RP!StepKeepsIInv, ControlPlaneAssumption

-----------------------------------------------------------------------------
(* What each step does to tasks, point by point. *)

\* The task a request begins with, and the record it claims.
LEMMA BeginIs ==
    ASSUME SP!TypeOK, NEW w \in Workers, NEW id \in Sessions, Begin(w, id)
    PROVE  /\ tasks[w] = SP!Free
           /\ tasks'[w].step # "commit"
           /\ \A v \in Workers \ {w} : tasks'[v] = tasks[v]
           /\ UNCHANGED repository
           /\ UNCHANGED runtimeVars
<1>1. SP!Begin(w, id) /\ UNCHANGED runtimeVars
  BY ServiceActions DEF Begin
<1>2. ASSUME NEW op, NEW step, SP!Accept(w, op, id, step)
      PROVE  /\ tasks'[w].step = step
             /\ \A v \in Workers \ {w} : tasks'[v] = tasks[v]
  BY <1>2 DEF SP!Accept, SP!TypeOK
<1>3. /\ SP!FirstStep(id) # "commit"
      /\ "commit" \notin SP!StreamOps \cup SP!SettingsOps
  BY DEF SP!FirstStep, SP!StreamOps, SP!SettingsOps
<1>4. /\ tasks[w] = SP!Free /\ UNCHANGED repository
      /\ \E op : \E step : step # "commit" /\ SP!Accept(w, op, id, step)
  BY <1>1, <1>3 DEF SP!Begin, SP!StartBegin, SP!StopBegin, SP!RestartBegin,
                    SP!RemoveBegin, SP!StreamBegin, SP!SettingsBegin, SP!Claim
<1> QED
  BY <1>1, <1>2, <1>4

\* A call that is taken back by its task.
LEMMA ReturnIs ==
    ASSUME SP!TypeOK, RP!Types, Linked, NEW w \in Workers, Return(w)
    PROVE  /\ calls[w].pc = "returned"
           /\ calls[w].method = tasks[w].step /\ calls[w].id = tasks[w].id
           /\ tasks[w].step \in SP!Methods
           /\ calls'[w] = RP!NoCall
           /\ \A v \in Workers \ {w} : calls'[v] = calls[v] /\ tasks'[v] = tasks[v]
           /\ UNCHANGED <<resources, heap>>
<1>1. SP!RuntimeReturns(w, calls[w].outcome) /\ RP!Collect(w)
  BY ServiceActions, RuntimeActions DEF Return
<1>2. /\ calls[w].pc = "returned" /\ calls'[w] = RP!NoCall
      /\ \A v \in Workers \ {w} : calls'[v] = calls[v]
      /\ UNCHANGED <<resources, heap>>
  BY <1>1 DEF RP!Collect, RP!At, RP!Types, RP!TypeOK
<1>3. calls[w] # RP!NoCall
  BY <1>2 DEF RP!NoCall
<1>4. \A v \in Workers \ {w} : tasks'[v] = tasks[v]
  BY <1>1 DEF SP!RuntimeReturns, SP!RuntimeOk, SP!RuntimeThrows, SP!RuntimeTransient,
              SP!Release, SP!TypeOK
<1> QED
  BY <1>2, <1>3, <1>4, CallIsTask

LEMMA LinkedNext ==
    ASSUME SP!TypeOK, RP!Types, Linked, [Next]_vars
    PROVE  Linked'
<1>1. ASSUME NEW id \in Sessions, Create(id) PROVE Linked'
  BY <1>1, ServiceActions DEF Create, SP!Create, runtimeVars, Linked
<1>2. ASSUME NEW w \in Workers, NEW id \in Sessions, Begin(w, id) PROVE Linked'
  <2>1. calls[w] = RP!NoCall
    BY <1>2, BeginIs, NoCallOutside, MethodsAre DEF SP!Free
  <2> QED
    BY <1>2, <2>1, BeginIs DEF runtimeVars, Linked
<1>3. ASSUME NEW w \in Workers, Call(w) PROVE Linked'
  <2>1. RP!Invoke(w, tasks[w].step, tasks[w].id) /\ UNCHANGED serviceVars
    BY <1>3, RuntimeActions DEF Call
  <2>2. /\ calls'[w].method = tasks[w].step /\ calls'[w].id = tasks[w].id
        /\ \A v \in Workers \ {w} : calls'[v] = calls[v]
    BY <2>1 DEF RP!Invoke, RP!NoCall, RP!Types, RP!TypeOK
  <2> QED
    BY <2>1, <2>2 DEF Linked, serviceVars
<1>4. ASSUME NEW w \in Workers, RuntimeStep(w) PROVE Linked'
  <2>1. RP!Step(w) /\ UNCHANGED serviceVars
    BY <1>4, RuntimeActions DEF RuntimeStep
  <2>2. /\ calls'[w].method = calls[w].method /\ calls'[w].id = calls[w].id
        /\ \A v \in Workers \ {w} : calls'[v] = calls[v]
        /\ calls[w] # RP!NoCall
    BY <2>1, RP!StepIs, ControlPlaneAssumption
  <2> QED
    BY <2>1, <2>2 DEF Linked, serviceVars
<1>5. ASSUME NEW w \in Workers, Return(w) PROVE Linked'
  BY <1>5, ReturnIs DEF Linked
<1>6. ASSUME NEW w \in Workers, Commit(w) PROVE Linked'
  <2>1. SP!Commit(w) /\ UNCHANGED runtimeVars
    BY <1>6, ServiceActions DEF Commit
  <2>2. tasks[w].step = "commit" /\ \A v \in Workers \ {w} : tasks'[v] = tasks[v]
    BY <2>1 DEF SP!Commit, SP!CommitStart, SP!CommitStop, SP!CommitRemove, SP!Release,
                SP!TypeOK
  <2>3. calls[w] = RP!NoCall
    BY <2>2, NoCallOutside, MethodsAre
  <2> QED
    BY <2>1, <2>2, <2>3 DEF runtimeVars, Linked
<1>7. CASE UNCHANGED vars
  BY <1>7 DEF vars, serviceVars, runtimeVars, Linked
<1> QED
  BY <1>1, <1>2, <1>3, <1>4, <1>5, <1>6, <1>7 DEF Next

-----------------------------------------------------------------------------
(* What the runtime has of the sessions. *)

\* A session with no owner among the steps of the runtime, or whose owner is at
\* its commit, keeps its entry and its object.
LEMMA RuntimeStaysOut ==
    ASSUME SP!IInv, RP!IInv, Linked, NEW w \in Workers, RuntimeStep(w),
           NEW id \in Sessions,
           \A v \in SP!Owners(id) : tasks[v].step = "commit"
    PROVE  /\ resources'[id] = resources[id]
           /\ resources[id] # None => heap'[resources[id]] = heap[resources[id]]
<1>1. RP!Step(w) /\ SP!TypeOK /\ RP!Types /\ RP!Entries
  BY RuntimeActions DEF RuntimeStep, SP!IInv, RP!IInv
<1>2. calls[w].method \in RP!Lifecycle => calls[w].id # id
  <2> SUFFICES ASSUME calls[w].method \in RP!Lifecycle, calls[w].id = id PROVE FALSE
    OBVIOUS
  <2>1. w \in SP!Owners(id) /\ tasks[w].step \in RP!Lifecycle
    BY <1>1, CallerOwns
  <2> QED
    BY <2>1, MethodsAre
<1> QED
  BY <1>1, <1>2, RP!StepStaysOut, ControlPlaneAssumption

\* Nothing changes about a session whose entry and object stay as they are.
LEMMA AchievedStays ==
    ASSUME NEW op, NEW id, Achieved(op, id), resources'[id] = resources[id],
           resources[id] # None => heap'[resources[id]] = heap[resources[id]]
    PROVE  Achieved(op, id)'
  BY DEF Achieved, RP!Up, RP!Clean, RP!Gone

LEMMA MatchesStays ==
    ASSUME NEW id, Matches(id), repository'[id].state = repository[id].state,
           resources'[id] = resources[id],
           resources[id] # None => heap'[resources[id]] = heap[resources[id]]
    PROVE  Matches(id)'
  BY DEF Matches, RP!Up, RP!Clean, RP!Gone

\* At its commit a task owns its session alone.
LEMMA CommitterOwns ==
    ASSUME SP!IInv, NEW v \in Workers, tasks[v].step = "commit"
    PROVE  /\ tasks[v].op \in SP!LifecycleOps /\ tasks[v].id \in Sessions
           /\ SP!Owners(tasks[v].id) = {v}
           /\ SP!Exists(tasks[v].id)
<1>1. tasks[v].op \in SP!LifecycleOps /\ tasks[v].id \in Sessions
  BY LifecycleTask DEF SP!IInv
<1> QED
  BY <1>1 DEF SP!IInv, SP!OneLifecycleOpPerSession, SP!OwnerStillHolds, SP!Owners

\* The step after which an operation commits is the one that has done what it
\* commits.
LEMMA LastStepAchieves ==
    ASSUME NEW op \in SP!LifecycleOps, NEW step \in SP!Script(op),
           SP!After(op, step) = "commit", NEW id, RP!Done(step, id)
    PROVE  Achieved(op, id)
<1>1. op \in {"start", "stop", "restart", "remove"}
      /\ step \in {"stop", "destroy", "prepare", "start", "commit"}
  BY SP!OpsScripts, MethodsAre, ControlPlaneAssumption
<1>2. step \in {"stop", "destroy", "start"}
  BY <1>1 DEF SP!After
<1>3. step = "stop" => op = "stop"
  BY DEF SP!After
<1>4. step = "destroy" => op = "remove"
  BY <1>1, SP!OpsScripts, ControlPlaneAssumption DEF SP!After
<1>5. step = "start" => op \in {"start", "restart"}
  BY <1>1, SP!OpsScripts, ControlPlaneAssumption
<1> QED
  BY <1>2, <1>3, <1>4, <1>5 DEF Achieved, RP!Done

LEMMA CommitsNext ==
    ASSUME IInv, [Next]_vars
    PROVE  CommitsWhatIsDone'
<1> SUFFICES ASSUME NEW v \in Workers, tasks'[v].step = "commit",
                    NEW op, op = tasks'[v].op, NEW id, id = tasks'[v].id
             PROVE  Achieved(op, id)'
  BY DEF CommitsWhatIsDone
<1>1. SP!IInv /\ SP!TypeOK /\ RP!IInv /\ RP!Types /\ Linked
  BY DEF IInv, SP!IInv, RP!IInv
<1>2. ASSUME tasks'[v] = tasks[v], UNCHANGED <<resources, heap>>
      PROVE  Achieved(op, id)'
  BY <1>2, AchievedStays DEF IInv, CommitsWhatIsDone
<1>3. ASSUME NEW i \in Sessions, Create(i) PROVE Achieved(op, id)'
  BY <1>2, <1>3, ServiceActions DEF Create, SP!Create, runtimeVars
<1>4. ASSUME NEW w \in Workers, NEW i \in Sessions, Begin(w, i) PROVE Achieved(op, id)'
  BY <1>1, <1>2, <1>4, BeginIs DEF runtimeVars
<1>5. ASSUME NEW w \in Workers, Call(w) PROVE Achieved(op, id)'
  <2>1. RP!Invoke(w, tasks[w].step, tasks[w].id) /\ UNCHANGED serviceVars
    BY <1>5, RuntimeActions DEF Call
  <2> QED
    BY <1>2, <2>1 DEF RP!Invoke, serviceVars
<1>6. ASSUME NEW w \in Workers, RuntimeStep(w) PROVE Achieved(op, id)'
  <2>1. tasks'[v] = tasks[v]
    BY <1>6 DEF RuntimeStep, serviceVars
  <2>2. Achieved(op, id)
    BY <2>1 DEF IInv, CommitsWhatIsDone
  <2>3. id \in Sessions /\ SP!Owners(id) = {v} /\ tasks[v].step = "commit"
    BY <1>1, <2>1, CommitterOwns
  <2> QED
    BY <1>1, <1>6, <2>2, <2>3, RuntimeStaysOut, AchievedStays
<1>7. ASSUME NEW w \in Workers, Return(w) PROVE Achieved(op, id)'
  <2>1. CASE v # w
    BY <1>1, <1>2, <1>7, <2>1, ReturnIs
  <2>2. CASE v = w
    <3>1. /\ calls[w].pc = "returned" /\ tasks[w].step \in SP!Methods
          /\ calls[w].method = tasks[w].step /\ calls[w].id = tasks[w].id
          /\ UNCHANGED <<resources, heap>>
          /\ SP!RuntimeReturns(w, calls[w].outcome)
      BY <1>1, <1>7, ReturnIs, ServiceActions DEF Return
    <3>2. SP!Free.step # "commit" /\ "commit" \notin SP!Methods
      BY MethodsAre DEF SP!Free
    <3>3. /\ calls[w].outcome = "ok" /\ tasks[w].op \in SP!LifecycleOps
          /\ tasks' = [tasks EXCEPT ![w].step = SP!After(tasks[w].op, tasks[w].step)]
      BY <1>1, <2>2, <3>1, <3>2
         DEF SP!RuntimeReturns, SP!RuntimeOk, SP!RuntimeThrows, SP!RuntimeTransient,
             SP!Release, SP!TypeOK, SP!Tasks
    <3>4. /\ op = tasks[w].op /\ id = tasks[w].id
          /\ SP!After(tasks[w].op, tasks[w].step) = "commit"
      BY <1>1, <2>2, <3>3 DEF SP!TypeOK, SP!Tasks
    <3>5. RP!Done(tasks[w].step, id)
      BY <1>1, <3>1, <3>3, <3>4 DEF RP!IInv, RP!OkMeansDone, RP!At
    <3>6. tasks[w].step \in SP!Script(tasks[w].op)
      BY <1>1, <3>1, <3>2, <3>3, MethodsAre DEF SP!TypeOK, SP!WellFormed, SP!Free
    <3>7. Achieved(op, id)
      BY <3>3, <3>4, <3>5, <3>6, LastStepAchieves
    <3> QED
      BY <3>1, <3>7, AchievedStays
  <2> QED
    BY <2>1, <2>2
<1>8. ASSUME NEW w \in Workers, Commit(w) PROVE Achieved(op, id)'
  <2>1. SP!Commit(w) /\ UNCHANGED runtimeVars
    BY <1>8, ServiceActions DEF Commit
  <2>2. tasks'[w] = SP!Free /\ \A u \in Workers \ {w} : tasks'[u] = tasks[u]
    BY <1>1, <2>1 DEF SP!Commit, SP!CommitStart, SP!CommitStop, SP!CommitRemove,
                      SP!Release, SP!TypeOK
  <2> QED
    BY <1>2, <2>1, <2>2 DEF runtimeVars, SP!Free
<1>9. CASE UNCHANGED vars
  BY <1>2, <1>9 DEF vars, serviceVars, runtimeVars
<1> QED
  BY <1>3, <1>4, <1>5, <1>6, <1>7, <1>8, <1>9 DEF Next, IInv

\* A session keeps its answer as long as nothing of it changes; that a step only
\* claims it, or leaves it to the same owners, does not count.
LEMMA SettledStays ==
    ASSUME SettledMatch, NEW id \in Sessions, SP!Owners(id)' = {},
           SP!Owners(id) \subseteq SP!Owners(id)',
           repository'[id] = repository[id], UNCHANGED <<resources, heap>>
    PROVE  Matches(id)'
<1>1. Matches(id)
  BY DEF SettledMatch
<1> QED
  BY <1>1, MatchesStays

\* What a commit stores is what the operation has achieved.
LEMMA CommitMatches ==
    ASSUME IInv, NEW w \in Workers, Commit(w), NEW id, id = tasks[w].id
    PROVE  Matches(id)'
<1>1. SP!Commit(w) /\ UNCHANGED runtimeVars /\ SP!IInv /\ SP!TypeOK
  BY ServiceActions DEF Commit, IInv, SP!IInv
<1>2. tasks[w].step = "commit"
  BY <1>1 DEF SP!Commit, SP!CommitStart, SP!CommitStop, SP!CommitRemove
<1>3. id \in Sessions /\ SP!Exists(id) /\ Achieved(tasks[w].op, id)
  BY <1>1, <1>2, CommitterOwns DEF IInv, CommitsWhatIsDone
<1>4. UNCHANGED <<resources, heap>>
  BY <1>1 DEF runtimeVars
<1>5. CASE SP!CommitStart(w)
  <2>1. repository'[id].state = "running" /\ RP!Up(id)
    BY <1>1, <1>3, <1>5 DEF SP!CommitStart, SP!Store, SP!TypeOK, Achieved
  <2> QED
    BY <1>4, <2>1 DEF Matches, RP!Up
<1>6. CASE SP!CommitStop(w)
  <2>1. repository'[id].state = "stopped" /\ RP!Clean(id)
    BY <1>1, <1>3, <1>6 DEF SP!CommitStop, SP!Store, SP!TypeOK, Achieved
  <2> QED
    BY <1>4, <2>1 DEF Matches, RP!Clean
<1>7. CASE SP!CommitRemove(w)
  <2>1. repository'[id].state = "absent" /\ RP!Gone(id)
    BY <1>1, <1>3, <1>7 DEF SP!CommitRemove, SP!Erase, SP!Absent, SP!TypeOK, Achieved
  <2> QED
    BY <1>4, <2>1 DEF Matches, RP!Gone
<1> QED
  BY <1>1, <1>5, <1>6, <1>7 DEF SP!Commit

\* A call that throws leaves the record of its session in error, or, if it was
\* not a lifecycle operation's, as it is.
LEMMA ReturnRecords ==
    ASSUME SP!IInv, RP!Types, Linked, NEW w \in Workers, Return(w), NEW id \in Sessions
    PROVE  \/ repository'[id].state = "error"
           \/ repository'[id] = repository[id] /\ SP!Owners(id)' = SP!Owners(id)
<1>1. SP!TypeOK /\ SP!OwnerStillHolds
  BY DEF SP!IInv
<1>2. /\ tasks[w].step \in SP!Methods
      /\ \A v \in Workers \ {w} : tasks'[v] = tasks[v]
      /\ SP!RuntimeReturns(w, calls[w].outcome)
  BY <1>1, ReturnIs, ServiceActions DEF Return
<1>3. SP!Free.op \notin SP!LifecycleOps
  BY MethodsAre DEF SP!Free
<1>4. ASSUME \/ tasks'[w].op = tasks[w].op /\ tasks'[w].id = tasks[w].id
             \/ tasks[w].op \notin SP!LifecycleOps /\ tasks'[w].op \notin SP!LifecycleOps
      PROVE  SP!Owners(id)' = SP!Owners(id)
  BY <1>2, <1>4 DEF SP!Owners
<1>5. CASE SP!RuntimeOk(w)
  <2>1. /\ UNCHANGED repository
        /\ \/ tasks'[w].op = tasks[w].op /\ tasks'[w].id = tasks[w].id
           \/ tasks[w].op \notin SP!LifecycleOps /\ tasks'[w].op \notin SP!LifecycleOps
    BY <1>1, <1>3, <1>5 DEF SP!RuntimeOk, SP!Release, SP!TypeOK, SP!Tasks
  <2> QED
    BY <1>4, <2>1
<1>6. CASE SP!RuntimeTransient(w)
  <2>1. tasks[w].op \notin SP!LifecycleOps
    <3>1. tasks[w].step = "fetch" /\ tasks[w] # SP!Free
      BY <1>6 DEF SP!RuntimeTransient, SP!Free
    <3>2. tasks[w].step \in SP!Script(tasks[w].op)
      BY <1>1, <3>1 DEF SP!TypeOK, SP!WellFormed
    <3> QED
      BY <3>1, <3>2, SP!OpsScripts, ControlPlaneAssumption, MethodsAre
  <2>2. UNCHANGED repository /\ tasks'[w].op \notin SP!LifecycleOps
    BY <1>1, <1>3, <1>6, <2>1 DEF SP!RuntimeTransient, SP!Release, SP!TypeOK, SP!Tasks
  <2> QED
    BY <1>4, <2>1, <2>2
<1>7. CASE SP!RuntimeThrows(w) /\ tasks[w].op \notin SP!LifecycleOps
  <2>1. UNCHANGED repository /\ tasks'[w].op \notin SP!LifecycleOps
    BY <1>1, <1>3, <1>7 DEF SP!RuntimeThrows, SP!Release, SP!TypeOK
  <2> QED
    BY <1>4, <1>7, <2>1
<1>8. CASE SP!RuntimeThrows(w) /\ tasks[w].op \in SP!LifecycleOps
  <2>1. SP!Exists(tasks[w].id)
    BY <1>1, <1>8 DEF SP!OwnerStillHolds
  <2>2. /\ repository' = [repository EXCEPT ![tasks[w].id] =
                              [state |-> "error", last_error |-> tasks[w].op]]
        /\ tasks'[w] = SP!Free
    BY <1>1, <1>8, <2>1 DEF SP!RuntimeThrows, SP!RecordFailure, SP!Release, SP!TypeOK
  <2>3. CASE id = tasks[w].id
    BY <1>1, <2>2, <2>3 DEF SP!TypeOK
  <2>4. CASE id # tasks[w].id
    <3>1. repository'[id] = repository[id]
      BY <1>1, <2>2, <2>4 DEF SP!TypeOK
    <3>2. SP!Owners(id)' = SP!Owners(id)
      BY <1>2, <1>3, <2>2, <2>4 DEF SP!Owners
    <3> QED
      BY <3>1, <3>2
  <2> QED
    BY <2>3, <2>4
<1> QED
  BY <1>2, <1>5, <1>6, <1>7, <1>8 DEF SP!RuntimeReturns

LEMMA SettledNext ==
    ASSUME IInv, [Next]_vars
    PROVE  SettledMatch'
<1> SUFFICES ASSUME NEW id \in Sessions, SP!Owners(id)' = {} PROVE Matches(id)'
  BY DEF SettledMatch
<1>1. SP!IInv /\ SP!TypeOK /\ RP!IInv /\ RP!Types /\ Linked /\ SettledMatch
  BY DEF IInv, SP!IInv, RP!IInv
<1>2. ASSUME UNCHANGED tasks PROVE SP!Owners(id)' = SP!Owners(id)
  BY <1>2 DEF SP!Owners
<1>3. ASSUME NEW i \in Sessions, Create(i) PROVE Matches(id)'
  <2>1. /\ ~SP!Exists(i) /\ UNCHANGED tasks /\ UNCHANGED <<resources, heap>>
        /\ repository' = [repository EXCEPT
                              ![i] = [state |-> "stopped", last_error |-> "none"]]
    BY <1>3, ServiceActions DEF Create, SP!Create, runtimeVars
  <2>2. CASE i # id
    BY <1>1, <1>2, <2>1, <2>2, SettledStays DEF SP!TypeOK
  <2>3. CASE i = id
    <3>1. RP!Gone(id)
      BY <1>1, <1>2, <2>1, <2>3 DEF SettledMatch, Matches, SP!Exists
    <3>2. repository'[id].state = "stopped"
      BY <1>1, <2>1, <2>3 DEF SP!TypeOK
    <3> QED
      BY <2>1, <3>1, <3>2 DEF Matches, RP!Gone, RP!Clean
  <2> QED
    BY <2>2, <2>3
<1>4. ASSUME NEW w \in Workers, NEW i \in Sessions, Begin(w, i) PROVE Matches(id)'
  <2>1. /\ tasks[w] = SP!Free /\ UNCHANGED repository /\ UNCHANGED <<resources, heap>>
        /\ \A v \in Workers \ {w} : tasks'[v] = tasks[v]
    BY <1>1, <1>4, BeginIs DEF runtimeVars
  <2>2. SP!Owners(id) \subseteq SP!Owners(id)'
    BY <2>1, MethodsAre DEF SP!Owners, SP!Free
  <2> QED
    BY <1>1, <2>1, <2>2, SettledStays
<1>5. ASSUME NEW w \in Workers, Call(w) PROVE Matches(id)'
  <2>1. RP!Invoke(w, tasks[w].step, tasks[w].id) /\ UNCHANGED <<repository, tasks>>
    BY <1>5, RuntimeActions DEF Call, serviceVars
  <2>2. UNCHANGED <<resources, heap>>
    BY <2>1 DEF RP!Invoke
  <2> QED
    BY <1>1, <1>2, <2>1, <2>2, SettledStays
<1>6. ASSUME NEW w \in Workers, RuntimeStep(w) PROVE Matches(id)'
  <2>1. UNCHANGED <<repository, tasks>>
    BY <1>6 DEF RuntimeStep, serviceVars
  <2>2. SP!Owners(id) = {} /\ Matches(id)
    BY <1>1, <1>2, <2>1 DEF SettledMatch
  <2> QED
    BY <1>1, <1>6, <2>1, <2>2, RuntimeStaysOut, MatchesStays
<1>7. ASSUME NEW w \in Workers, Return(w) PROVE Matches(id)'
  <2>1. CASE repository'[id].state = "error"
    BY <2>1 DEF Matches
  <2>2. CASE repository'[id] = repository[id] /\ SP!Owners(id)' = SP!Owners(id)
    <3>1. UNCHANGED <<resources, heap>>
      BY <1>1, <1>7, ReturnIs
    <3> QED
      BY <1>1, <2>2, <3>1, SettledStays
  <2> QED
    BY <1>1, <1>7, <2>1, <2>2, ReturnRecords
<1>8. ASSUME NEW w \in Workers, Commit(w) PROVE Matches(id)'
  <2>1. CASE id = tasks[w].id
    BY <1>8, <2>1, CommitMatches
  <2>2. CASE id # tasks[w].id
    <3>1. SP!Commit(w) /\ UNCHANGED <<resources, heap>>
      BY <1>8, ServiceActions DEF Commit, runtimeVars
    <3>2. /\ repository'[id] = repository[id]
          /\ \A v \in Workers \ {w} : tasks'[v] = tasks[v]
      BY <1>1, <2>2, <3>1
         DEF SP!Commit, SP!CommitStart, SP!CommitStop, SP!CommitRemove, SP!Store,
             SP!Erase, SP!Release, SP!TypeOK
    <3>3. SP!Owners(id) \subseteq SP!Owners(id)'
      BY <2>2, <3>2 DEF SP!Owners
    <3> QED
      BY <1>1, <3>1, <3>2, <3>3, SettledStays
  <2> QED
    BY <2>1, <2>2
<1>9. CASE UNCHANGED vars
  BY <1>1, <1>2, <1>9, SettledStays DEF vars, serviceVars, runtimeVars
<1> QED
  BY <1>3, <1>4, <1>5, <1>6, <1>7, <1>8, <1>9 DEF Next, IInv

-----------------------------------------------------------------------------

LEMMA InitIInv == Init => IInv
<1> SUFFICES ASSUME Init PROVE IInv
  OBVIOUS
<1>1. SP!Init /\ RP!Init
  BY ServiceActions, RuntimeActions DEF Init
<1>2. SP!IInv /\ RP!IInv
  BY <1>1, SP!InitIInv, RP!InitIInv, ControlPlaneAssumption
<1>3. Linked
  BY <1>1 DEF RP!Init, Linked
<1>4. CommitsWhatIsDone
  BY <1>1 DEF SP!Init, SP!Free, CommitsWhatIsDone
<1>5. \A id \in Sessions : repository[id].state = "absent" /\ RP!Gone(id)
  BY <1>1 DEF SP!Init, SP!Absent, RP!Init, RP!Gone
<1>6. SettledMatch
  BY <1>5 DEF SettledMatch, Matches
<1> QED
  BY <1>2, <1>3, <1>4, <1>6 DEF IInv

\* Every step of the composition (main.cpp's SessionService on its
\* Gr4RuntimeManager) is one of the service, of the manager, or a call or return
\* that both take together; it keeps both invariants and what links them.
THEOREM StepKeepsIInv == IInv /\ [Next]_vars => IInv'
<1> SUFFICES ASSUME IInv, [Next]_vars PROVE IInv'
  OBVIOUS
<1>1. SP!IInv /\ SP!TypeOK /\ RP!IInv /\ RP!Types /\ Linked
  BY DEF IInv, SP!IInv, RP!IInv
<1> QED
  BY <1>1, PartsNext, LinkedNext, CommitsNext, SettledNext DEF IInv

\* In every reachable state of the control plane the service and the manager are
\* each in order, every task at a runtime call has that call in the manager, and
\* a session that nobody works on has in the runtime what its record says.
THEOREM ControlPlaneInvariant == Spec => []IInv
<1> QED
  BY InitIInv, StepKeepsIInv, PTL DEF Spec

\* A task and the call it makes belong together at every moment.
THEOREM TypeCorrect == Spec => []TypeOK
<1>1. IInv => TypeOK
  BY ServiceTypes, RuntimeTypes
     DEF IInv, TypeOK, SP!IInv, RP!IInv, RP!Types, Linked
<1> QED
  BY <1>1, ControlPlaneInvariant, PTL

\* A session that no operation is under way on has in the runtime what its
\* record says: a running graph, nothing left, or no entry at all.
THEOREM RecordsMatchTheRuntime == Spec => []RecordMatchesRuntime
<1>1. IInv => RecordMatchesRuntime
  BY RecordMatchesIs DEF IInv, SP!IInv
<1> QED
  BY <1>1, ControlPlaneInvariant, PTL

LEMMA SameNext ==
    /\ Service!Next <=> SP!Next
    /\ Runtime!Next <=> RP!Next
<1>1. Service!Next <=> SP!Next
  BY ServiceActions
     DEF Service!Next, Service!Advance, Service!Outcomes, SP!Next, SP!Advance, SP!Outcomes
<1>2. \A m, id : Runtime!CallerAllowed(m, id) <=> RP!CallerAllowed(m, id)
  BY RuntimeTypes DEF Runtime!CallerAllowed, RP!CallerAllowed
<1>3. Runtime!Next <=> RP!Next
  BY <1>2, RuntimeTypes, RuntimeActions DEF Runtime!Next, RP!Next
<1> QED
  BY <1>1, <1>3

\* The service never overlaps two lifecycle calls on a session, whatever other
\* requests do between its critical sections: the manager's assumption about
\* its caller is discharged.
THEOREM CallerContractMet == Spec => MeetsCallerContract
<1>1. Init => Runtime!Init
  BY DEF Init
<1>2. IInv /\ [Next]_vars => [Runtime!Next]_runtimeVars
  <2>1. IInv => SP!TypeOK /\ SP!OneLifecycleOpPerSession /\ RP!Types /\ Linked
    BY DEF IInv, SP!IInv, RP!IInv
  <2>2. UNCHANGED vars => UNCHANGED runtimeVars
    BY DEF vars, runtimeVars
  <2> QED
    BY <2>1, <2>2, StepIsRuntime, SameNext
<1> QED
  BY <1>1, <1>2, ControlPlaneInvariant, PTL DEF Spec, MeetsCallerContract

\* The safety part of ImplementsService: with the manager's steps in place of
\* the free choice of an outcome, every step is one of SessionService.tla or
\* none of it.
THEOREM StepsOfTheService == Spec => Service!Init /\ [][Service!Next]_serviceVars
<1>1. Init => Service!Init
  BY DEF Init
<1>2. [Next]_vars => [Service!Next]_serviceVars
  BY StepIsService, SameNext DEF vars, serviceVars
<1> QED
  BY <1>1, <1>2, PTL DEF Spec

-----------------------------------------------------------------------------
(* Sessions as their settings requests meet them. *)

LEMMA ServesIs ==
    \A id : /\ Serves(id) \in BOOLEAN /\ Serves(id)' \in BOOLEAN
            /\ Serves(id) <=> RP!Up(id)
            /\ Serves(id)' <=> RP!Up(id)'
  BY RuntimeTypes DEF Serves, Object, RP!Up

LEMMA RecordOfIs ==
    ASSUME SP!TypeOK, NEW id \in Sessions
    PROVE  /\ RecordOf(id) \in {"running", "stopped", "absent"}
           /\ RecordOf(id) = "absent" <=> ~SP!Exists(id)
  BY DEF RecordOf, SP!Exists

\* The entry and the object of a session say whether its graph serves.
LEMMA ServesStays ==
    ASSUME NEW id, resources'[id] = resources[id],
           resources[id] # None => heap'[resources[id]] = heap[resources[id]]
    PROVE  Serves(id)' = Serves(id)
  BY DEF Serves, Object, Runtime!Serving

\* Nobody is at work on a session without a record, in the service or in the
\* runtime, and it has no entry.
LEMMA AbsentIsLeft ==
    ASSUME IInv, NEW id \in Sessions, ~SP!Exists(id)
    PROVE  SP!Owners(id) = {} /\ RP!Gone(id) /\ Serves(id) = FALSE
<1>1. SP!Owners(id) = {}
  BY DEF IInv, SP!IInv, SP!OwnerStillHolds, SP!Owners
<1>2. RP!Gone(id)
  BY <1>1 DEF IInv, SettledMatch, Matches, SP!Exists
<1> QED
  BY <1>1, <1>2 DEF RP!Gone, Serves

\* A failure is recorded in a record that is there, or not at all.
LEMMA FailureStays ==
    ASSUME SP!TypeOK, NEW w \in Workers, Return(w), NEW id \in Sessions, ~SP!Exists(id)
    PROVE  repository'[id] = repository[id]
<1>1. SP!RuntimeReturns(w, calls[w].outcome)
  BY ServiceActions DEF Return
<1> QED
  BY <1>1 DEF SP!RuntimeReturns, SP!RuntimeOk, SP!RuntimeThrows, SP!RuntimeTransient,
              SP!RecordFailure, SP!Exists, SP!TypeOK

Runs(id) == [Run(id)!Next]_<<RecordOf(id), Serves(id)>>

LEMMA RunsIs ==
    ASSUME NEW id,
           \/ Serves(id)' = Serves(id) /\ RecordOf(id)' = RecordOf(id)
           \/ /\ RecordOf(id) = "absent" /\ RecordOf(id)' = "stopped"
              /\ Serves(id)' = Serves(id) /\ Serves(id) = FALSE
           \/ /\ RecordOf(id) # "absent" /\ RecordOf(id)' = RecordOf(id)
              /\ Serves(id) \in BOOLEAN /\ Serves(id)' \in BOOLEAN
           \/ /\ RecordOf(id) = "running" /\ RecordOf(id)' = "stopped"
              /\ Serves(id)' = Serves(id)
           \/ /\ RecordOf(id) = "stopped" /\ RecordOf(id)' = "running"
              /\ Serves(id)' = Serves(id) /\ Serves(id) = TRUE
           \/ /\ RecordOf(id) # "absent" /\ RecordOf(id)' = "absent"
              /\ Serves(id)' = Serves(id) /\ Serves(id) = FALSE
    PROVE  Runs(id)
<1>1. CASE Serves(id)' = Serves(id) /\ RecordOf(id)' = RecordOf(id)
  BY <1>1, Zenon DEF Runs
<1>2. CASE /\ RecordOf(id) = "absent" /\ RecordOf(id)' = "stopped"
           /\ Serves(id)' = Serves(id) /\ Serves(id) = FALSE
  BY <1>2, Zenon DEF Runs, Run!Next, Run!Create
<1>3. CASE /\ RecordOf(id) # "absent" /\ RecordOf(id)' = RecordOf(id)
           /\ Serves(id) \in BOOLEAN /\ Serves(id)' \in BOOLEAN
  <2>1. \/ Serves(id)' = Serves(id)
        \/ Serves(id) = FALSE /\ Serves(id)' = TRUE
        \/ Serves(id) = TRUE /\ Serves(id)' = FALSE
    BY <1>3, Zenon
  <2> QED
    BY <1>1, <1>3, <2>1, Zenon DEF Runs, Run!Next, Run!Launch, Run!Halt
<1>4. CASE /\ \/ RecordOf(id) = "running" /\ RecordOf(id)' = "stopped"
              \/ /\ RecordOf(id) = "stopped" /\ RecordOf(id)' = "running"
                 /\ Serves(id) = TRUE
           /\ Serves(id)' = Serves(id)
  BY <1>4, Zenon DEF Runs, Run!Next, Run!Commit
<1>5. CASE /\ RecordOf(id) # "absent" /\ RecordOf(id)' = "absent"
           /\ Serves(id)' = Serves(id) /\ Serves(id) = FALSE
  BY <1>5, Zenon DEF Runs, Run!Next, Run!Remove
<1> QED
  BY <1>1, <1>2, <1>3, <1>4, <1>5, Zenon

LEMMA CommitRuns ==
    ASSUME IInv, NEW w \in Workers, Commit(w), NEW id \in Sessions
    PROVE  Runs(id)
<1>1. SP!Commit(w) /\ UNCHANGED <<resources, heap>> /\ SP!IInv /\ SP!TypeOK
  BY ServiceActions DEF Commit, IInv, SP!IInv, runtimeVars
<1>2. Serves(id)' = Serves(id)
  BY <1>1, ServesStays
<1>3. CASE id # tasks[w].id
  <2>1. repository'[id] = repository[id]
    BY <1>1, <1>3 DEF SP!Commit, SP!CommitStart, SP!CommitStop, SP!CommitRemove, SP!Store,
                      SP!Erase, SP!TypeOK
  <2> QED
    BY <1>2, <2>1, RunsIs DEF RecordOf
<1>4. CASE id = tasks[w].id
  <2>1. tasks[w].step = "commit"
    BY <1>1 DEF SP!Commit, SP!CommitStart, SP!CommitStop, SP!CommitRemove
  <2>2. SP!Exists(id) /\ Achieved(tasks[w].op, id)
    BY <1>1, <1>4, <2>1, CommitterOwns DEF IInv, CommitsWhatIsDone
  <2>3. RecordOf(id) \in {"running", "stopped"}
    BY <1>1, <2>2, RecordOfIs
  <2>4. CASE SP!CommitStart(w)
    <3>1. repository'[id].state = "running" /\ RP!Up(id)
      BY <1>1, <1>4, <2>2, <2>4 DEF SP!CommitStart, SP!Store, SP!TypeOK, Achieved
    <3>2. RecordOf(id)' = "running" /\ Serves(id) = TRUE
      BY <3>1, ServesIs DEF RecordOf
    <3> QED
      BY <1>2, <2>3, <3>2, RunsIs
  <2>5. CASE SP!CommitStop(w)
    <3>1. repository'[id].state = "stopped"
      BY <1>1, <1>4, <2>2, <2>5 DEF SP!CommitStop, SP!Store, SP!TypeOK
    <3>2. RecordOf(id)' = "stopped"
      BY <3>1 DEF RecordOf
    <3> QED
      BY <1>2, <2>3, <3>2, RunsIs
  <2>6. CASE SP!CommitRemove(w)
    <3>1. repository'[id].state = "absent" /\ RP!Gone(id)
      BY <1>1, <1>4, <2>2, <2>6
         DEF SP!CommitRemove, SP!Erase, SP!Absent, SP!TypeOK, Achieved
    <3>2. RecordOf(id)' = "absent" /\ Serves(id) = FALSE
      BY <3>1 DEF RecordOf, RP!Gone, Serves
    <3> QED
      BY <1>2, <2>3, <3>2, RunsIs
  <2> QED
    BY <1>1, <2>4, <2>5, <2>6 DEF SP!Commit
<1> QED
  BY <1>3, <1>4

LEMMA StepRuns ==
    ASSUME IInv, [Next]_vars, NEW id \in Sessions
    PROVE  Runs(id)
<1>1. SP!IInv /\ SP!TypeOK /\ RP!IInv /\ RP!Types /\ Linked
  BY DEF IInv, SP!IInv, RP!IInv
<1>2. ASSUME UNCHANGED <<repository, resources, heap>> PROVE Runs(id)
  BY <1>2, ServesStays, RunsIs DEF RecordOf
<1>3. ASSUME NEW i \in Sessions, Create(i) PROVE Runs(id)
  <2>1. /\ ~SP!Exists(i) /\ UNCHANGED <<resources, heap>>
        /\ repository' = [repository EXCEPT
                              ![i] = [state |-> "stopped", last_error |-> "none"]]
    BY <1>3, ServiceActions DEF Create, SP!Create, runtimeVars
  <2>2. Serves(id)' = Serves(id)
    BY <2>1, ServesStays
  <2>3. CASE i # id
    <3>1. repository'[id] = repository[id]
      BY <1>1, <2>1, <2>3 DEF SP!TypeOK
    <3> QED
      BY <2>2, <3>1, RunsIs DEF RecordOf
  <2>4. CASE i = id
    <3>1. RecordOf(id) = "absent" /\ Serves(id) = FALSE
      BY <1>1, <2>1, <2>4, AbsentIsLeft, RecordOfIs
    <3>2. RecordOf(id)' = "stopped"
      BY <1>1, <2>1, <2>4 DEF SP!TypeOK, RecordOf
    <3> QED
      BY <2>2, <3>1, <3>2, RunsIs
  <2> QED
    BY <2>3, <2>4
<1>4. ASSUME NEW w \in Workers, NEW i \in Sessions, Begin(w, i) PROVE Runs(id)
  BY <1>1, <1>2, <1>4, BeginIs DEF runtimeVars
<1>5. ASSUME NEW w \in Workers, Call(w) PROVE Runs(id)
  <2>1. RP!Invoke(w, tasks[w].step, tasks[w].id) /\ UNCHANGED serviceVars
    BY <1>5, RuntimeActions DEF Call
  <2> QED
    BY <1>2, <2>1 DEF RP!Invoke, serviceVars
<1>6. ASSUME NEW w \in Workers, RuntimeStep(w) PROVE Runs(id)
  <2>1. RecordOf(id)' = RecordOf(id)
    BY <1>6 DEF RuntimeStep, serviceVars, RecordOf
  <2>2. CASE SP!Exists(id)
    <3>1. RecordOf(id) # "absent"
      BY <1>1, <2>2, RecordOfIs
    <3> QED
      BY <2>1, <3>1, ServesIs, RunsIs
  <2>3. CASE ~SP!Exists(id)
    <3>1. SP!Owners(id) = {}
      BY <2>3, AbsentIsLeft
    <3>2. Serves(id)' = Serves(id)
      BY <1>1, <1>6, <3>1, RuntimeStaysOut, ServesStays
    <3> QED
      BY <2>1, <3>2, RunsIs
  <2> QED
    BY <2>2, <2>3
<1>7. ASSUME NEW w \in Workers, Return(w) PROVE Runs(id)
  <2>1. Serves(id)' = Serves(id)
    BY <1>1, <1>7, ReturnIs, ServesStays
  <2>2. CASE repository'[id] = repository[id]
    BY <2>1, <2>2, RunsIs DEF RecordOf
  <2>3. CASE repository'[id] # repository[id]
    <3>1. SP!Exists(id) /\ repository'[id].state = "error"
      BY <1>1, <1>7, <2>3, FailureStays, ReturnRecords
    <3>2. RecordOf(id) \in {"running", "stopped"} /\ RecordOf(id)' = "stopped"
      BY <1>1, <3>1, RecordOfIs DEF RecordOf
    <3> QED
      BY <2>1, <3>2, RunsIs
  <2> QED
    BY <2>2, <2>3
<1>8. ASSUME NEW w \in Workers, Commit(w) PROVE Runs(id)
  BY <1>8, CommitRuns
<1>9. CASE UNCHANGED vars
  BY <1>2, <1>9 DEF vars, serviceVars, runtimeVars
<1> QED
  BY <1>3, <1>4, <1>5, <1>6, <1>7, <1>8, <1>9 DEF Next

\* Service and manager together give each session the lifecycle that
\* BlockSettings.tla takes for granted, although neither of them keeps it alone:
\* the service does not know what serves, nor the manager what is recorded.
THEOREM EverySessionRuns == Spec => ImplementsSessionRun
<1>1. Init => \A id \in Sessions : Run(id)!Init
  <2> SUFFICES ASSUME Init, NEW id \in Sessions PROVE Run(id)!Init
    OBVIOUS
  <2>1. repository[id].state = "absent" /\ resources[id] = None
    BY ServiceActions, RuntimeActions DEF Init, SP!Init, SP!Absent, RP!Init
  <2> QED
    BY <2>1 DEF Run!Init, RecordOf, Serves
<1>2. IInv /\ [Next]_vars =>
          [\A id \in Sessions : [Run(id)!Next]_<<RecordOf(id), Serves(id)>>]_vars
  BY StepRuns DEF Runs
<1> QED
  BY <1>1, <1>2, ControlPlaneInvariant, PTL DEF Spec, ImplementsSessionRun

=============================================================================
