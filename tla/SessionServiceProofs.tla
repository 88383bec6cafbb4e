------------------------- MODULE SessionServiceProofs -------------------------
(***************************************************************************)
(* Theorems about SessionService.tla for every set of sessions, every      *)
(* number of workers and every bound on fetch attempts.                    *)
(***************************************************************************)
EXTENDS SessionService, TLAPS

\* The safety invariants are inductive together: exclusion needs the claim to
\* hold as long as its owner (OwnerStillHolds), the claim needs exclusion, and
\* that a claimed phase is given up (TransitionHasOwner) is what lets the next
\* operation in.
IInv ==
    /\ TypeOK
    /\ OneLifecycleOpPerSession
    /\ OwnerStillHolds
    /\ TransitionHasOwner
    /\ SettledViewsAgree

-----------------------------------------------------------------------------

(* The data: sets, records and scripts. *)

LEMMA OpsScripts ==
    /\ \A op \in Ops : Script(op) \subseteq Steps
    /\ \A op \in StreamOps \cup SettingsOps : Script(op) = {op}
    /\ Script("start") = {"prepare", "start", "commit"}
    /\ Script("stop") = {"stop", "commit"}
    /\ Script("restart") = {"stop", "destroy", "prepare", "start", "commit"}
    /\ Script("remove") = {"stop", "destroy", "commit"}
<1>1. Script("start") = {"prepare", "start", "commit"}
  BY DEF Script
<1>2. Script("stop") = {"stop", "commit"}
  BY DEF Script
<1>3. Script("restart") = {"stop", "destroy", "prepare", "start", "commit"}
  BY DEF Script
<1>4. Script("remove") = {"stop", "destroy", "commit"}
  BY DEF Script
<1>5. \A op \in StreamOps \cup SettingsOps : Script(op) = {op}
  BY DEF Script, StreamOps, SettingsOps
<1>6. \A op \in LifecycleOps : Script(op) \subseteq Steps
  BY <1>1, <1>2, <1>3, <1>4 DEF LifecycleOps, Steps, Methods
<1>7. \A op \in StreamOps \cup SettingsOps : Script(op) \subseteq Steps
  BY <1>5 DEF Steps, Methods
<1> QED
  BY <1>1, <1>2, <1>3, <1>4, <1>5, <1>6, <1>7 DEF Ops

LEMMA FreeType == Free \in Tasks /\ WellFormed(Free)
  BY FetchAssumption DEF Free, Tasks, WellFormed

\* An accepted request is a well-formed task.
LEMMA AcceptType ==
    ASSUME TypeOK, NEW w \in Workers, NEW id \in Sessions, NEW op \in Ops,
           NEW step \in Script(op), Accept(w, op, id, step)
    PROVE  /\ tasks' \in [Workers -> Tasks]
           /\ \A v \in Workers : WellFormed(tasks'[v])
<1> DEFINE t == [op |-> op, id |-> id, step |-> step, seen |-> repository[id].state,
                 attempt |-> 0]
<1>1. repository[id].state \in States \cup {"absent"}
  BY DEF TypeOK, Records
<1>2. step \in Steps
  BY OpsScripts
<1>3. 0 \in 0 .. FetchAttempts - 1
  BY FetchAssumption
<1>4. t \in Tasks
  BY <1>1, <1>2, <1>3 DEF Tasks
<1>5. WellFormed(t)
  BY DEF WellFormed
<1>6. tasks' = [tasks EXCEPT ![w] = t]
  BY DEF Accept
<1> HIDE DEF t
<1> QED
  BY <1>4, <1>5, <1>6 DEF TypeOK

LEMMA ReleaseType ==
    ASSUME TypeOK, NEW w \in Workers, Release(w)
    PROVE  /\ tasks' \in [Workers -> Tasks]
           /\ \A v \in Workers : WellFormed(tasks'[v])
  BY FreeType DEF Release, TypeOK

\* A task that goes on, to another step or another attempt, stays well formed.
LEMMA StepType ==
    ASSUME TypeOK, NEW w \in Workers, NEW step, tasks[w] # Free,
           step \in Script(tasks[w].op),
           tasks' = [tasks EXCEPT ![w].step = step]
    PROVE  /\ tasks' \in [Workers -> Tasks]
           /\ \A v \in Workers : WellFormed(tasks'[v])
<1> DEFINE t == [tasks[w] EXCEPT !.step = step]
<1>1. tasks[w] \in Tasks /\ tasks[w].op \in Ops /\ tasks[w].id \in Sessions
  BY DEF TypeOK, WellFormed
<1>2. step \in Steps
  BY <1>1, OpsScripts
<1>3. t \in Tasks /\ t.op = tasks[w].op /\ t.id = tasks[w].id /\ t.step = step
  BY <1>1, <1>2 DEF Tasks
<1>4. tasks' = [tasks EXCEPT ![w] = t]
  OBVIOUS
<1>5. WellFormed(t)
  BY <1>1, <1>3 DEF WellFormed
<1> HIDE DEF t
<1> QED
  BY <1>3, <1>4, <1>5 DEF TypeOK

LEMMA AttemptType ==
    ASSUME TypeOK, NEW w \in Workers, tasks[w] # Free,
           tasks[w].attempt + 1 # FetchAttempts,
           tasks' = [tasks EXCEPT ![w].attempt = @ + 1]
    PROVE  /\ tasks' \in [Workers -> Tasks]
           /\ \A v \in Workers : WellFormed(tasks'[v])
<1> DEFINE t == [tasks[w] EXCEPT !.attempt = @ + 1]
<1>1. tasks[w] \in Tasks /\ WellFormed(tasks[w])
  BY DEF TypeOK
<1>2. tasks[w].attempt + 1 \in 0 .. FetchAttempts - 1
  BY <1>1, FetchAssumption DEF Tasks
<1>3. t \in Tasks /\ t.op = tasks[w].op /\ t.id = tasks[w].id /\ t.step = tasks[w].step
  BY <1>1, <1>2 DEF Tasks
<1>4. tasks' = [tasks EXCEPT ![w] = t]
  OBVIOUS
<1>5. WellFormed(t)
  BY <1>1, <1>3 DEF WellFormed
<1> HIDE DEF t
<1> QED
  BY <1>3, <1>4, <1>5 DEF TypeOK

\* What is stored has the type of a record and of a phase.
LEMMA StoreType ==
    ASSUME TypeOK, NEW id \in Sessions, NEW r \in Records,
           NEW phase \in Phases \cup {"none"},
           \/ UNCHANGED <<repository, phases>>
           \/ /\ repository' = [repository EXCEPT ![id] = r]
              /\ phases' = [phases EXCEPT ![id] = phase]
    PROVE  /\ repository' \in [Sessions -> Records]
           /\ phases' \in [Sessions -> Phases \cup {"none"}]
  BY DEF TypeOK

LEMMA ClaimType ==
    ASSUME TypeOK, NEW id \in Sessions, NEW phase \in Phases, Claim(id, phase)
    PROVE  /\ repository' \in [Sessions -> Records]
           /\ phases' \in [Sessions -> Phases \cup {"none"}]
  BY DEF TypeOK, Claim

LEMMA FirstStepIs == \A id \in Sessions : FirstStep(id) \in {"stop", "destroy"}
  BY DEF FirstStep

\* In the middle of a lifecycle operation a task has a session and a step of
\* its script.
LEMMA TaskShape ==
    ASSUME TypeOK, NEW w \in Workers, tasks[w] # Free
    PROVE  /\ tasks[w].op \in Ops
           /\ tasks[w].id \in Sessions
           /\ tasks[w].step \in Script(tasks[w].op)
  BY DEF TypeOK, WellFormed

\* A task with a step to make is not free.
LEMMA NotFree ==
    ASSUME NEW w \in Workers, tasks[w].step # "none"
    PROVE  tasks[w] # Free
  BY DEF Free

\* The step that follows a runtime call of a lifecycle operation is in its
\* script too.
LEMMA AfterInScript ==
    ASSUME NEW op \in LifecycleOps, NEW step \in Script(op), step \in Methods
    PROVE  After(op, step) \in Script(op)
<1>1. step # "commit"
  BY DEF Methods, StreamOps, SettingsOps
<1>2. CASE op = "start"
  BY <1>1, <1>2, OpsScripts DEF After
<1>3. CASE op = "stop"
  BY <1>1, <1>3, OpsScripts DEF After
<1>4. CASE op = "restart"
  BY <1>1, <1>4, OpsScripts DEF After
<1>5. CASE op = "remove"
  BY <1>1, <1>5, OpsScripts DEF After
<1> QED
  BY <1>2, <1>3, <1>4, <1>5 DEF LifecycleOps

-----------------------------------------------------------------------------
(* Types. *)

LEMMA InitType == Init => TypeOK
<1> SUFFICES ASSUME Init PROVE TypeOK
  OBVIOUS
<1>1. Absent \in Records
  BY DEF Absent, Records
<1> QED
  BY <1>1, FreeType DEF Init, TypeOK

LEMMA TypeNext == TypeOK /\ [Next]_vars => TypeOK'
<1> SUFFICES ASSUME TypeOK, [Next]_vars PROVE TypeOK'
  OBVIOUS
<1>1. ASSUME NEW id \in Sessions, Create(id) PROVE TypeOK'
  <2>1. [state |-> "stopped", last_error |-> "none"] \in Records
    BY DEF Records, States
  <2>2. "Idle" \in Phases \cup {"none"}
    BY DEF Phases
  <2> QED
    BY <1>1, <2>1, <2>2, StoreType DEF Create, TypeOK
<1>2. ASSUME NEW w \in Workers, NEW id \in Sessions, StartBegin(w, id) PROVE TypeOK'
  <2>1. "start" \in Ops /\ "prepare" \in Script("start") /\ "Starting" \in Phases
    BY OpsScripts DEF Ops, LifecycleOps, Phases
  <2> QED
    BY <1>2, <2>1, AcceptType, ClaimType DEF StartBegin, TypeOK
<1>3. ASSUME NEW w \in Workers, NEW id \in Sessions, StopBegin(w, id) PROVE TypeOK'
  <2>1. "stop" \in Ops /\ "stop" \in Script("stop") /\ "Stopping" \in Phases
    BY OpsScripts DEF Ops, LifecycleOps, Phases
  <2> QED
    BY <1>3, <2>1, AcceptType, ClaimType DEF StopBegin, TypeOK
<1>4. ASSUME NEW w \in Workers, NEW id \in Sessions, RestartBegin(w, id) PROVE TypeOK'
  <2>1. "restart" \in Ops /\ FirstStep(id) \in Script("restart") /\ "Starting" \in Phases
    BY OpsScripts, FirstStepIs DEF Ops, LifecycleOps, Phases
  <2> QED
    BY <1>4, <2>1, AcceptType, ClaimType DEF RestartBegin, TypeOK
<1>5. ASSUME NEW w \in Workers, NEW id \in Sessions, RemoveBegin(w, id) PROVE TypeOK'
  <2>1. "remove" \in Ops /\ FirstStep(id) \in Script("remove") /\ "Stopping" \in Phases
    BY OpsScripts, FirstStepIs DEF Ops, LifecycleOps, Phases
  <2> QED
    BY <1>5, <2>1, AcceptType, ClaimType DEF RemoveBegin, TypeOK
<1>6. ASSUME NEW w \in Workers, NEW id \in Sessions, NEW op \in StreamOps \cup SettingsOps,
             StreamBegin(w, op, id) \/ SettingsBegin(w, op, id)
      PROVE  TypeOK'
  <2>1. op \in Ops /\ op \in Script(op)
    BY OpsScripts DEF Ops
  <2> QED
    BY <1>6, <2>1, AcceptType DEF StreamBegin, SettingsBegin, TypeOK
<1>7. ASSUME NEW w \in Workers, RuntimeOk(w) PROVE TypeOK'
  <2>1. tasks[w] # Free
    BY <1>7, NotFree DEF RuntimeOk, Methods, StreamOps, SettingsOps
  <2>2. UNCHANGED <<repository, phases>>
    BY <1>7 DEF RuntimeOk
  <2>3. CASE tasks[w].op \in LifecycleOps
    <3>1. After(tasks[w].op, tasks[w].step) \in Script(tasks[w].op)
      BY <1>7, <2>1, <2>3, TaskShape, AfterInScript DEF RuntimeOk
    <3> QED
      BY <1>7, <2>1, <2>2, <2>3, <3>1, StepType DEF RuntimeOk, TypeOK
  <2>4. CASE tasks[w].op \notin LifecycleOps
    BY <1>7, <2>2, <2>4, ReleaseType DEF RuntimeOk, TypeOK
  <2> QED
    BY <2>3, <2>4
<1>8. ASSUME NEW w \in Workers, RuntimeThrows(w) PROVE TypeOK'
  <2>1. tasks[w] # Free
    BY <1>8, NotFree DEF RuntimeThrows, Methods, StreamOps, SettingsOps
  <2>2. CASE tasks[w].op \in LifecycleOps
    <3>1. [state |-> "error", last_error |-> tasks[w].op] \in Records
      BY <2>2 DEF Records, States
    <3>2. "Failed" \in Phases \cup {"none"}
      BY DEF Phases
    <3>3. RecordFailure(tasks[w].id, tasks[w].op)
      BY <1>8, <2>2 DEF RuntimeThrows
    <3> QED
      BY <1>8, <2>1, <3>1, <3>2, <3>3, TaskShape, StoreType, ReleaseType
         DEF RuntimeThrows, RecordFailure, TypeOK
  <2>3. CASE tasks[w].op \notin LifecycleOps
    BY <1>8, <2>3, ReleaseType DEF RuntimeThrows, TypeOK
  <2> QED
    BY <2>2, <2>3
<1>9. ASSUME NEW w \in Workers, RuntimeTransient(w) PROVE TypeOK'
  <2>1. tasks[w] # Free
    BY <1>9, NotFree DEF RuntimeTransient
  <2> QED
    BY <1>9, <2>1, ReleaseType, AttemptType DEF RuntimeTransient, TypeOK
<1>10. ASSUME NEW w \in Workers, Commit(w) PROVE TypeOK'
  <2>1. tasks[w] # Free /\ tasks[w].id \in Sessions
    BY <1>10, NotFree, TaskShape DEF Commit, CommitStart, CommitStop, CommitRemove
  <2>2. Release(w)
    BY <1>10 DEF Commit, CommitStart, CommitStop, CommitRemove
  <2>3. /\ [state |-> "running", last_error |-> "none"] \in Records
        /\ [state |-> "stopped", last_error |-> "none"] \in Records
        /\ Absent \in Records
        /\ {"Running", "Idle", "none"} \subseteq Phases \cup {"none"}
    BY DEF Records, States, Absent, Phases
  <2>4. \E r \in Records, phase \in Phases \cup {"none"} :
            \/ UNCHANGED <<repository, phases>>
            \/ /\ repository' = [repository EXCEPT ![tasks[w].id] = r]
               /\ phases' = [phases EXCEPT ![tasks[w].id] = phase]
    BY <1>10, <2>3 DEF Commit, CommitStart, CommitStop, CommitRemove, Store, Erase
  <2> QED
    BY <2>1, <2>2, <2>4, StoreType, ReleaseType DEF TypeOK
<1>11. CASE UNCHANGED vars
  BY <1>11 DEF vars, TypeOK
<1> QED
  BY <1>1, <1>2, <1>3, <1>4, <1>5, <1>6, <1>7, <1>8, <1>9, <1>10, <1>11
     DEF Next, Begin, Advance, RuntimeReturns

\* Every variable keeps its type and every task stays in the script of its
\* operation (session_service.cpp: the order of the runtime calls).
THEOREM TypeCorrect == Spec => []TypeOK
  BY InitType, TypeNext, PTL DEF Spec
-----------------------------------------------------------------------------
(* Safety. One lemma per kind of step: an operation that claims its session, *)
(* one that goes on, one that ends, and a session that is created.           *)

LEMMA ClaimedIsTransition ==
    \A op : ClaimedPhase(op) \in {"Starting", "Stopping"}
  BY DEF ClaimedPhase

\* What each critical section stores agrees.
LEMMA StoredAgree ==
    /\ Agree([state |-> "stopped", last_error |-> "none"], "Idle")
    /\ Agree([state |-> "running", last_error |-> "none"], "Running")
    /\ \A op : Agree([state |-> "error", last_error |-> op], "Failed")
    /\ Agree(Absent, "none")
<1>1. Agree([state |-> "stopped", last_error |-> "none"], "Idle")
  BY DEF Agree
<1>2. Agree([state |-> "running", last_error |-> "none"], "Running")
  BY DEF Agree
<1>3. \A op : Agree([state |-> "error", last_error |-> op], "Failed")
  BY DEF Agree
<1>4. Agree(Absent, "none")
  BY DEF Agree, Absent
<1> QED
  BY <1>1, <1>2, <1>3, <1>4

\* A session in no transition, or with no record, belongs to nobody.
LEMMA NoOwner ==
    ASSUME IInv, NEW id \in Sessions, ~Exists(id) \/ ~InTransition(id),
           NEW w \in Workers, tasks[w].op \in LifecycleOps
    PROVE  tasks[w].id # id
<1> SUFFICES ASSUME tasks[w].id = id PROVE FALSE
  OBVIOUS
<1>1. Exists(id) /\ phases[id] = ClaimedPhase(tasks[w].op)
  BY DEF IInv, OwnerStillHolds
<1>2. phases[id] \in {"Starting", "Stopping"}
  BY <1>1, ClaimedIsTransition
<1>3. InTransition(id)
  BY <1>2 DEF InTransition, PhaseFor
<1> QED
  BY <1>1, <1>3

LEMMA FreeOwnsNothing == Free.op \notin LifecycleOps /\ Free.op = "none"
  BY DEF Free, LifecycleOps

LEMMA ClaimKeeps ==
    ASSUME IInv, TypeOK', NEW w \in Workers, NEW id \in Sessions,
           NEW op \in LifecycleOps, NEW step,
           tasks[w] = Free, Exists(id), ~InTransition(id),
           Claim(id, ClaimedPhase(op)), Accept(w, op, id, step)
    PROVE  IInv'
<1> DEFINE t == [op |-> op, id |-> id, step |-> step, seen |-> repository[id].state,
                 attempt |-> 0]
<1>1. /\ t.op = op /\ t.id = id /\ t.seen = repository[id].state
      /\ tasks'[w] = t
      /\ \A v \in Workers : v # w => tasks'[v] = tasks[v]
  BY DEF Accept, IInv, TypeOK
<1> HIDE DEF t
<1>2. \A v \in Workers : tasks[v].op \in LifecycleOps => tasks[v].id # id
  BY NoOwner
<1>3. /\ repository' = repository
      /\ phases'[id] = ClaimedPhase(op)
      /\ \A i \in Sessions : i # id => phases'[i] = phases[i]
  BY DEF Claim, IInv, TypeOK
<1>4. OneLifecycleOpPerSession'
  BY <1>1, <1>2 DEF IInv, OneLifecycleOpPerSession
<1>5. OwnerStillHolds'
  <2> SUFFICES ASSUME NEW v \in Workers, (tasks[v].op \in LifecycleOps)'
               PROVE  (/\ Exists(tasks[v].id)
                       /\ repository[tasks[v].id].state = tasks[v].seen
                       /\ phases[tasks[v].id] = ClaimedPhase(tasks[v].op))'
    BY DEF OwnerStillHolds
  <2>1. CASE v = w
    BY <1>1, <1>3, <2>1 DEF Exists
  <2>2. CASE v # w
    <3>1. tasks'[v] = tasks[v] /\ tasks[v].id # id /\ tasks[v].op \in LifecycleOps
      BY <1>1, <1>2, <2>2
    <3>2. tasks[v].id \in Sessions
      BY <3>1, TaskShape, FreeOwnsNothing DEF IInv
    <3> QED
      BY <1>3, <3>1, <3>2 DEF IInv, OwnerStillHolds, Exists
  <2> QED
    BY <2>1, <2>2
<1>6. \A i \in Sessions :
          /\ i # id => Owners(i)' = Owners(i)
          /\ i = id => w \in Owners(i)'
  BY <1>1, FreeOwnsNothing DEF Owners
<1>7. TransitionHasOwner'
  BY <1>1, <1>3, <1>6 DEF IInv, TransitionHasOwner, Owners
<1>8. SettledViewsAgree'
  BY <1>3, <1>6 DEF IInv, SettledViewsAgree
<1> QED
  BY <1>4, <1>5, <1>7, <1>8 DEF IInv

\* A step that leaves every record and phase alone and changes at most which
\* call a thread is at: nobody starts or stops owning a session.
LEMMA SameOwners ==
    ASSUME IInv, TypeOK', UNCHANGED <<repository, phases>>,
           \A v \in Workers :
               \/ /\ tasks'[v].op = tasks[v].op
                  /\ tasks'[v].id = tasks[v].id
                  /\ tasks'[v].seen = tasks[v].seen
               \/ tasks[v].op \notin LifecycleOps /\ tasks'[v].op \notin LifecycleOps
    PROVE  IInv'
<1>1. \A v \in Workers :
          /\ tasks'[v].op \in LifecycleOps <=> tasks[v].op \in LifecycleOps
          /\ tasks[v].op \in LifecycleOps =>
                 /\ tasks'[v].op = tasks[v].op
                 /\ tasks'[v].id = tasks[v].id
                 /\ tasks'[v].seen = tasks[v].seen
  OBVIOUS
<1>2. \A i \in Sessions : Owners(i)' = Owners(i)
  BY <1>1 DEF Owners
<1>3. OneLifecycleOpPerSession'
  BY <1>1 DEF IInv, OneLifecycleOpPerSession
<1>4. OwnerStillHolds'
  BY <1>1 DEF IInv, OwnerStillHolds, Exists
<1>5. TransitionHasOwner'
  BY <1>1, <1>2 DEF IInv, TransitionHasOwner, Owners
<1>6. SettledViewsAgree'
  BY <1>2 DEF IInv, SettledViewsAgree
<1> QED
  BY <1>3, <1>4, <1>5, <1>6 DEF IInv

\* The end of an operation: the record and the phase it leaves agree.
LEMMA EndKeeps ==
    ASSUME IInv, TypeOK', NEW w \in Workers, tasks[w].op \in LifecycleOps, Release(w),
           NEW id, id = tasks[w].id, NEW record \in Records, NEW phase \in Phases \cup {"none"},
           repository' = [repository EXCEPT ![id] = record],
           phases' = [phases EXCEPT ![id] = phase],
           Agree(record, phase), phase \notin {"Starting", "Stopping"},
           record.last_error # "none" <=> record.state = "error"
    PROVE  IInv'
<1>1. /\ tasks'[w] = Free
      /\ \A v \in Workers : v # w => tasks'[v] = tasks[v]
  BY DEF Release, IInv, TypeOK
<1>2. id \in Sessions
  BY TaskShape, FreeOwnsNothing DEF IInv
<1>3. /\ repository'[id] = record
      /\ phases'[id] = phase
      /\ \A i \in Sessions : i # id => repository'[i] = repository[i] /\ phases'[i] = phases[i]
  BY <1>2 DEF IInv, TypeOK
<1>4. \A v \in Workers : v # w /\ tasks[v].op \in LifecycleOps =>
          tasks[v].id # id /\ tasks[v].id \in Sessions
  BY TaskShape, FreeOwnsNothing DEF IInv, OneLifecycleOpPerSession
<1>5. \A i \in Sessions : i # id => Owners(i)' = Owners(i)
  BY <1>1, FreeOwnsNothing DEF Owners
<1>6. OneLifecycleOpPerSession'
  BY <1>1, FreeOwnsNothing DEF IInv, OneLifecycleOpPerSession
<1>7. OwnerStillHolds'
  BY <1>1, <1>3, <1>4, FreeOwnsNothing DEF IInv, OwnerStillHolds, Exists
<1>8. TransitionHasOwner'
  BY <1>1, <1>3, <1>5, FreeOwnsNothing DEF IInv, TransitionHasOwner, Owners
<1>9. SettledViewsAgree'
  BY <1>3, <1>5 DEF IInv, SettledViewsAgree
<1> QED
  BY <1>6, <1>7, <1>8, <1>9 DEF IInv

LEMMA CreateKeeps ==
    ASSUME IInv, TypeOK', NEW id \in Sessions, Create(id)
    PROVE  IInv'
<1>1. /\ repository'[id] = [state |-> "stopped", last_error |-> "none"]
      /\ phases'[id] = "Idle"
      /\ \A i \in Sessions : i # id => repository'[i] = repository[i] /\ phases'[i] = phases[i]
      /\ tasks' = tasks
  BY DEF Create, IInv, TypeOK
<1>2. \A v \in Workers : tasks[v].op \in LifecycleOps =>
          tasks[v].id # id /\ tasks[v].id \in Sessions
  BY NoOwner, TaskShape, FreeOwnsNothing DEF IInv, Create
<1>3. \A i \in Sessions : Owners(i)' = Owners(i)
  BY <1>1 DEF Owners
<1>4. OneLifecycleOpPerSession'
  BY <1>1 DEF IInv, OneLifecycleOpPerSession
<1>5. OwnerStillHolds'
  BY <1>1, <1>2 DEF IInv, OwnerStillHolds, Exists
<1>6. TransitionHasOwner'
  BY <1>1, <1>3 DEF IInv, TransitionHasOwner, Owners
<1>7. SettledViewsAgree'
  BY <1>1, <1>3, StoredAgree DEF IInv, SettledViewsAgree
<1> QED
  BY <1>4, <1>5, <1>6, <1>7 DEF IInv

LEMMA InitIInv == Init => IInv
<1> SUFFICES ASSUME Init PROVE IInv
  OBVIOUS
<1>1. TypeOK
  BY InitType
<1>2. \A w \in Workers : tasks[w].op \notin LifecycleOps
  BY FreeOwnsNothing DEF Init
<1>3. \A id \in Sessions : repository[id] = Absent /\ phases[id] = "none"
  BY DEF Init
<1>4. OneLifecycleOpPerSession /\ OwnerStillHolds
  BY <1>2 DEF OneLifecycleOpPerSession, OwnerStillHolds
<1>5. TransitionHasOwner
  BY <1>3 DEF TransitionHasOwner
<1>6. SettledViewsAgree
  <2>1. Absent.last_error = "none" /\ Absent.state # "error"
    BY DEF Absent
  <2> QED
    BY <1>3, <2>1, StoredAgree DEF SettledViewsAgree
<1> QED
  BY <1>1, <1>4, <1>5, <1>6 DEF IInv

LEMMA BeginKeeps ==
    ASSUME IInv, TypeOK', NEW w \in Workers, NEW id \in Sessions, Begin(w, id)
    PROVE  IInv'
<1>1. /\ ClaimedPhase("start") = "Starting"
      /\ ClaimedPhase("restart") = "Starting"
      /\ ClaimedPhase("stop") = "Stopping"
      /\ ClaimedPhase("remove") = "Stopping"
      /\ {"start", "stop", "restart", "remove"} = LifecycleOps
  BY DEF ClaimedPhase, LifecycleOps
<1>2. CASE StartBegin(w, id)
  BY <1>1, <1>2, ClaimKeeps DEF StartBegin
<1>3. CASE StopBegin(w, id)
  BY <1>1, <1>3, ClaimKeeps DEF StopBegin
<1>4. CASE RestartBegin(w, id)
  BY <1>1, <1>4, ClaimKeeps DEF RestartBegin
<1>5. CASE RemoveBegin(w, id)
  BY <1>1, <1>5, ClaimKeeps DEF RemoveBegin
<1>6. ASSUME NEW op \in StreamOps \cup SettingsOps,
             StreamBegin(w, op, id) \/ SettingsBegin(w, op, id)
      PROVE  IInv'
  <2>1. op \notin LifecycleOps
    BY DEF StreamOps, SettingsOps, LifecycleOps
  <2>2. tasks[w] = Free /\ tasks'[w].op = op /\ UNCHANGED <<repository, phases>>
    BY <1>6 DEF StreamBegin, SettingsBegin, Accept, IInv, TypeOK
  <2>3. \A v \in Workers : v # w => tasks'[v] = tasks[v]
    BY <1>6 DEF StreamBegin, SettingsBegin, Accept, IInv, TypeOK
  <2> QED
    BY <2>1, <2>2, <2>3, FreeOwnsNothing, SameOwners
<1> QED
  BY <1>2, <1>3, <1>4, <1>5, <1>6 DEF Begin

LEMMA AdvanceKeeps ==
    ASSUME IInv, TypeOK', NEW w \in Workers, Advance(w)
    PROVE  IInv'
<1>1. /\ [state |-> "running", last_error |-> "none"] \in Records
      /\ [state |-> "stopped", last_error |-> "none"] \in Records
      /\ \A op \in LifecycleOps :
             [state |-> "error", last_error |-> op] \in Records /\ op # "none"
      /\ Absent \in Records
      /\ {"Running", "Idle", "Failed", "none"} \subseteq Phases \cup {"none"}
  BY DEF Records, States, Absent, Phases, LifecycleOps
<1>2. tasks[w].op \in LifecycleOps =>
          tasks[w].id \in Sessions /\ Exists(tasks[w].id)
  BY TaskShape, FreeOwnsNothing DEF IInv, OwnerStillHolds
<1>3. CASE RuntimeOk(w)
  <2>1. CASE tasks[w].op \in LifecycleOps
    <3>1. tasks[w] \in Tasks /\ tasks' = [tasks EXCEPT ![w].step = After(tasks[w].op, tasks[w].step)]
      BY <1>3, <2>1 DEF RuntimeOk, IInv, TypeOK
    <3>2. \A v \in Workers : tasks'[v].op = tasks[v].op /\ tasks'[v].id = tasks[v].id
                              /\ tasks'[v].seen = tasks[v].seen
      BY <3>1 DEF IInv, TypeOK, Tasks
    <3> QED
      BY <1>3, <3>2, SameOwners DEF RuntimeOk
  <2>2. CASE tasks[w].op \notin LifecycleOps
    BY <1>3, <2>2, SameOwners, FreeOwnsNothing DEF RuntimeOk, Release, IInv, TypeOK
  <2> QED
    BY <2>1, <2>2
<1>4. CASE RuntimeThrows(w)
  <2>1. CASE tasks[w].op \in LifecycleOps
    BY <1>1, <1>2, <1>4, <2>1, StoredAgree, EndKeeps DEF RuntimeThrows, RecordFailure
  <2>2. CASE tasks[w].op \notin LifecycleOps
    BY <1>4, <2>2, SameOwners, FreeOwnsNothing DEF RuntimeThrows, Release, IInv, TypeOK
  <2> QED
    BY <2>1, <2>2
<1>5. CASE RuntimeTransient(w)
  <2>1. tasks[w].op = "fetch"
    <3>1. tasks[w].op \in Ops /\ "fetch" \in Script(tasks[w].op)
      BY <1>5, NotFree, TaskShape DEF RuntimeTransient, IInv
    <3>2. \A op \in LifecycleOps : "fetch" \notin Script(op)
      BY OpsScripts DEF LifecycleOps
    <3> QED
      BY <3>1, <3>2, OpsScripts DEF Ops
  <2>2. \A v \in Workers : v # w => tasks'[v] = tasks[v]
    BY <1>5 DEF RuntimeTransient, Release, IInv, TypeOK
  <2>3. tasks[w] \in Tasks /\ "fetch" \notin LifecycleOps
    BY DEF IInv, TypeOK, LifecycleOps
  <2>4. tasks'[w] = Free \/ tasks'[w].op = "fetch"
    BY <1>5, <2>1, <2>3 DEF RuntimeTransient, Release, IInv, TypeOK, Tasks
  <2> QED
    BY <1>5, <2>1, <2>2, <2>3, <2>4, SameOwners, FreeOwnsNothing DEF RuntimeTransient
<1>6. CASE Commit(w)
  <2>1. tasks[w].op \in LifecycleOps /\ Release(w)
    BY <1>6 DEF Commit, CommitStart, CommitStop, CommitRemove, LifecycleOps
  <2>2. CASE CommitStart(w)
    <3> DEFINE r == [state |-> "running", last_error |-> "none"]
    <3>1. r \in Records /\ r.last_error = "none" /\ r.state # "error" /\ Agree(r, "Running")
      BY <1>1, StoredAgree
    <3>2. /\ repository' = [repository EXCEPT ![tasks[w].id] = r]
          /\ phases' = [phases EXCEPT ![tasks[w].id] = "Running"]
      BY <1>2, <2>1, <2>2 DEF CommitStart, Store
    <3> HIDE DEF r
    <3> QED
      BY <1>1, <2>1, <3>1, <3>2, EndKeeps
  <2>3. CASE CommitStop(w)
    <3> DEFINE r == [state |-> "stopped", last_error |-> "none"]
    <3>1. r \in Records /\ r.last_error = "none" /\ r.state # "error" /\ Agree(r, "Idle")
      BY <1>1, StoredAgree
    <3>2. /\ repository' = [repository EXCEPT ![tasks[w].id] = r]
          /\ phases' = [phases EXCEPT ![tasks[w].id] = "Idle"]
      BY <1>2, <2>1, <2>3 DEF CommitStop, Store
    <3> HIDE DEF r
    <3> QED
      BY <1>1, <2>1, <3>1, <3>2, EndKeeps
  <2>4. CASE CommitRemove(w)
    <3>1. Absent.last_error = "none" /\ Absent.state # "error"
      BY DEF Absent
    <3> QED
      BY <1>1, <1>2, <2>1, <2>4, <3>1, StoredAgree, EndKeeps DEF CommitRemove, Erase
  <2> QED
    BY <1>6, <2>2, <2>3, <2>4 DEF Commit
<1> QED
  BY <1>3, <1>4, <1>5, <1>6 DEF Advance, RuntimeReturns

LEMMA NextIInv == IInv /\ [Next]_vars => IInv'
<1> SUFFICES ASSUME IInv, [Next]_vars PROVE IInv'
  OBVIOUS
<1>1. TypeOK'
  BY TypeNext DEF IInv
<1>2. CASE UNCHANGED vars
  BY <1>1, <1>2, SameOwners DEF vars
<1> QED
  BY <1>1, <1>2, CreateKeeps, BeginKeeps, AdvanceKeeps DEF Next

LEMMA Inductive == Spec => []IInv
  BY InitIInv, NextIInv, PTL DEF Spec

\* No two lifecycle operations on a session overlap, although their runtime
\* calls run without the mutex.
THEOREM Exclusion == Spec => []OneLifecycleOpPerSession
<1>1. IInv => OneLifecycleOpPerSession
  BY DEF IInv
<1> QED
  BY <1>1, Inductive, PTL

\* No session is left Starting or Stopping without a thread that will end it.
THEOREM NoAbandonedTransition == Spec => []TransitionHasOwner
<1>1. IInv => TransitionHasOwner
  BY DEF IInv
<1> QED
  BY <1>1, Inductive, PTL

\* The record an operation read before it gave the mutex up is still true when
\* it takes the mutex again.
THEOREM CopyStaysCurrent == Spec => []OwnerStillHolds
<1>1. IInv => OwnerStillHolds
  BY DEF IInv
<1> QED
  BY <1>1, Inductive, PTL

\* The repository and phases_ never disagree about a session at rest.
THEOREM ViewsAgree == Spec => []SettledViewsAgree
<1>1. IInv => SettledViewsAgree
  BY DEF IInv
<1> QED
  BY <1>1, Inductive, PTL

\* The threads that may change a record: the one that creates it, and the owner
\* at the end of its operation.
LEMMA RecordStep ==
    ASSUME TypeOK, [Next]_vars, NEW id \in Sessions, repository'[id] # repository[id]
    PROVE  ~Exists(id) \/ \E w \in Owners(id) : tasks'[w] = Free
<1>1. CASE UNCHANGED vars
  BY <1>1 DEF vars
<1>2. ASSUME NEW i \in Sessions, Create(i) PROVE ~Exists(id)
  BY <1>2 DEF Create, TypeOK
<1>3. ASSUME NEW w \in Workers, NEW i \in Sessions, Begin(w, i) PROVE FALSE
  BY <1>3 DEF Begin, StartBegin, StopBegin, RestartBegin, RemoveBegin, StreamBegin,
              SettingsBegin, Claim
<1>4. ASSUME NEW w \in Workers, Release(w), tasks[w].op \in LifecycleOps,
             \A i \in Sessions : i # tasks[w].id => repository'[i] = repository[i]
      PROVE  \E v \in Owners(id) : tasks'[v] = Free
  <2>1. tasks'[w] = Free /\ tasks[w].id = id
    BY <1>4 DEF Release, TypeOK
  <2>2. w \in Owners(id)
    BY <1>4, <2>1 DEF Owners
  <2> QED
    BY <2>1, <2>2
<1>5. ASSUME NEW w \in Workers, NEW outcome, RuntimeReturns(w, outcome)
      PROVE  \E v \in Owners(id) : tasks'[v] = Free
  <2>1. RuntimeThrows(w)
    BY <1>5 DEF RuntimeReturns, RuntimeOk, RuntimeTransient
  <2>2. Release(w) /\ tasks[w].op \in LifecycleOps
    BY <2>1 DEF RuntimeThrows
  <2>3. \A i \in Sessions : i # tasks[w].id => repository'[i] = repository[i]
    BY <2>1, <2>2 DEF RuntimeThrows, RecordFailure, TypeOK
  <2> QED
    BY <1>4, <2>2, <2>3
<1>6. ASSUME NEW w \in Workers, Commit(w)
      PROVE  \E v \in Owners(id) : tasks'[v] = Free
  <2>1. Release(w) /\ tasks[w].op \in LifecycleOps
    BY <1>6 DEF Commit, CommitStart, CommitStop, CommitRemove, LifecycleOps
  <2>2. \A i \in Sessions : i # tasks[w].id => repository'[i] = repository[i]
    BY <1>6 DEF Commit, CommitStart, CommitStop, CommitRemove, Store, Erase, TypeOK
  <2> QED
    BY <1>4, <2>1, <2>2
<1> QED
  BY <1>1, <1>2, <1>3, <1>5, <1>6 DEF Next, Advance

\* A record is written by its creator or by the thread that owns the session,
\* in the step that ends its operation, and by nobody else.
THEOREM OnlyOwnersChangeRecords == Spec => RecordChangesByOwner
<1>1. IInv /\ [Next]_vars =>
          \A id \in Sessions :
              repository'[id] # repository[id] =>
                  \/ ~Exists(id)
                  \/ \E w \in Owners(id) : tasks'[w] = Free
  BY RecordStep DEF IInv
<1> QED
  BY <1>1, Inductive, PTL DEF Spec, RecordChangesByOwner

-----------------------------------------------------------------------------
(* Refinement: every step of the service is a step of SessionLifecycle, or  *)
(* one it does not see.                                                     *)

\* The abstract view as facts about owners, free of CHOOSE.
View ==
    /\ \A id \in Sessions :
           /\ Owners(id) = {} => DoingBar[id] = "none"
           /\ \A w \in Owners(id) : DoingBar[id] = tasks[w].op
           /\ StatusBar[id] = repository[id].state
    /\ DOMAIN DoingBar = Sessions
    /\ DOMAIN StatusBar = Sessions
    /\ DoingBar = [id \in Sessions |-> DoingBar[id]]
    /\ StatusBar = [id \in Sessions |-> StatusBar[id]]

LEMMA ViewHolds == IInv => View
<1> SUFFICES ASSUME IInv PROVE View
  OBVIOUS
<1>1. ASSUME NEW id \in Sessions, NEW w \in Owners(id)
      PROVE  DoingBar[id] = tasks[w].op
  <2>1. \A v \in Owners(id) : v = w
    BY DEF Owners, IInv, OneLifecycleOpPerSession
  <2>2. (CHOOSE v \in Owners(id) : TRUE) = w
    BY <2>1
  <2> QED
    BY <2>2 DEF DoingBar
<1>2. ASSUME NEW id \in Sessions, Owners(id) = {} PROVE DoingBar[id] = "none"
  BY <1>2 DEF DoingBar
<1>3. \A id \in Sessions : StatusBar[id] = repository[id].state
  BY DEF StatusBar
<1>4. /\ DOMAIN DoingBar = Sessions
      /\ DOMAIN StatusBar = Sessions
      /\ DoingBar = [id \in Sessions |-> DoingBar[id]]
      /\ StatusBar = [id \in Sessions |-> StatusBar[id]]
  BY DEF DoingBar, StatusBar
<1> QED
  BY <1>1, <1>2, <1>3, <1>4 DEF View

LEMMA ViewHoldsNext == IInv' => View'
  BY ViewHolds, PTL

\* What a step has to do to the view of one session and to its owners.
LEMMA ViewUnchanged ==
    ASSUME View, View', NEW id \in Sessions,
           repository'[id].state = repository[id].state,
           Owners(id)' = Owners(id),
           \A w \in Owners(id) : tasks'[w].op = tasks[w].op
    PROVE  StatusBar'[id] = StatusBar[id] /\ DoingBar'[id] = DoingBar[id]
<1>1. StatusBar'[id] = StatusBar[id]
  BY DEF View
<1>2. CASE Owners(id) = {}
  BY <1>1, <1>2 DEF View
<1>3. ASSUME NEW w \in Owners(id) PROVE DoingBar'[id] = DoingBar[id]
  BY <1>3 DEF View
<1> QED
  BY <1>1, <1>2, <1>3

LEMMA ClaimIsBegin ==
    ASSUME IInv, IInv', NEW w \in Workers, NEW id \in Sessions,
           NEW op \in LifecycleOps, NEW step,
           tasks[w] = Free, Exists(id), ~InTransition(id),
           Claim(id, ClaimedPhase(op)), Accept(w, op, id, step),
           op = "start" => repository[id].state # "running",
           op = "stop" => repository[id].state # "stopped"
    PROVE  Lifecycle!Begin(id, op)
<1> USE ViewHolds, ViewHoldsNext
<1>1. /\ tasks'[w].op = op /\ tasks'[w].id = id
      /\ \A v \in Workers : v # w => tasks'[v] = tasks[v]
      /\ repository' = repository
  BY DEF Accept, Claim, IInv, TypeOK
<1>2. Owners(id) = {} /\ w \in Owners(id)'
  BY <1>1, NoOwner DEF Owners
<1>3. \A i \in Sessions : i # id =>
          Owners(i)' = Owners(i) /\ \A v \in Owners(i) : tasks'[v].op = tasks[v].op
  BY <1>1, FreeOwnsNothing DEF Owners
<1>4. \A i \in Sessions : i # id => DoingBar'[i] = DoingBar[i]
  BY <1>1, <1>3, ViewUnchanged
<1>5. \A i \in Sessions : StatusBar'[i] = StatusBar[i]
  BY <1>1 DEF View
<1>6. DoingBar[id] = "none" /\ DoingBar'[id] = op
  BY <1>1, <1>2 DEF View
<1>7. DoingBar' = [DoingBar EXCEPT ![id] = op]
  BY <1>4, <1>6 DEF View
<1>8. StatusBar' = StatusBar
  BY <1>5 DEF View
<1>9. StatusBar[id] = repository[id].state /\ repository[id].state \in States
  BY DEF View, Exists, IInv, TypeOK, Records
<1> QED
  BY <1>6, <1>7, <1>8, <1>9 DEF Lifecycle!Begin, Lifecycle!States, States

LEMMA SameOwnersStutters ==
    ASSUME IInv, IInv', UNCHANGED repository,
           \A v \in Workers :
               \/ tasks'[v].op = tasks[v].op /\ tasks'[v].id = tasks[v].id
               \/ tasks[v].op \notin LifecycleOps /\ tasks'[v].op \notin LifecycleOps
    PROVE  UNCHANGED <<StatusBar, DoingBar>>
<1> USE ViewHolds, ViewHoldsNext
<1>1. \A i \in Sessions :
          Owners(i)' = Owners(i) /\ \A v \in Owners(i) : tasks'[v].op = tasks[v].op
  BY DEF Owners
<1>2. \A i \in Sessions : StatusBar'[i] = StatusBar[i] /\ DoingBar'[i] = DoingBar[i]
  BY <1>1, ViewUnchanged
<1> QED
  BY <1>2 DEF View

\* The end of an operation, seen from outside.
LEMMA EndIsFinish ==
    ASSUME IInv, IInv', NEW w \in Workers, tasks[w].op \in LifecycleOps, Release(w),
           NEW id \in Sessions, id = tasks[w].id,
           NEW record \in Records, repository' = [repository EXCEPT ![id] = record]
    PROVE  /\ DoingBar[id] = tasks[w].op
           /\ DoingBar' = [DoingBar EXCEPT ![id] = "none"]
           /\ StatusBar' = [StatusBar EXCEPT ![id] = record.state]
<1> USE ViewHolds, ViewHoldsNext
<1>1. /\ tasks'[w] = Free
      /\ \A v \in Workers : v # w => tasks'[v] = tasks[v]
  BY DEF Release, IInv, TypeOK
<1>2. id \in Sessions
  OBVIOUS
<1>3. /\ repository'[id] = record
      /\ \A i \in Sessions : i # id => repository'[i] = repository[i]
  BY <1>2 DEF IInv, TypeOK
<1>4. Owners(id) = {w} /\ Owners(id)' = {}
  BY <1>1, <1>2, FreeOwnsNothing DEF Owners, IInv, OneLifecycleOpPerSession
<1>5. \A i \in Sessions : i # id =>
          Owners(i)' = Owners(i) /\ \A v \in Owners(i) : tasks'[v].op = tasks[v].op
  BY <1>1, FreeOwnsNothing DEF Owners
<1>6. \A i \in Sessions : i # id =>
          DoingBar'[i] = DoingBar[i] /\ StatusBar'[i] = StatusBar[i]
  BY <1>3, <1>5, ViewUnchanged
<1>7. /\ DoingBar[id] = tasks[w].op /\ DoingBar'[id] = "none"
      /\ StatusBar'[id] = record.state
  BY <1>2, <1>3, <1>4 DEF View
<1>8. DoingBar' = [DoingBar EXCEPT ![id] = "none"]
  BY <1>6, <1>7 DEF View
<1>9. StatusBar' = [StatusBar EXCEPT ![id] = record.state]
  BY <1>6, <1>7 DEF View
<1> QED
  BY <1>7, <1>8, <1>9

LEMMA InitRefines == Init => Lifecycle!Init
<1> SUFFICES ASSUME Init PROVE Lifecycle!Init
  OBVIOUS
<1>1. \A id \in Sessions : Owners(id) = {}
  BY FreeOwnsNothing DEF Init, Owners
<1>2. DoingBar = [id \in Sessions |-> "none"]
  BY <1>1 DEF DoingBar
<1>3. StatusBar = [id \in Sessions |-> "absent"]
  BY DEF Init, StatusBar, Absent
<1> QED
  BY <1>2, <1>3 DEF Lifecycle!Init

LEMMA OutcomeIs ==
    /\ Lifecycle!Outcome("start") = "running"
    /\ Lifecycle!Outcome("restart") = "running"
    /\ Lifecycle!Outcome("stop") = "stopped"
    /\ Lifecycle!Outcome("remove") = "absent"
  BY DEF Lifecycle!Outcome

LEMMA CreateRefines ==
    ASSUME IInv, IInv', NEW id \in Sessions, Create(id)
    PROVE  Lifecycle!Create(id)
<1> USE ViewHolds, ViewHoldsNext
<1>1. /\ repository'[id].state = "stopped" /\ repository[id].state = "absent"
      /\ \A i \in Sessions : i # id => repository'[i] = repository[i]
      /\ tasks' = tasks
  BY DEF Create, Exists, IInv, TypeOK
<1>2. Owners(id) = {}
  BY NoOwner DEF Owners, Create
<1>3. \A i \in Sessions : Owners(i)' = Owners(i)
  BY <1>1 DEF Owners
<1>4. \A i \in Sessions : i # id =>
          DoingBar'[i] = DoingBar[i] /\ StatusBar'[i] = StatusBar[i]
  BY <1>1, <1>3, ViewUnchanged
<1>5. DoingBar[id] = "none" /\ DoingBar'[id] = "none"
  BY <1>2, <1>3 DEF View
<1>6. DoingBar' = DoingBar
  BY <1>4, <1>5 DEF View
<1>7. StatusBar[id] = "absent" /\ StatusBar' = [StatusBar EXCEPT ![id] = "stopped"]
  BY <1>1, <1>4 DEF View
<1> QED
  BY <1>5, <1>6, <1>7 DEF Lifecycle!Create

LEMMA BeginRefines ==
    ASSUME IInv, IInv', NEW w \in Workers, NEW id \in Sessions, Begin(w, id)
    PROVE  \/ \E op \in LifecycleOps : Lifecycle!Begin(id, op)
           \/ UNCHANGED <<StatusBar, DoingBar>>
<1>1. /\ ClaimedPhase("start") = "Starting"
      /\ ClaimedPhase("restart") = "Starting"
      /\ ClaimedPhase("stop") = "Stopping"
      /\ ClaimedPhase("remove") = "Stopping"
      /\ {"start", "stop", "restart", "remove"} = LifecycleOps
  BY DEF ClaimedPhase, LifecycleOps
<1>2. CASE StartBegin(w, id)
  BY <1>1, <1>2, ClaimIsBegin DEF StartBegin
<1>3. CASE StopBegin(w, id)
  <2>1. repository[id].state # "stopped"
    <3> SUFFICES ASSUME repository[id].state = "stopped" PROVE PhaseFor(id) = "Idle"
      BY <1>3 DEF StopBegin
    <3>1. Owners(id) = {}
      BY <1>3, NoOwner DEF StopBegin, Owners
    <3>2. phases[id] = "Idle"
      BY <3>1 DEF IInv, SettledViewsAgree, Agree
    <3> QED
      BY <3>2 DEF PhaseFor
  <2> QED
    BY <1>1, <1>3, <2>1, ClaimIsBegin DEF StopBegin
<1>4. CASE RestartBegin(w, id)
  BY <1>1, <1>4, ClaimIsBegin DEF RestartBegin
<1>5. CASE RemoveBegin(w, id)
  BY <1>1, <1>5, ClaimIsBegin DEF RemoveBegin
<1>6. ASSUME NEW op \in StreamOps \cup SettingsOps,
             StreamBegin(w, op, id) \/ SettingsBegin(w, op, id)
      PROVE  UNCHANGED <<StatusBar, DoingBar>>
  <2>1. op \notin LifecycleOps
    BY DEF StreamOps, SettingsOps, LifecycleOps
  <2>2. tasks[w] = Free /\ tasks'[w].op = op /\ UNCHANGED <<repository, phases>>
    BY <1>6 DEF StreamBegin, SettingsBegin, Accept, IInv, TypeOK
  <2>3. \A v \in Workers : v # w => tasks'[v] = tasks[v]
    BY <1>6 DEF StreamBegin, SettingsBegin, Accept, IInv, TypeOK
  <2> QED
    BY <2>1, <2>2, <2>3, FreeOwnsNothing, SameOwnersStutters
<1> QED
  BY <1>2, <1>3, <1>4, <1>5, <1>6 DEF Begin

LEMMA AdvanceRefines ==
    ASSUME IInv, IInv', NEW w \in Workers, Advance(w)
    PROVE  \/ \E id \in Sessions : Lifecycle!Finish(id)
           \/ UNCHANGED <<StatusBar, DoingBar>>
<1>1. tasks[w].op \in LifecycleOps =>
          /\ tasks[w].id \in Sessions
          /\ Exists(tasks[w].id)
          /\ tasks[w].op # "none"
  BY TaskShape, FreeOwnsNothing DEF IInv, OwnerStillHolds, LifecycleOps
<1>2. CASE RuntimeOk(w)
  <2>1. CASE tasks[w].op \in LifecycleOps
    <3>1. tasks' = [tasks EXCEPT ![w].step = After(tasks[w].op, tasks[w].step)]
      BY <1>2, <2>1 DEF RuntimeOk
    <3>2. \A v \in Workers : tasks'[v].op = tasks[v].op /\ tasks'[v].id = tasks[v].id
      BY <3>1 DEF IInv, TypeOK, Tasks
    <3> QED
      BY <1>2, <3>2, SameOwnersStutters DEF RuntimeOk
  <2>2. CASE tasks[w].op \notin LifecycleOps
    BY <1>2, <2>2, SameOwnersStutters, FreeOwnsNothing DEF RuntimeOk, Release, IInv, TypeOK
  <2> QED
    BY <2>1, <2>2
<1>3. CASE RuntimeThrows(w)
  <2>1. CASE tasks[w].op \in LifecycleOps
    <3> DEFINE r == [state |-> "error", last_error |-> tasks[w].op]
    <3>1. Release(w) /\ repository' = [repository EXCEPT ![tasks[w].id] = r]
      BY <1>1, <1>3, <2>1 DEF RuntimeThrows, RecordFailure
    <3>2. r.state = "error" /\ r \in Records
      BY <2>1 DEF Records, States
    <3> HIDE DEF r
    <3> DEFINE id == tasks[w].id
    <3>3. /\ DoingBar[id] = tasks[w].op
          /\ DoingBar' = [DoingBar EXCEPT ![id] = "none"]
          /\ StatusBar' = [StatusBar EXCEPT ![id] = r.state]
      BY <1>1, <2>1, <3>1, <3>2, EndIsFinish
    <3>4. Lifecycle!Fail(id)
      BY <1>1, <2>1, <3>2, <3>3 DEF Lifecycle!Fail
    <3> QED
      BY <1>1, <2>1, <3>4 DEF Lifecycle!Finish
  <2>2. CASE tasks[w].op \notin LifecycleOps
    BY <1>3, <2>2, SameOwnersStutters, FreeOwnsNothing DEF RuntimeThrows, Release, IInv, TypeOK
  <2> QED
    BY <2>1, <2>2
<1>4. CASE RuntimeTransient(w)
  <2>1. UNCHANGED <<repository, phases>> /\ \A v \in Workers : v # w => tasks'[v] = tasks[v]
    BY <1>4 DEF RuntimeTransient, Release, IInv, TypeOK
  <2>2. tasks[w].op \notin LifecycleOps
    <3>1. tasks[w].op \in Ops /\ "fetch" \in Script(tasks[w].op)
      BY <1>4, NotFree, TaskShape DEF RuntimeTransient, IInv
    <3>2. \A op \in LifecycleOps : "fetch" \notin Script(op)
      BY OpsScripts DEF LifecycleOps
    <3> QED
      BY <3>1, <3>2
  <2>3. tasks'[w] = Free \/ tasks'[w].op = tasks[w].op
    BY <1>4 DEF RuntimeTransient, Release, IInv, TypeOK, Tasks
  <2> QED
    BY <2>1, <2>2, <2>3, SameOwnersStutters, FreeOwnsNothing
<1>5. CASE Commit(w)
  <2>1. tasks[w].op \in LifecycleOps /\ Release(w)
    BY <1>5 DEF Commit, CommitStart, CommitStop, CommitRemove, LifecycleOps
  <2>2. \E r \in Records :
               /\ repository' = [repository EXCEPT ![tasks[w].id] = r]
               /\ r.state = Lifecycle!Outcome(tasks[w].op)
    BY <1>1, <1>5, <2>1, OutcomeIs
       DEF Commit, CommitStart, CommitStop, CommitRemove, Store, Erase, Absent,
           Records, States
  <2>3. PICK r \in Records :
               /\ repository' = [repository EXCEPT ![tasks[w].id] = r]
               /\ r.state = Lifecycle!Outcome(tasks[w].op)
    BY <2>2
  <2> DEFINE id == tasks[w].id
  <2>4. /\ DoingBar[id] = tasks[w].op
        /\ DoingBar' = [DoingBar EXCEPT ![id] = "none"]
        /\ StatusBar' = [StatusBar EXCEPT ![id] = r.state]
    BY <1>1, <2>1, <2>3, EndIsFinish
  <2>5. Lifecycle!Succeed(id)
    BY <1>1, <2>1, <2>3, <2>4 DEF Lifecycle!Succeed
  <2> QED
    BY <1>1, <2>1, <2>5 DEF Lifecycle!Finish
<1> QED
  BY <1>2, <1>3, <1>4, <1>5 DEF Advance, RuntimeReturns

\* The service implements the safety part of SessionLifecycle: it starts where
\* the promise starts, and every critical section and runtime call is one step
\* of the promise or invisible to it. (The rest of ImplementsLifecycle is
\* liveness.)
THEOREM StepsRefine == Spec => Lifecycle!Init /\ [][Lifecycle!Next]_(Lifecycle!vars)
<1>1. IInv /\ IInv' /\ [Next]_vars => [Lifecycle!Next]_(Lifecycle!vars)
  <2> SUFFICES ASSUME IInv, IInv', [Next]_vars
               PROVE  Lifecycle!Next \/ UNCHANGED <<StatusBar, DoingBar>>
    BY DEF Lifecycle!vars
  <2>1. CASE UNCHANGED vars
    BY <2>1, SameOwnersStutters DEF vars
  <2>2. ASSUME NEW id \in Sessions, Create(id) PROVE Lifecycle!Next
    BY <2>2, CreateRefines DEF Lifecycle!Next
  <2>3. LifecycleOps = Lifecycle!LifecycleOps
    BY DEF LifecycleOps, Lifecycle!LifecycleOps
  <2>4. ASSUME NEW w \in Workers, NEW id \in Sessions, Begin(w, id)
        PROVE  Lifecycle!Next \/ UNCHANGED <<StatusBar, DoingBar>>
    BY <2>3, <2>4, BeginRefines DEF Lifecycle!Next
  <2>5. ASSUME NEW w \in Workers, Advance(w)
        PROVE  Lifecycle!Next \/ UNCHANGED <<StatusBar, DoingBar>>
    BY <2>5, AdvanceRefines DEF Lifecycle!Next
  <2> QED
    BY <2>1, <2>2, <2>4, <2>5 DEF Next
<1> QED
  BY <1>1, InitRefines, Inductive, PTL DEF Spec

=============================================================================
