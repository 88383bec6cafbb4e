-------------------------- MODULE SessionLifecycle --------------------------
(***************************************************************************)
(* What the control plane promises about the life of a session, whatever   *)
(* threads and runtime calls it is built from: a session is stopped when   *)
(* it is created; start, stop, restart and remove are carried out one at a *)
(* time per session; each ends, and it either takes full effect or leaves  *)
(* the session in error.                                                   *)
(*                                                                         *)
(* SessionService.tla is the detailed specification that implements this   *)
(* one.                                                                    *)
(***************************************************************************)

CONSTANT Sessions       \* the session identifiers that may be handed out

States == {"stopped", "running", "error"}

LifecycleOps == {"start", "stop", "restart", "remove"}

VARIABLES
    status,             \* status[id]: the visible state, "absent" if no record
    doing               \* doing[id]: the operation under way, or "none"

vars == <<status, doing>>

-----------------------------------------------------------------------------

Init ==
    /\ status = [id \in Sessions |-> "absent"]
    /\ doing = [id \in Sessions |-> "none"]

Create(id) ==
    /\ status[id] = "absent"
    /\ doing[id] = "none"
    /\ status' = [status EXCEPT ![id] = "stopped"]
    /\ UNCHANGED doing

\* A running session is not started, a stopped one is not stopped; everything
\* else may be asked of a session in any state, one operation at a time.
Begin(id, op) ==
    /\ status[id] \in States
    /\ doing[id] = "none"
    /\ op = "start" => status[id] # "running"
    /\ op = "stop" => status[id] # "stopped"
    /\ doing' = [doing EXCEPT ![id] = op]
    /\ UNCHANGED status

Outcome(op) ==
    [start |-> "running", stop |-> "stopped",
     restart |-> "running", remove |-> "absent"][op]

Succeed(id) ==
    /\ doing[id] # "none"
    /\ status' = [status EXCEPT ![id] = Outcome(doing[id])]
    /\ doing' = [doing EXCEPT ![id] = "none"]

Fail(id) ==
    /\ doing[id] # "none"
    /\ status' = [status EXCEPT ![id] = "error"]
    /\ doing' = [doing EXCEPT ![id] = "none"]

Finish(id) == Succeed(id) \/ Fail(id)

Next ==
    \E id \in Sessions :
        \/ Create(id)
        \/ \E op \in LifecycleOps : Begin(id, op)
        \/ Finish(id)

Spec == Init /\ [][Next]_vars /\ \A id \in Sessions : WF_vars(Finish(id))

-----------------------------------------------------------------------------

Ops == LifecycleOps \cup {"none"}

TypeOK ==
    /\ status \in [Sessions -> States \cup {"absent"}]
    /\ doing \in [Sessions -> Ops]

=============================================================================
