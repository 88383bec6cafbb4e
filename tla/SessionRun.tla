----------------------------- MODULE SessionRun -----------------------------
(***************************************************************************)
(* One session as its settings requests meet it: the record they look at   *)
(* first, and whether its graph is serving, which they find out later. The *)
(* two change one at a time, the record last, and between the changes they *)
(* may disagree in every way but one: the record says "running" of a graph *)
(* that serves or has served since.                                        *)
(*                                                                         *)
(* ControlPlane.tla implements this for each session, and it is what       *)
(* BlockSettings.tla knows of the lifecycle.                               *)
(***************************************************************************)

VARIABLES
    record,     \* the record's state; "stopped" stands for "error" too
    serving     \* whether settings are sent: Gr4RuntimeManager's phase Running

vars == <<record, serving>>

-----------------------------------------------------------------------------

Init == record = "absent" /\ serving = FALSE

Create ==
    /\ record = "absent" /\ serving = FALSE
    /\ record' = "stopped"
    /\ UNCHANGED serving

\* scheduler->start() has returned, for a graph just built or for one whose
\* scheduler did not let itself be stopped.
Launch ==
    /\ record # "absent" /\ serving = FALSE
    /\ serving' = TRUE
    /\ UNCHANGED record

\* stop, destroy or restart is about to call scheduler->stop().
Halt ==
    /\ record # "absent" /\ serving = TRUE
    /\ serving' = FALSE
    /\ UNCHANGED record

\* A commit or a failure; restart's commit leaves a record that said running.
Commit ==
    /\ \/ record = "running" /\ record' = "stopped"
       \/ record = "stopped" /\ record' = "running" /\ serving = TRUE
    /\ UNCHANGED serving

Remove ==
    /\ record # "absent" /\ serving = FALSE
    /\ record' = "absent"
    /\ UNCHANGED serving

Next == Create \/ Launch \/ Halt \/ Commit \/ Remove

Spec == Init /\ [][Next]_vars

=============================================================================
