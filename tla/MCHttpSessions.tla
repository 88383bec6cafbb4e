--------------------------- MODULE MCHttpSessions ---------------------------
(***************************************************************************)
(* Model values for HttpSessions.tla: every session has one HTTP stream.   *)
(***************************************************************************)
EXTENDS HttpSessions, TLC

CONSTANT http

MCAuthored == [id \in Sessions |-> {http}]

Symmetry ==
    Permutations(Ports) \cup Permutations(Resources) \cup Permutations(Sessions)

=============================================================================
