---------------------------- MODULE MCHttpRoutes ----------------------------
(***************************************************************************)
(* Model values for HttpRoutes.tla: every session has a websocket stream,  *)
(* so that one's browser may end up at the other's, and a stream to fetch. *)
(***************************************************************************)
EXTENDS HttpRoutes, TLC

CONSTANTS http, ws, s1, s2

MCAuthored == s1 :> {http, ws} @@ s2 :> {ws}

Symmetry ==
    Permutations(Ports) \cup Permutations(Resources)

=============================================================================
