------------------------- MODULE MCGr4RuntimeManager -------------------------
(***************************************************************************)
(* Model values for Gr4RuntimeManager.tla: one session with an HTTP and a  *)
(* websocket stream, one with an HTTP stream only. Workers and ports are   *)
(* interchangeable.                                                        *)
(***************************************************************************)
EXTENDS Gr4RuntimeManager, TLC

CONSTANTS s1, s2, http, ws

MCAuthoredTwo == s1 :> {http, ws} @@ s2 :> {http}

Symmetry ==
    Permutations(Workers) \cup Permutations(Ports) \cup Permutations(Resources)

=============================================================================
