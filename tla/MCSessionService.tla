--------------------------- MODULE MCSessionService ---------------------------
(***************************************************************************)
(* Model values for SessionService.tla. Sessions and workers are           *)
(* interchangeable, but the run has liveness properties: no symmetry.      *)
(***************************************************************************)
EXTENDS SessionService

=============================================================================
