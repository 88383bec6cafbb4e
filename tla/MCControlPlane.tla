--------------------------- MODULE MCControlPlane ---------------------------
(***************************************************************************)
(* Model values for ControlPlane.tla.                                      *)
(***************************************************************************)
EXTENDS ControlPlane

CONSTANTS http, ws

MCAuthored == [id \in Sessions |-> {http}]

=============================================================================
