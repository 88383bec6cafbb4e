---------------------------- MODULE MCHttpServer ----------------------------
(***************************************************************************)
(* Model values for HttpServer.tla.                                        *)
(***************************************************************************)
EXTENDS HttpServer

=============================================================================
