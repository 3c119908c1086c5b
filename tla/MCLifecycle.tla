------------------------------ MODULE MCLifecycle ------------------------------
(***************************************************************************)
(* Lifecycle with two connections: one handler may be finished and one may *)
(* hang while the server shuts down.                                       *)
(***************************************************************************)
EXTENDS Lifecycle
===============================================================================
