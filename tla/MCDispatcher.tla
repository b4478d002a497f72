--------------------------- MODULE MCDispatcher ---------------------------
(* Dispatcher on one user and two connections.                             *)
EXTENDS Dispatcher
===========================================================================
