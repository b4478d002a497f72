------------------------------ MODULE MCTask ------------------------------
(* Task on three loops: the running one and two survivors of earlier       *)
(* Starts, with an Execute that may fail.                                  *)
EXTENDS Task
============================================================================
