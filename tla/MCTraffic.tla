----------------------------- MODULE MCTraffic -----------------------------
(* Traffic of one user, two report loops.                                  *)
EXTENDS Traffic
============================================================================
