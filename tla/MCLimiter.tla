----------------------------- MODULE MCLimiter -----------------------------
(* Limiter where one user is limited to one device.                        *)
EXTENDS Limiter, TLC

CONSTANT Limited
Limits == [u \in Users |-> IF u = Limited THEN 1 ELSE 0]
Symmetry == Permutations(Calls) \cup Permutations(IPs)
============================================================================
