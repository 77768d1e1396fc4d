----------------------------- MODULE MCLimiter -----------------------------
(* The client address for model checking Limiter. *)
EXTENDS Limiter

CONSTANTS r1, r2, ip1

OneIp == [r \in Requests |-> ip1]
=============================================================================
