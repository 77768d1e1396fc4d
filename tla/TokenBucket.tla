----------------------------- MODULE TokenBucket -----------------------------
(***************************************************************************)
(* What one rate-limit key promises: a token bucket of Burst tokens that   *)
(* gains Rps of them per second, from which every request that passes      *)
(* takes one.  Amounts are in units of 1/TicksPerSec of a token, so a tick *)
(* of the clock adds Rps units.                                            *)
(*                                                                         *)
(* The bucket concedes three things to requests that tell the time, up to  *)
(* MaxAhead ticks early and MaxBehind late, and to a key that is forgotten *)
(* TTL ticks after its last request: it holds the refill of Jitter ticks   *)
(* more; a request that tells an earlier time than the one before it is    *)
(* offered the refill of the difference once more; and when the key is     *)
(* forgotten, a bucket that TTL ticks do not fill gains what they miss.    *)
(* With Jitter = 0 and Burst * TicksPerSec <= Rps * TTL nothing of this    *)
(* happens, and it is the plain token bucket.                              *)
(***************************************************************************)
EXTENDS Integers

CONSTANTS Rps, Burst, TicksPerSec,
          MaxAhead, MaxBehind,  \* of the time a request tells, from the true time
          TTL                   \* life of the key after a request

VARIABLES clock,    \* the true time
          level,    \* what the bucket holds
          told,     \* the time the last request told
          expires   \* when the key is forgotten

vars == <<clock, level, told, expires>>

Jitter == MaxAhead + MaxBehind

Capacity == Burst * TicksPerSec + Rps * Jitter

Capped(x) == IF x > Capacity THEN Capacity ELSE x

Gift == IF Capacity > Rps * TTL THEN Capacity - Rps * TTL ELSE 0

Init ==
  /\ clock = 0
  /\ level = Capacity
  /\ told = 0
  /\ expires = 0

Tick ==
  /\ clock' = clock + 1
  /\ level' = Capped(level + Rps + (IF clock' = expires THEN Gift ELSE 0))
  /\ UNCHANGED <<told, expires>>

\* What a request that tells the time n finds.
Offered(n) == Capped(level + Rps * (IF n < told THEN told - n ELSE 0))

Request(n) ==
  /\ told' = n
  /\ expires' = clock + TTL
  /\ UNCHANGED clock

Pass(n) ==
  /\ Offered(n) >= TicksPerSec
  /\ level' = Offered(n) - TicksPerSec
  /\ Request(n)

\* The bucket says nothing of when a request is refused.
Refuse(n) ==
  /\ level' = Offered(n)
  /\ Request(n)

Next ==
  \/ Tick
  \/ \E n \in clock - MaxBehind .. clock + MaxAhead : Pass(n) \/ Refuse(n)

Spec == Init /\ [][Next]_vars
=============================================================================
