------------------------------- MODULE Breaker -------------------------------
(***************************************************************************)
(* What the health bookkeeping of one upstream node promises: a circuit    *)
(* breaker.  A node in service leaves it after UnhealthyThreshold failures *)
(* in a row; a node out of service returns after HealthyThreshold          *)
(* successes in a row.  NodeHealth implements it when reports do not       *)
(* overlap.                                                                *)
(***************************************************************************)
EXTENDS Integers

CONSTANTS UnhealthyThreshold, HealthyThreshold

VARIABLES inService,  \* is the node offered to requests
          streak      \* failures in a row (in service) or successes in a row (out)

vars == <<inService, streak>>

Init == inService = TRUE /\ streak = 0

Success ==
  \/ /\ inService
     /\ streak' = 0
     /\ UNCHANGED inService
  \/ /\ ~inService
     /\ IF streak + 1 >= HealthyThreshold
        THEN inService' = TRUE /\ streak' = 0
        ELSE streak' = streak + 1 /\ UNCHANGED inService

Failure ==
  \/ /\ inService
     /\ IF streak + 1 >= UnhealthyThreshold
        THEN inService' = FALSE /\ streak' = 0
        ELSE streak' = streak + 1 /\ UNCHANGED inService
  \/ /\ ~inService
     /\ streak' = 0
     /\ UNCHANGED inService

Next == Success \/ Failure

Spec == Init /\ [][Next]_vars
=============================================================================
