----------------------------- MODULE MCBilling -----------------------------
(* Events and calls for model checking Billing: c1 and c2 carry one event. *)
EXTENDS Billing

CONSTANTS c1, c2, c3, c4, e1, e2, e3, day

RepeatedDelivery == [c \in Calls |-> IF c \in {c1, c2} THEN e1 ELSE IF c = c3 THEN e2 ELSE e3]
OneAccount == [e \in Events |-> day]
PowersOfTwo == [e \in Events |-> IF e = e1 THEN 1 ELSE IF e = e2 THEN 2 ELSE 4]
=============================================================================
