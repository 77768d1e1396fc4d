----------------------------- MODULE MCSessions -----------------------------
(* The token of each connection for model checking Sessions. *)
EXTENDS Sessions

CONSTANTS h1, h2, h3, h4, t1, t2

ThreeOfFirst == [h \in Handlers |-> IF h = h4 THEN t2 ELSE t1]
=============================================================================
