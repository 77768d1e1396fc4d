----------------------------- MODULE MCNodePool -----------------------------
(* Node lists for model checking NodePool. *)
EXTENDS NodePool

N(w, ws) == [weight |-> w, ws |-> ws]

\* One node; two with different weights and one without a ws_url; three with
\* a weight of 0, which the code turns into 1.
PoolConfigs ==
  {<<N(1, FALSE)>>,
   <<N(1, FALSE), N(2, TRUE)>>,
   <<N(2, TRUE), N(0, TRUE), N(1, FALSE)>>}
=============================================================================
