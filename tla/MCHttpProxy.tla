---------------------------- MODULE MCHttpProxy ----------------------------
(* Node weights for model checking HttpProxy. *)
EXTENDS HttpProxy

TwoAndOne == <<2, 1>>
=============================================================================
