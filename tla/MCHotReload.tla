----------------------------- MODULE MCHotReload -----------------------------
(* File contents for model checking HotReload. *)
EXTENDS HotReload, TLC

CONSTANTS eth, sepolia, devnet, a, b, none

\* The startup file; one that changes both networks; one that drops a network
\* and adds an unknown one; one with an empty node list.
FileSet ==
  {eth :> a @@ sepolia :> a,
   eth :> b @@ sepolia :> b,
   eth :> b @@ devnet :> a,
   eth :> b @@ sepolia :> none}
=============================================================================
