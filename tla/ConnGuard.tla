----------------------------- MODULE ConnGuard -----------------------------
(***************************************************************************)
(* The connection limit per token (internal/wsproxy): ConnGuard and its    *)
(* use by Handler.ServeHTTP, which takes a slot before it selects, dials   *)
(* and proxies an upstream, and gives it back however it returns.          *)
(***************************************************************************)
EXTENDS Integers, FiniteSets

CONSTANTS Handlers,          \* goroutines that serve upgrade requests
          Tokens, TokenOf,   \* API tokens, and the one each goroutine serves
          MaxConns           \* max_connections_per_token; no limit if 0

ASSUME GuardAssumption ==
  /\ IsFiniteSet(Handlers)
  /\ TokenOf \in [Handlers -> Tokens]
  /\ MaxConns \in Nat

VARIABLES count,  \* g.count; a token without an entry counts 0
          pc      \* where each goroutine is in ServeHTTP

vars == <<count, pc>>

Init ==
  /\ count = [t \in Tokens |-> 0]
  /\ pc = [h \in Handlers |-> "idle"]

Goto(h, from, to) == pc[h] = from /\ pc' = [pc EXCEPT ![h] = to]

FullOffByOne(t) == MaxConns > 0 /\ count[t] > MaxConns

Full(t) == MaxConns > 0 /\ count[t] >= MaxConns

Acquire(h) ==
  /\ ~Full(TokenOf[h])
  /\ Goto(h, "idle", "setup")
  /\ count' = [count EXCEPT ![TokenOf[h]] = @ + 1]

Reject(h) ==              \* 429, before the deferred Release is registered
  /\ Full(TokenOf[h])
  /\ pc[h] = "idle"
  /\ UNCHANGED vars

SetupFailsWithSlot(h) ==
  /\ Goto(h, "setup", "idle")
  /\ UNCHANGED count

SetupFails(h) ==          \* unknown chain, no upstream, upgrade or dial error
  /\ Goto(h, "setup", "return")
  /\ UNCHANGED count

Establish(h) ==           \* both connections exist, the pumps start
  /\ Goto(h, "setup", "session")
  /\ UNCHANGED count

SessionOver(h) ==         \* <-errCh
  /\ Goto(h, "session", "return")
  /\ UNCHANGED count

Release(h) ==             \* deferred
  /\ Goto(h, "return", "idle")
  /\ count' = [count EXCEPT ![TokenOf[h]] = IF @ > 0 THEN @ - 1 ELSE @]

Next ==
  \E h \in Handlers :
    Acquire(h) \/ Reject(h) \/ SetupFails(h) \/ Establish(h) \/ SessionOver(h) \/ Release(h)

Spec == Init /\ [][Next]_vars

----------------------------------------------------------------------------
(* Properties *)

TypeOK ==
  /\ count \in [Tokens -> Nat]
  /\ pc \in [Handlers -> {"idle", "setup", "session", "return"}]

Holders(t) == {h \in Handlers : TokenOf[h] = t /\ pc[h] # "idle"}

(***************************************************************************)
(* Every slot that is counted belongs to a goroutine between Acquire and   *)
(* Release, and every such goroutine has one: no way out of ServeHTTP      *)
(* leaks a slot or gives back another connection's.                        *)
(***************************************************************************)
SlotsAccounted == \A t \in Tokens : count[t] = Cardinality(Holders(t))

(***************************************************************************)
(* A token never has more than MaxConns proxied connections at a time      *)
(* (ConnGuard.Acquire), whatever the order of upgrades and disconnects.    *)
(***************************************************************************)
ConnectionsBounded ==
  MaxConns > 0 =>
    \A t \in Tokens : Cardinality({h \in Handlers : TokenOf[h] = t /\ pc[h] = "session"}) <= MaxConns
=============================================================================
