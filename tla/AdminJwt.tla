------------------------------ MODULE AdminJwt ------------------------------
(***************************************************************************)
(* Administrators' JWTs (internal/adminjwt).  Every gateway instance runs  *)
(* a Rotator: at its start and whenever its ticker fires it revokes the    *)
(* valid tokens, issues one, saves it and deletes those long expired.  The *)
(* instances share the table admin_jwt_tokens and do not know each other;  *)
(* a call to the table may fail, with or without having taken effect, and  *)
(* an instance may crash and start again.                                  *)
(*                                                                         *)
(* Times are relative: each token carries what is left of its life, each   *)
(* ticker what is left of its period.                                      *)
(***************************************************************************)
EXTENDS Integers

CONSTANTS Instances,
          Jtis,              \* ids of tokens; one may stand for a new token once its
                             \* token is deleted or can never be valid again
          TTL, Every, CleanupRetention,  \* admin.jwt.ttl, rotate_every, cleanup_retention
          OnStart, RevokePrevious,       \* rotate_on_start, revoke_previous
          MaxCrashes         \* bound on crashes

ASSUME JwtAssumption ==
  /\ Jtis \subseteq Nat
  /\ {TTL, Every, CleanupRetention} \subseteq Nat \ {0}
  /\ {OnStart, RevokePrevious} \subseteq BOOLEAN
  /\ MaxCrashes \in Nat

VARIABLES pc,      \* where each instance's Rotate is
          ticker,  \* time to the next tick; 0 before the ticker exists
          due,     \* does t.C hold a tick
          token,   \* of each id: who issued it, its state (issued: known to its
                   \* issuer only), and the time to its expiry, negative afterwards
          life,    \* ghost: time to the expiry of the token issued by the instance's
                   \* last Rotate; 0 if that has failed
          crashes

vars == <<pc, ticker, due, token, life, crashes>>

None == [state |-> "none"]
Tokens == [state : {"issued", "saved", "revoked"}, owner : Instances, left : -CleanupRetention .. TTL]

First == IF RevokePrevious THEN "revoke" ELSE "issue"
Starting == IF OnStart THEN First ELSE "idle"
NewTicker == IF OnStart THEN 0 ELSE Every

Init ==
  /\ pc = [i \in Instances |-> Starting]
  /\ ticker = [i \in Instances |-> NewTicker]
  /\ due = [i \in Instances |-> FALSE]
  /\ token = [j \in Jtis |-> None]
  /\ life = [i \in Instances |-> 0]
  /\ crashes = 0

\* IsActive, which Validate asks after signature, issuer, subject and exp have passed.
IsActive(j) == token[j].state = "saved" /\ token[j].left > 0

Goto(i, from, to) == pc[i] = from /\ pc' = [pc EXCEPT ![i] = to]

----------------------------------------------------------------------------
(* Rotate *)

FailEndsLoop(i, from) ==
  /\ Goto(i, from, "stopped")
  /\ life' = [life EXCEPT ![i] = 0]
  /\ ticker' = [ticker EXCEPT ![i] = IF @ = 0 THEN Every ELSE @]

\* Rotate returns; Start makes the ticker after the first one.
Finish(i, from) ==
  /\ Goto(i, from, "idle")
  /\ ticker' = [ticker EXCEPT ![i] = IF @ = 0 THEN Every ELSE @]

Fail(i, from) == Finish(i, from) /\ life' = [life EXCEPT ![i] = 0]

Start(i) ==                  \* <-t.C
  /\ due[i]
  /\ Goto(i, "idle", First)
  /\ due' = [due EXCEPT ![i] = FALSE]
  /\ UNCHANGED <<ticker, token, life, crashes>>

Revoked == [j \in Jtis |-> IF IsActive(j) THEN [token[j] EXCEPT !.state = "revoked"] ELSE token[j]]

RevokeAllActive(i) ==
  /\ Goto(i, "revoke", "issue")
  /\ token' = Revoked
  /\ UNCHANGED <<ticker, due, life, crashes>>

RevokeFailsIgnored(i) ==
  /\ Goto(i, "revoke", "issue")
  /\ UNCHANGED <<ticker, due, token, life, crashes>>

RevokeFails(i) ==
  /\ Fail(i, "revoke")
  /\ token' \in {token, Revoked}
  /\ UNCHANGED <<due, crashes>>

Reusable(j) == token[j] = None \/ (token[j].state # "issued" /\ ~IsActive(j))

Issue(i) ==
  /\ Goto(i, "issue", "save")
  /\ \E j \in Jtis :
       /\ Reusable(j) /\ \A k \in Jtis : Reusable(k) => j <= k
       /\ token' = [token EXCEPT ![j] = [state |-> "issued", owner |-> i, left |-> TTL]]
  /\ life' = [life EXCEPT ![i] = TTL]
  /\ UNCHANGED <<ticker, due, crashes>>

Issued(i, j) == token[j].state = "issued" /\ token[j].owner = i

Stored(i) == [j \in Jtis |-> IF Issued(i, j) THEN [token[j] EXCEPT !.state = "saved"] ELSE token[j]]
Forgotten(i) == [j \in Jtis |-> IF Issued(i, j) THEN None ELSE token[j]]

Save(i) ==
  /\ Goto(i, "save", "cleanup")
  /\ token' = Stored(i)
  /\ UNCHANGED <<ticker, due, life, crashes>>

SaveFailsUnnoticed(i) ==
  /\ Finish(i, "save")
  /\ token' = Forgotten(i)
  /\ UNCHANGED <<due, life, crashes>>

SaveFails(i) ==
  /\ Fail(i, "save")
  /\ token' \in {Forgotten(i), Stored(i)}
  /\ UNCHANGED <<due, crashes>>

InTable(j) == token[j].state \in {"saved", "revoked"}

ExpiredTooWide(j) == InTable(j) /\ token[j].left <= CleanupRetention

\* expires_at <= now - CleanupRetention
Expired(j) == InTable(j) /\ token[j].left <= -CleanupRetention

CleanupExpired(i) ==         \* its error is only logged
  /\ Finish(i, "cleanup")
  /\ token' \in {token, [j \in Jtis |-> IF Expired(j) THEN None ELSE token[j]]}
  /\ UNCHANGED <<due, life, crashes>>

----------------------------------------------------------------------------
(* External: time, and the death of an instance *)

AtLeast(x, floor) == IF x > floor THEN x ELSE floor

\* A save does not outlast the life of the token it saves.
Tick ==
  /\ \A j \in Jtis : token[j].state = "issued" => token[j].left > 1
  /\ token' = [j \in Jtis |-> IF token[j] = None THEN None
                              ELSE [token[j] EXCEPT !.left = AtLeast(@ - 1, -CleanupRetention)]]
  /\ life' = [i \in Instances |-> AtLeast(life[i] - 1, 0)]
  /\ ticker' = [i \in Instances |-> IF ticker[i] = 1 THEN Every ELSE AtLeast(ticker[i] - 1, 0)]
  /\ due' = [i \in Instances |-> due[i] \/ ticker[i] = 1]
  /\ UNCHANGED <<pc, crashes>>

\* The instance dies, with a token it has not saved, and starts again.
Crash(i) ==
  /\ crashes < MaxCrashes
  /\ crashes' = crashes + 1
  /\ pc' = [pc EXCEPT ![i] = Starting]
  /\ ticker' = [ticker EXCEPT ![i] = NewTicker]
  /\ due' = [due EXCEPT ![i] = FALSE]
  /\ life' = [life EXCEPT ![i] = 0]
  /\ token' = Forgotten(i)

----------------------------------------------------------------------------
Rotate(i) ==
  \/ RevokeAllActive(i) \/ RevokeFails(i) \/ Issue(i) \/ Save(i) \/ SaveFails(i)
  \/ CleanupExpired(i)

Next == Tick \/ \E i \in Instances : Start(i) \/ Rotate(i) \/ Crash(i)

\* Time passes, the loop runs, and the table does not fail for ever.
Fairness ==
  /\ WF_vars(Tick)
  /\ \A i \in Instances :
       WF_vars(Start(i) \/ Rotate(i)) /\ SF_vars(RevokeAllActive(i)) /\ SF_vars(Save(i))

Spec == Init /\ [][Next]_vars /\ Fairness

----------------------------------------------------------------------------
(* Properties *)

TypeOK ==
  /\ pc \in [Instances -> {"idle", "revoke", "issue", "save", "cleanup"}]
  /\ ticker \in [Instances -> 0 .. Every]
  /\ due \in [Instances -> BOOLEAN]
  /\ token \in [Jtis -> Tokens \union {None}]
  /\ life \in [Instances -> 0 .. TTL]
  /\ crashes \in 0 .. MaxCrashes

(***************************************************************************)
(* Rotations of several instances overlap, and each may revoke before and  *)
(* save after another's save.  Even so there are never more valid tokens   *)
(* than instances: no two were issued by the same one (Rotate returns if   *)
(* RevokeAllActive fails).                                                 *)
(***************************************************************************)
OneTokenPerInstance ==
  RevokePrevious =>
    \A j, k \in Jtis : IsActive(j) /\ IsActive(k) /\ token[j].owner = token[k].owner => j = k

(***************************************************************************)
(* Nobody is locked out by rotations that succeeded: when no instance is   *)
(* rotating, the last Rotate of each returned nil, and none of the tokens  *)
(* issued in them has outlived its TTL, then one of the tokens is valid,   *)
(* in whatever order the revocations and saves reached the table.          *)
(***************************************************************************)
SomeTokenValid ==
  (\A i \in Instances : pc[i] = "idle" /\ life[i] > 0)
    => \E j \in Jtis : IsActive(j)

(***************************************************************************)
(* A valid token stays valid until it expires or an instance begins a      *)
(* rotation: neither CleanupExpired nor the Save of another instance, nor  *)
(* a crash, takes it away.                                                 *)
(***************************************************************************)
ValidUntilRevoked ==
  [][\A j \in Jtis : IsActive(j) /\ ~IsActive(j)' =>
       \/ token'[j] = [token[j] EXCEPT !.left = 0]
       \/ \E i \in Instances : pc[i] = "revoke" /\ pc'[i] \in {"issue", "idle"}]_vars

(***************************************************************************)
(* Whatever fails or crashes, there is a valid token again some time: a    *)
(* failed rotation is tried again at the next tick (Rotator.Start).        *)
(***************************************************************************)
AccessReturns == []<>(\E j \in Jtis : IsActive(j))
=============================================================================
