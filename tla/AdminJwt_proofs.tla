-------------------------- MODULE AdminJwt_proofs --------------------------
(***************************************************************************)
(* No instance ever has two valid administrators' tokens, and rotations    *)
(* that succeeded leave one valid token at least, for any number of        *)
(* instances and tokens, whatever fails, expires or crashes.               *)
(***************************************************************************)
EXTENDS AdminJwt, TLAPS

\* Tokens that are valid, or will be when they are saved.
Live(j) == token[j].state = "issued" \/ IsActive(j)

\* The steps at which Rotate has revoked and not issued yet, and has issued and not saved yet.
OneLive ==
  /\ \A j, k \in Jtis : Live(j) /\ Live(k) /\ token[j].owner = token[k].owner => j = k
  /\ \A j \in Jtis : Live(j) => pc[token[j].owner] # "issue"
  /\ \A j \in Jtis : token[j].state = "issued" => pc[token[j].owner] = "save"

Typed ==
  /\ pc \in [Instances -> {"idle", "revoke", "issue", "save", "cleanup"}]
  /\ token \in [Jtis -> Tokens \union {None}]

JwtInv == Typed /\ (RevokePrevious => OneLive)

\* At the start there is no token.
LEMMA JwtInit == Init => JwtInv
  BY DEF Init, JwtInv, Typed, OneLive, Live, IsActive, None, Starting, First

\* A step that leaves an instance where it is not about to issue, and makes no token live.
LEMMA NoneNew ==
  ASSUME JwtInv, Typed', RevokePrevious, NEW i \in Instances,
         \A h \in Instances \ {i} : pc'[h] = pc[h],
         pc'[i] # "issue",
         \A j \in Jtis : Live(j)' => Live(j) /\ token'[j].owner = token[j].owner,
         \A j \in Jtis : token'[j].state = "issued" =>
           token[j].state = "issued" /\ (token[j].owner = i => pc'[i] = "save")
  PROVE  OneLive'
<1>1. \A j \in Jtis : Live(j) => token[j].owner \in Instances
  BY DEF JwtInv, Typed, Live, IsActive, Tokens, None
<1>2. \A j, k \in Jtis : Live(j)' /\ Live(k)' /\ token'[j].owner = token'[k].owner => j = k
  BY DEF JwtInv, OneLive
<1>3. \A j \in Jtis : Live(j)' => pc'[token'[j].owner] # "issue"
  BY <1>1 DEF JwtInv, OneLive
<1>4. \A j \in Jtis : token'[j].state = "issued" => Live(j)'
  BY DEF Live
<1>5. \A j \in Jtis : token'[j].state = "issued" => pc'[token'[j].owner] = "save"
  BY <1>1, <1>4 DEF JwtInv, OneLive
<1> QED
  BY <1>2, <1>3, <1>5 DEF OneLive

\* A token that is or may become valid has an issuer and a time to live.
LEMMA LiveTypes == ASSUME Typed PROVE \A j \in Jtis : Live(j) => token[j] \in Tokens
<1>1. \A j \in Jtis : token[j] \in Tokens \/ token[j].state = "none"
  BY DEF Typed, None
<1> QED
  BY <1>1 DEF IsActive, Live

\* What the operators on the table of tokens return (Rotate, Store).
LEMMA TokenTypes ==
  ASSUME Typed, NEW i \in Instances
  PROVE  /\ Revoked \in [Jtis -> Tokens \union {None}]
         /\ Stored(i) \in [Jtis -> Tokens \union {None}]
         /\ Forgotten(i) \in [Jtis -> Tokens \union {None}]
<1>2. \A j \in Jtis : IsActive(j) \/ Issued(i, j) => token[j] \in Tokens
  BY LiveTypes DEF Issued, Live
<1>3. Revoked \in [Jtis -> Tokens \union {None}]
  BY <1>2 DEF Revoked, Typed, Tokens
<1>4. Stored(i) \in [Jtis -> Tokens \union {None}]
  BY <1>2 DEF Stored, Typed, Tokens
<1>5. Forgotten(i) \in [Jtis -> Tokens \union {None}]
  BY DEF Forgotten, Typed
<1> QED
  BY <1>3, <1>4, <1>5

\* RevokeAllActive, also one that fails after it has taken effect.
LEMMA RevokeInv ==
  ASSUME JwtInv, NEW i \in Instances, RevokeAllActive(i) \/ RevokeFails(i)
  PROVE  JwtInv'
<1>1. pc[i] = "revoke" /\ pc' \in {[pc EXCEPT ![i] = "issue"], [pc EXCEPT ![i] = "idle"]}
      /\ token' \in {token, Revoked}
  BY DEF RevokeAllActive, RevokeFails, Fail, Finish, Goto
<1>2. Typed'
  BY <1>1, TokenTypes DEF JwtInv, Typed
<1>3. ASSUME RevokePrevious, token' = Revoked PROVE OneLive'
  <2>1. \A j \in Jtis : Live(j)' => token[j].state = "issued" /\ token'[j] = token[j]
    BY <1>3, LiveTypes DEF JwtInv, Revoked, Live, IsActive, Tokens
  <2>2. \A j \in Jtis : Live(j)' => Live(j) /\ token[j] \in Tokens
    BY <2>1, LiveTypes DEF Live, JwtInv
  <2>3. \A j \in Jtis : Live(j)' => pc'[token[j].owner] = "save"
    BY <1>1, <1>3, <2>1, <2>2 DEF JwtInv, OneLive, Typed, Tokens
  <2>4. \A j \in Jtis : token'[j].state = "issued" => Live(j)'
    BY DEF Live
  <2> QED
    BY <1>3, <2>1, <2>2, <2>3, <2>4 DEF JwtInv, OneLive
<1>4. ASSUME RevokePrevious, token' # Revoked PROVE OneLive'
  <2>1. pc'[i] = "idle" /\ token' = token
    BY <1>1, <1>4 DEF RevokeAllActive, RevokeFails, Fail, Finish, Goto, JwtInv, Typed
  <2>2. \A j \in Jtis : token[j].state = "issued" => token[j].owner # i
    BY <1>1, <1>4 DEF JwtInv, OneLive
  <2> QED
    BY <1>1, <1>2, <1>4, <2>1, <2>2, NoneNew DEF Live, IsActive, JwtInv, Typed
<1> QED
  BY <1>2, <1>3, <1>4 DEF JwtInv

\* Issue gives its instance the only token that is or may become valid.
LEMMA IssueInv == ASSUME JwtInv, NEW i \in Instances, Issue(i) PROVE JwtInv'
<1> PICK n \in Jtis : /\ Reusable(n)
                      /\ token' = [token EXCEPT ![n] = [state |-> "issued", owner |-> i, left |-> TTL]]
  BY DEF Issue
<1>1. pc[i] = "issue" /\ pc' = [pc EXCEPT ![i] = "save"]
  BY DEF Issue, Goto
<1>2. [state |-> "issued", owner |-> i, left |-> TTL] \in Tokens
  BY JwtAssumption DEF Tokens
<1>3. Typed'
  BY <1>1, <1>2 DEF JwtInv, Typed
<1>4. ASSUME RevokePrevious PROVE OneLive'
  <2>1. token'[n].state = "issued" /\ token'[n].owner = i
        /\ \A j \in Jtis \ {n} : token'[j] = token[j]
    BY DEF JwtInv, Typed
  <2>2. \A j \in Jtis \ {n} : Live(j)' => Live(j) /\ token[j].owner # i
    BY <1>1, <1>4, <2>1 DEF Live, IsActive, JwtInv, OneLive
  <2>3. \A j \in Jtis : Live(j) => token[j].owner \in Instances
    BY LiveTypes DEF JwtInv, Tokens
  <2>4. pc'[i] = "save" /\ \A h \in Instances \ {i} : pc'[h] = pc[h]
    BY <1>1 DEF JwtInv, Typed
  <2>5. \A j, k \in Jtis : Live(j)' /\ Live(k)' /\ token'[j].owner = token'[k].owner => j = k
    BY <1>4, <2>1, <2>2 DEF JwtInv, OneLive
  <2>6. \A j \in Jtis : Live(j)' => pc'[token'[j].owner] # "issue"
    BY <1>4, <2>1, <2>2, <2>3, <2>4 DEF JwtInv, OneLive
  <2>7. \A j \in Jtis \ {n} : token'[j].state = "issued" => Live(j)'
    BY DEF Live
  <2>8. \A j \in Jtis : token'[j].state = "issued" => pc'[token'[j].owner] = "save"
    BY <1>4, <2>1, <2>2, <2>3, <2>4, <2>7 DEF JwtInv, OneLive
  <2> QED
    BY <2>5, <2>6, <2>8 DEF OneLive
<1> QED
  BY <1>3, <1>4 DEF JwtInv

\* Save, also one that fails before or after it has taken effect, and a crash.
LEMMA SaveInv ==
  ASSUME JwtInv, NEW i \in Instances, NEW to \in {"idle", "revoke", "issue", "cleanup"},
         pc' = [pc EXCEPT ![i] = to],
         \/ pc[i] = "save" /\ to # "issue" /\ token' = Stored(i)
         \/ token' = Forgotten(i) /\ (RevokePrevious => to # "issue")
  PROVE  JwtInv'
<1>1. Typed'
  BY TokenTypes DEF JwtInv, Typed
<1>2. ASSUME RevokePrevious PROVE OneLive'
  <2>1. \A j \in Jtis : Live(j)' => Live(j) /\ token'[j].owner = token[j].owner
    BY LiveTypes DEF JwtInv, Stored, Forgotten, Issued, Live, IsActive, Tokens, None
  <2>2. \A j \in Jtis : token'[j].state = "issued" => token[j].state = "issued" /\ token[j].owner # i
    BY DEF Stored, Forgotten, Issued, Typed, JwtInv, Tokens, None
  <2> QED
    BY <1>1, <1>2, <2>1, <2>2, NoneNew DEF JwtInv, Typed
<1> QED
  BY <1>1, <1>2 DEF JwtInv

\* CleanupExpired deletes rows, none of a token that is valid.
LEMMA CleanupInv == ASSUME JwtInv, NEW i \in Instances, CleanupExpired(i) PROVE JwtInv'
<1>1. pc[i] = "cleanup" /\ pc' = [pc EXCEPT ![i] = "idle"]
  BY DEF CleanupExpired, Finish, Goto
<1>2. \A j \in Jtis : token'[j] \in {token[j], None}
  BY DEF CleanupExpired, JwtInv, Typed
<1>3. Typed'
  BY <1>1, <1>2 DEF CleanupExpired, JwtInv, Typed
<1>4. ASSUME RevokePrevious PROVE OneLive'
  <2>1. \A j \in Jtis : Live(j)' => Live(j) /\ token'[j].owner = token[j].owner
    BY <1>2 DEF Live, IsActive, None
  <2>2. \A j \in Jtis : token'[j].state = "issued" => token[j].state = "issued" /\ token[j].owner # i
    BY <1>1, <1>2, <1>4 DEF None, JwtInv, OneLive
  <2> QED
    BY <1>1, <1>3, <1>4, <2>1, <2>2, NoneNew DEF JwtInv, Typed
<1> QED
  BY <1>3, <1>4 DEF JwtInv

\* A tick starts the next rotation.
LEMMA StartInv == ASSUME JwtInv, NEW i \in Instances, Start(i) PROVE JwtInv'
<1>1. pc[i] = "idle" /\ pc' = [pc EXCEPT ![i] = First] /\ token' = token
  BY DEF Start, Goto
<1>2. Typed'
  BY <1>1 DEF JwtInv, Typed, First
<1>3. ASSUME RevokePrevious PROVE OneLive'
  BY <1>1, <1>2, <1>3, NoneNew DEF JwtInv, OneLive, Typed, First, Live, IsActive
<1> QED
  BY <1>2, <1>3 DEF JwtInv

\* Time takes validity away and gives none.
LEMMA TickInv == ASSUME JwtInv, Tick PROVE JwtInv'
<1>1. \A j \in Jtis : \/ token[j] = None /\ token'[j] = None
                      \/ /\ token[j] \in Tokens
                         /\ token'[j] = [token[j] EXCEPT !.left = AtLeast(token[j].left - 1, -CleanupRetention)]
  BY DEF Tick, JwtInv, Typed
<1>2. \A j \in Jtis : token[j] \in Tokens =>
        /\ token'[j].left \in -CleanupRetention .. TTL
        /\ token'[j].left > 0 => token[j].left > 0
        /\ token'[j].state = token[j].state /\ token'[j].owner = token[j].owner
        /\ token'[j] \in Tokens
  <2> SUFFICES ASSUME NEW j \in Jtis, token[j] \in Tokens
               PROVE  /\ token'[j].left \in -CleanupRetention .. TTL
                      /\ token'[j].left > 0 => token[j].left > 0
                      /\ token'[j].state = token[j].state /\ token'[j].owner = token[j].owner
                      /\ token'[j] \in Tokens
    OBVIOUS
  <2> DEFINE left == AtLeast(token[j].left - 1, -CleanupRetention)
  <2>1. token[j].left \in -CleanupRetention .. TTL /\ token[j].state # "none"
    BY DEF Tokens
  <2>2. token'[j] = [token[j] EXCEPT !.left = left]
    BY <1>1, <2>1 DEF None
  <2>3. left \in -CleanupRetention .. TTL /\ (left > 0 => token[j].left > 0)
    BY <2>1, JwtAssumption DEF AtLeast
  <2> HIDE DEF left
  <2>4. /\ token'[j] \in Tokens /\ token'[j].left = left
        /\ token'[j].state = token[j].state /\ token'[j].owner = token[j].owner
    BY <2>2, <2>3 DEF Tokens
  <2> QED
    BY <2>3, <2>4
<1>3. Typed'
  <2>1. \A j \in Jtis : token'[j] \in Tokens \union {None}
    BY <1>1, <1>2
  <2> QED
    BY <2>1 DEF Tick, JwtInv, Typed
<1>4. ASSUME RevokePrevious PROVE OneLive'
  <2>1. \A j \in Jtis : Live(j)' => Live(j) /\ token'[j].owner = token[j].owner
    BY <1>1, <1>2 DEF Live, IsActive, None
  <2>2. \A j \in Jtis : token'[j].state = "issued" =>
          token[j].state = "issued" /\ token'[j].owner = token[j].owner
    BY <1>1, <1>2 DEF None
  <2>3. pc' = pc
    BY DEF Tick
  <2> QED
    BY <1>4, <2>1, <2>2, <2>3 DEF JwtInv, OneLive
<1> QED
  BY <1>3, <1>4 DEF JwtInv

\* Every step of the rotators and of time keeps the invariant.
LEMMA JwtStep == JwtInv /\ [Next]_vars => JwtInv'
<1> SUFFICES ASSUME JwtInv, [Next]_vars PROVE JwtInv'
  OBVIOUS
<1>1. CASE Tick
  BY <1>1, TickInv
<1>2. ASSUME NEW i \in Instances, Start(i) PROVE JwtInv'
  BY <1>2, StartInv
<1>3. ASSUME NEW i \in Instances, RevokeAllActive(i) \/ RevokeFails(i) PROVE JwtInv'
  BY <1>3, RevokeInv
<1>4. ASSUME NEW i \in Instances, Issue(i) PROVE JwtInv'
  BY <1>4, IssueInv
<1>5. ASSUME NEW i \in Instances, Save(i) PROVE JwtInv'
  BY <1>5, SaveInv DEF Save, Goto
<1>6. ASSUME NEW i \in Instances, SaveFails(i) PROVE JwtInv'
  BY <1>6, SaveInv DEF SaveFails, Fail, Finish, Goto
<1>7. ASSUME NEW i \in Instances, CleanupExpired(i) PROVE JwtInv'
  BY <1>7, CleanupInv
<1>8. ASSUME NEW i \in Instances, Crash(i) PROVE JwtInv'
  BY <1>8, SaveInv DEF Crash, Starting, First
<1>9. CASE UNCHANGED vars
  BY <1>9 DEF vars, JwtInv, Typed, OneLive, Live, IsActive
<1> QED
  BY <1>1, <1>2, <1>3, <1>4, <1>5, <1>6, <1>7, <1>8, <1>9 DEF Next, Rotate

(***************************************************************************)
(* With revoke_previous no instance ever has two valid tokens: Rotate      *)
(* revokes all before it issues one, and goes no further if that fails.    *)
(***************************************************************************)
THEOREM AtMostOneEach == Spec => []OneTokenPerInstance
<1>1. JwtInv => OneTokenPerInstance
  BY DEF JwtInv, OneLive, OneTokenPerInstance, Live
<1> QED
  BY <1>1, JwtInit, JwtStep, PTL DEF Spec

----------------------------------------------------------------------------
(* What takes a token's validity away *)

\* Token j keeps its row, or the row was not that of a valid token.
Spared(j) == token'[j] = token[j] \/ ~IsActive(j)

Ended(j) ==
  \/ token'[j] = [token[j] EXCEPT !.left = 0]
  \/ \E i \in Instances : pc[i] = "revoke" /\ pc'[i] \in {"issue", "idle"}

\* Time ends a valid token's life at zero.
LEMMA TickEnds ==
  ASSUME Typed, Tick, NEW j \in Jtis, IsActive(j), ~IsActive(j)'
  PROVE  Ended(j)
<1>1. token[j] \in Tokens /\ token[j].left > 0 /\ token[j].state = "saved"
  BY LiveTypes DEF Live, IsActive
<1>2. token[j] # None
  BY <1>1 DEF Tokens, None
<1>3. token'[j] = [token[j] EXCEPT !.left = AtLeast(token[j].left - 1, -CleanupRetention)]
  BY <1>2 DEF Tick
<1>4. token'[j].state = "saved" /\ token'[j].left = AtLeast(token[j].left - 1, -CleanupRetention)
  BY <1>1, <1>3 DEF Tokens
<1>5. AtLeast(token[j].left - 1, -CleanupRetention) = token[j].left - 1 /\ token[j].left \in Int
  BY <1>1, JwtAssumption DEF AtLeast, Tokens
<1>6. ~(token'[j].left > 0)
  BY <1>4 DEF IsActive
<1>7. token[j].left - 1 = 0
  BY <1>1, <1>4, <1>5, <1>6
<1> QED
  BY <1>3, <1>5, <1>7 DEF Ended

\* No other step but a revocation reaches the row of a valid token.
LEMMA OthersSpare ==
  ASSUME Typed, NEW i \in Instances, NEW j \in Jtis,
         Start(i) \/ Issue(i) \/ Save(i) \/ SaveFails(i) \/ CleanupExpired(i) \/ Crash(i)
  PROVE  Spared(j)
<1>1. CASE Start(i)
  BY <1>1 DEF Start, Spared
<1>2. CASE Issue(i)
  <2>1. PICK n \in Jtis :
          /\ Reusable(n)
          /\ token' = [token EXCEPT ![n] = [state |-> "issued", owner |-> i, left |-> TTL]]
    BY <1>2 DEF Issue
  <2>2. IsActive(n) => FALSE
    BY <2>1 DEF Reusable, IsActive, None
  <2> QED
    BY <2>1, <2>2 DEF Spared, Typed
<1>3. CASE token' \in {Stored(i), Forgotten(i)}
  <2>1. IsActive(j) => ~Issued(i, j)
    BY DEF IsActive, Issued
  <2> QED
    BY <1>3, <2>1 DEF Stored, Forgotten, Spared
<1>4. CASE CleanupExpired(i)
  <2>1. IsActive(j) => ~Expired(j)
    <3> SUFFICES ASSUME IsActive(j), Expired(j) PROVE FALSE
      OBVIOUS
    <3>1. token[j] \in Tokens
      BY LiveTypes DEF Live
    <3> QED
      BY <3>1, JwtAssumption DEF IsActive, Expired, Tokens
  <2> QED
    BY <1>4, <2>1 DEF CleanupExpired, Spared
<1> QED
  BY <1>1, <1>2, <1>3, <1>4 DEF Save, SaveFails, Crash

(***************************************************************************)
(* A valid token ends by its expiry or by a rotation that revokes, never   *)
(* by CleanupExpired, by the Save of another instance or by a crash, for   *)
(* any number of instances and tokens, with revoke_previous or without.    *)
(***************************************************************************)
THEOREM OnlyRevocationEnds == Spec => ValidUntilRevoked
<1>1. JwtInv /\ [Next]_vars =>
        \A j \in Jtis : IsActive(j) /\ ~IsActive(j)' =>
          \/ token'[j] = [token[j] EXCEPT !.left = 0]
          \/ \E i \in Instances : pc[i] = "revoke" /\ pc'[i] \in {"issue", "idle"}
  <2> SUFFICES ASSUME JwtInv, [Next]_vars, NEW j \in Jtis, IsActive(j), ~IsActive(j)' PROVE Ended(j)
    BY DEF Ended
  <2>1. CASE Tick
    BY <2>1, TickEnds DEF JwtInv
  <2>2. ASSUME NEW i \in Instances, RevokeAllActive(i) \/ RevokeFails(i) PROVE Ended(j)
    BY <2>2 DEF RevokeAllActive, RevokeFails, Fail, Finish, Goto, Ended, JwtInv, Typed
  <2>3. ~Spared(j)
    BY DEF Spared, IsActive
  <2>4. ~UNCHANGED vars
    BY <2>3 DEF vars, Spared
  <2> QED
    BY <2>1, <2>2, <2>3, <2>4, OthersSpare DEF Next, Rotate, JwtInv
<1> QED
  BY <1>1, JwtInit, JwtStep, PTL DEF Spec, ValidUntilRevoked

----------------------------------------------------------------------------
(***************************************************************************)
(* Somebody has access.  Either a token is valid or some instance is       *)
(* rotating, has failed, or has outlived its token; for the time of that   *)
(* the life of an instance's token must be the one its record knows.       *)
(***************************************************************************)
Rotating(i) == pc[i] \notin {"idle", "cleanup"} \/ life[i] = 0

Access ==
  /\ life \in [Instances -> 0 .. TTL]
  /\ \A j \in Jtis : Live(j) => life[token[j].owner] \in {0, token[j].left}
  /\ \A j \in Jtis : token[j].state = "issued" => token[j].left > 0
  /\ \A i \in Instances : pc[i] = "save" => \E j \in Jtis : Issued(i, j)
  /\ (\E j \in Jtis : IsActive(j)) \/ (\E i \in Instances : Rotating(i))

AccessInv == JwtInv /\ Access

\* At the start every instance has yet to issue a token.
LEMMA AccessInit == ASSUME Instances # {}, Init PROVE Access
  BY JwtAssumption DEF Init, Access, Rotating, Live, IsActive, None, Starting, First

\* A step of i that revokes, saves, deletes or forgets tokens, and issues none.
LEMMA FewerLive ==
  ASSUME AccessInv, NEW i \in Instances, NEW to, pc' = [pc EXCEPT ![i] = to], to # "save",
         life' \in {life, [life EXCEPT ![i] = 0]},
         \A j \in Jtis : Live(j)' => Live(j) /\ token'[j].owner = token[j].owner
                                            /\ token'[j].left = token[j].left,
         \A j \in Jtis : token'[j].state = "issued" => token[j].state = "issued",
         \A j \in Jtis, h \in Instances \ {i} : Issued(h, j) => Issued(h, j)',
         (\E j \in Jtis : IsActive(j)') \/ (\E h \in Instances : Rotating(h)')
  PROVE  Access'
<1>1. \A j \in Jtis : Live(j) => token[j].owner \in Instances
  BY LiveTypes DEF AccessInv, JwtInv, Tokens
<1>2. life' \in [Instances -> 0 .. TTL]
  BY JwtAssumption DEF AccessInv, Access
<1>3. \A h \in Instances : life'[h] \in {0, life[h]}
  BY DEF AccessInv, Access
<1>4. \A j \in Jtis : Live(j)' => life'[token'[j].owner] \in {0, token'[j].left}
  BY <1>1, <1>3 DEF AccessInv, Access
<1>5. \A j \in Jtis : token'[j].state = "issued" => Live(j)'
  BY DEF Live
<1>6. \A j \in Jtis : token'[j].state = "issued" => token'[j].left > 0
  BY <1>5 DEF AccessInv, Access
<1>7. \A h \in Instances : pc'[h] = "save" => h # i /\ pc[h] = "save"
  BY DEF AccessInv, JwtInv, Typed
<1>8. \A h \in Instances : pc'[h] = "save" => \E j \in Jtis : Issued(h, j)'
  BY <1>7 DEF AccessInv, Access
<1> QED
  BY <1>2, <1>4, <1>6, <1>8 DEF Access

\* Revoking all tokens leaves somebody rotating, or failed.
LEMMA RevokeAccess ==
  ASSUME AccessInv, NEW i \in Instances, RevokeAllActive(i) \/ RevokeFails(i)
  PROVE  Access'
<1>1. \/ pc' = [pc EXCEPT ![i] = "issue"] /\ life' = life
      \/ pc' = [pc EXCEPT ![i] = "idle"] /\ life' = [life EXCEPT ![i] = 0]
  BY DEF RevokeAllActive, RevokeFails, Fail, Finish, Goto
<1>2. token' \in {token, Revoked}
  BY DEF RevokeAllActive, RevokeFails
<1>3. \A j \in Jtis : IsActive(j) => token[j] \in Tokens
  BY LiveTypes DEF AccessInv, JwtInv, Live
<1>4. \A j \in Jtis : token'[j] = token[j] \/ (IsActive(j) /\ token'[j].state = "revoked")
  BY <1>2, <1>3 DEF Revoked, Tokens
<1>5. \A j \in Jtis : Live(j)' => token'[j] = token[j] /\ Live(j)
  BY <1>4 DEF Live, IsActive
<1>6. \A j \in Jtis : token[j].state = "issued" \/ token'[j].state = "issued" => token'[j] = token[j]
  BY <1>4 DEF IsActive
<1>7. Rotating(i)'
  BY <1>1 DEF Rotating, AccessInv, Access, JwtInv, Typed
<1> QED
  BY <1>1, <1>5, <1>6, <1>7, FewerLive DEF Issued

\* A new token lives as long as its instance's record says.
LEMMA IssueAccess ==
  ASSUME AccessInv, RevokePrevious, NEW i \in Instances, Issue(i) PROVE Access'
<1> PICK n \in Jtis : /\ Reusable(n)
                      /\ token' = [token EXCEPT ![n] = [state |-> "issued", owner |-> i, left |-> TTL]]
  BY DEF Issue
<1>1. pc[i] = "issue" /\ pc' = [pc EXCEPT ![i] = "save"] /\ life' = [life EXCEPT ![i] = TTL]
  BY DEF Issue, Goto
<1>2. token'[n].state = "issued" /\ token'[n].owner = i /\ token'[n].left = TTL
      /\ \A j \in Jtis \ {n} : token'[j] = token[j]
  BY DEF AccessInv, JwtInv, Typed
<1>3. \A j \in Jtis \ {n} : Live(j)' => Live(j) /\ token[j].owner \in Instances \ {i}
  BY <1>1, <1>2, LiveTypes DEF Live, IsActive, AccessInv, JwtInv, OneLive, Tokens
<1>4. life' \in [Instances -> 0 .. TTL] /\ life'[i] = TTL
      /\ \A h \in Instances \ {i} : life'[h] = life[h] /\ pc'[h] = pc[h]
  BY <1>1, JwtAssumption DEF AccessInv, Access, JwtInv, Typed
<1>5. \A j \in Jtis : Live(j)' => life'[token'[j].owner] \in {0, token'[j].left}
  BY <1>2, <1>3, <1>4 DEF AccessInv, Access
<1>6. \A j \in Jtis : token'[j].state = "issued" => token'[j].left > 0
  BY <1>2, JwtAssumption DEF AccessInv, Access
<1>7. \A h \in Instances : pc'[h] = "save" => \E j \in Jtis : Issued(h, j)'
  <2>1. \A h \in Instances \ {i} : pc'[h] = "save" => \E j \in Jtis \ {n} : Issued(h, j)
    BY <1>4 DEF AccessInv, Access, Issued, Reusable, None
  <2> QED
    BY <1>2, <2>1 DEF Issued
<1>8. Rotating(i)'
  BY <1>1 DEF Rotating, AccessInv, JwtInv, Typed
<1> QED
  BY <1>4, <1>5, <1>6, <1>7, <1>8 DEF Access

\* A token that is saved is valid.
LEMMA SaveAccess == ASSUME AccessInv, NEW i \in Instances, Save(i) PROVE Access'
<1>1. pc[i] = "save" /\ pc' = [pc EXCEPT ![i] = "cleanup"] /\ life' = life /\ token' = Stored(i)
  BY DEF Save, Goto
<1>2. \A j \in Jtis : Issued(i, j) => token[j] \in Tokens
  BY LiveTypes DEF AccessInv, JwtInv, Live, Issued
<1>3. \A j \in Jtis :
        IF Issued(i, j) THEN /\ token'[j].state = "saved" /\ token'[j].owner = token[j].owner
                             /\ token'[j].left = token[j].left
                        ELSE token'[j] = token[j]
  BY <1>1, <1>2 DEF Stored, Tokens
<1>4. PICK j \in Jtis : Issued(i, j)
  BY <1>1 DEF AccessInv, Access
<1>5. IsActive(j)'
  BY <1>3, <1>4 DEF IsActive, Issued, AccessInv, Access
<1>6. \A k \in Jtis : Live(k)' => Live(k) /\ token'[k].owner = token[k].owner
                                         /\ token'[k].left = token[k].left
  BY <1>3 DEF Live, IsActive, Issued
<1>7. \A k \in Jtis : token'[k].state = "issued" => token[k].state = "issued"
  BY <1>3 DEF Issued
<1>8. \A k \in Jtis, h \in Instances \ {i} : Issued(h, k) => Issued(h, k)'
  BY <1>3 DEF Issued
<1> QED
  BY <1>1, <1>5, <1>6, <1>7, <1>8, FewerLive

\* A save that fails, or a crash, is known to the instance it happened to.
LEMMA LoseAccess ==
  ASSUME AccessInv, NEW i \in Instances, NEW to \in {"idle", "revoke", "issue"},
         pc' = [pc EXCEPT ![i] = to], life' = [life EXCEPT ![i] = 0],
         token' \in {Stored(i), Forgotten(i)}
  PROVE  Access'
<1>1. \A j \in Jtis : Issued(i, j) => token[j] \in Tokens
  BY LiveTypes DEF AccessInv, JwtInv, Live, Issued
<1>2. \A j \in Jtis : ~Issued(i, j) => token'[j] = token[j]
  BY DEF Stored, Forgotten
<1>3. \A j \in Jtis : Issued(i, j) =>
        \/ token'[j] = None
        \/ /\ token'[j].state = "saved" /\ token'[j].owner = token[j].owner
           /\ token'[j].left = token[j].left
  BY <1>1 DEF Stored, Forgotten, Tokens
<1>4. \A j \in Jtis : Live(j)' => Live(j) /\ token'[j].owner = token[j].owner
                                         /\ token'[j].left = token[j].left
  BY <1>2, <1>3 DEF Live, IsActive, Issued, None
<1>5. \A j \in Jtis : token'[j].state = "issued" => token[j].state = "issued"
  BY <1>2, <1>3 DEF Issued, None
<1>6. \A j \in Jtis, h \in Instances \ {i} : Issued(h, j) => Issued(h, j)'
  BY <1>2 DEF Issued
<1>7. Rotating(i)'
  BY DEF Rotating, AccessInv, Access
<1> QED
  BY <1>4, <1>5, <1>6, <1>7, FewerLive

\* Steps that leave the valid tokens and everybody's rotation as they are: the
\* cleanup and its end, and a tick that starts a rotation.
LEMMA KeepAccess ==
  ASSUME AccessInv, NEW i \in Instances, CleanupExpired(i) \/ Start(i)
  PROVE  Access'
<1>1. \A j \in Jtis : token'[j] = token[j] \/ (Expired(j) /\ token'[j] = None)
  BY DEF CleanupExpired, Start, AccessInv, JwtInv, Typed
<1>2. \A j \in Jtis : Expired(j) => token[j].state # "issued" /\ ~IsActive(j)
  <2> SUFFICES ASSUME NEW j \in Jtis, Expired(j) PROVE token[j].state # "issued" /\ ~IsActive(j)
    OBVIOUS
  <2>1. token[j] \in Tokens
    BY DEF Expired, InTable, AccessInv, JwtInv, Typed, None
  <2> QED
    BY <2>1, JwtAssumption DEF Expired, InTable, IsActive, Tokens
<1>3. life' = life /\ \E to \in {"idle", First} : pc' = [pc EXCEPT ![i] = to]
  BY DEF CleanupExpired, Finish, Start, Goto
<1>4. \A j \in Jtis : (IsActive(j) => IsActive(j)') /\ (Live(j)' => Live(j) /\ token'[j] = token[j])
  BY <1>1, <1>2 DEF Live, IsActive, None
<1>5. \A j \in Jtis : token[j].state = "issued" \/ token'[j].state = "issued" => token'[j] = token[j]
  BY <1>1, <1>2 DEF None
<1>6. pc[i] \in {"idle", "cleanup"}
  BY DEF CleanupExpired, Finish, Start, Goto
<1>7. \A h \in Instances : Rotating(h) => Rotating(h)'
  BY <1>3, <1>6 DEF Rotating, AccessInv, JwtInv, Typed
<1>8. (\E j \in Jtis : IsActive(j)') \/ (\E h \in Instances : Rotating(h)')
  BY <1>4, <1>7 DEF AccessInv, Access
<1> QED
  BY <1>3, <1>4, <1>5, <1>8, FewerLive DEF Issued, First

\* When the last valid token expires, its issuer's record says so.
LEMMA TickAccess == ASSUME AccessInv, Tick PROVE Access'
<1>1. \A j \in Jtis : Live(j) => token[j] \in Tokens
  BY LiveTypes DEF AccessInv, JwtInv
<1>2. \A j \in Jtis : token[j] # None =>
        token'[j] = [token[j] EXCEPT !.left = AtLeast(token[j].left - 1, -CleanupRetention)]
  BY DEF Tick
<1>3. \A j \in Jtis : Live(j) =>
        /\ token'[j].state = token[j].state /\ token'[j].owner = token[j].owner
        /\ token[j].left \in 1 .. TTL /\ token'[j].left = token[j].left - 1
  <2> SUFFICES ASSUME NEW j \in Jtis, Live(j)
               PROVE  /\ token'[j].state = token[j].state /\ token'[j].owner = token[j].owner
                      /\ token[j].left \in 1 .. TTL /\ token'[j].left = token[j].left - 1
    OBVIOUS
  <2>1. token[j].left \in 1 .. TTL
    BY <1>1, JwtAssumption DEF AccessInv, Access, Live, IsActive, Tokens
  <2>2. AtLeast(token[j].left - 1, -CleanupRetention) = token[j].left - 1
    BY <2>1, JwtAssumption DEF AtLeast
  <2>3. token'[j] = [token[j] EXCEPT !.left = token[j].left - 1]
    BY <1>2, <2>2 DEF Live, IsActive, None
  <2> QED
    BY <1>1, <2>1, <2>3 DEF Tokens
<1>4. \A j \in Jtis : Live(j)' => Live(j)
  <2> SUFFICES ASSUME NEW j \in Jtis, token[j] \in Tokens, Live(j)' PROVE Live(j)
    BY DEF AccessInv, JwtInv, Typed, Tick, Live, IsActive, None
  <2>1. token[j] # None
    BY DEF Tokens, None
  <2>2. token'[j].state = token[j].state
        /\ token'[j].left = AtLeast(token[j].left - 1, -CleanupRetention)
    BY <1>2, <2>1 DEF Tokens
  <2>3. token'[j].left > 0 => token[j].left > 0
    BY <2>2, JwtAssumption DEF Tokens, AtLeast
  <2> QED
    BY <2>2, <2>3 DEF Live, IsActive
<1>5. \A i \in Instances : life[i] \in 0 .. TTL
        /\ life'[i] = IF life[i] > 0 THEN life[i] - 1 ELSE 0
  BY JwtAssumption DEF AccessInv, Access, Tick, AtLeast
<1>6. life' \in [Instances -> 0 .. TTL]
  BY <1>5, JwtAssumption DEF Tick
<1>7. \A j \in Jtis : Live(j) => life'[token'[j].owner] \in {0, token'[j].left}
  BY <1>1, <1>3, <1>5 DEF AccessInv, Access, Tokens
<1>8. \A j \in Jtis : token'[j].state = "issued" => token[j].state = "issued"
  BY <1>3, <1>4 DEF Live
<1>9. \A j \in Jtis : token'[j].state = "issued" => token'[j].left > 0
  BY <1>3, <1>8 DEF Live, Tick
<1>10. \A i \in Instances : pc'[i] = "save" => \E j \in Jtis : Issued(i, j)'
  BY <1>3 DEF AccessInv, Access, Issued, Live, Tick
<1>11. (\E j \in Jtis : IsActive(j)') \/ (\E i \in Instances : Rotating(i)')
  <2>1. ASSUME NEW i \in Instances, Rotating(i) PROVE Rotating(i)'
    BY <1>5, <2>1 DEF Rotating, Tick
  <2>2. ASSUME NEW j \in Jtis, IsActive(j), ~IsActive(j)' PROVE \E i \in Instances : Rotating(i)'
    <3>1. token'[j].left = 0 /\ token'[j].owner = token[j].owner
      BY <1>3, <2>2 DEF IsActive, Live
    <3>2. token[j].owner \in Instances
      BY <1>1, <2>2 DEF Live, Tokens
    <3>3. life'[token[j].owner] = 0
      BY <1>7, <2>2, <3>1 DEF Live
    <3> QED
      BY <3>2, <3>3 DEF Rotating
  <2> QED
    BY <2>1, <2>2 DEF AccessInv, Access
<1> QED
  BY <1>4, <1>6, <1>7, <1>9, <1>10, <1>11 DEF Access

\* Every step keeps access, as far as the tokens and the instances know.
LEMMA AccessStep == RevokePrevious /\ AccessInv /\ [Next]_vars => AccessInv'
<1> SUFFICES ASSUME RevokePrevious, AccessInv, [Next]_vars PROVE Access'
  BY JwtStep DEF AccessInv
<1>1. CASE Tick
  BY <1>1, TickAccess
<1>2. ASSUME NEW i \in Instances, Start(i) \/ CleanupExpired(i) PROVE Access'
  BY <1>2, KeepAccess
<1>3. ASSUME NEW i \in Instances, RevokeAllActive(i) \/ RevokeFails(i) PROVE Access'
  BY <1>3, RevokeAccess
<1>4. ASSUME NEW i \in Instances, Issue(i) PROVE Access'
  BY <1>4, IssueAccess
<1>5. ASSUME NEW i \in Instances, Save(i) PROVE Access'
  BY <1>5, SaveAccess
<1>6. ASSUME NEW i \in Instances, SaveFails(i) PROVE Access'
  BY <1>6, LoseAccess DEF SaveFails, Fail, Finish, Goto
<1>7. ASSUME NEW i \in Instances, Crash(i) PROVE Access'
  BY <1>7, LoseAccess DEF Crash, Starting, First
<1>8. CASE UNCHANGED vars
  BY <1>8 DEF vars, AccessInv, Access, Rotating, Issued, Live, IsActive
<1> QED
  BY <1>1, <1>2, <1>3, <1>4, <1>5, <1>6, <1>7, <1>8 DEF Next, Rotate

(***************************************************************************)
(* With revoke_previous: when no instance is rotating and none of the      *)
(* tokens issued by their last rotations has expired, one token is valid,  *)
(* in whatever order the revocations and saves of Rotate met.              *)
(***************************************************************************)
THEOREM RotationsLeaveAccess ==
  ASSUME Instances # {}, RevokePrevious
  PROVE  Spec => []SomeTokenValid
<1>1. AccessInv => SomeTokenValid
  BY DEF AccessInv, Access, Rotating, SomeTokenValid
<1>2. Init => AccessInv
  BY JwtInit, AccessInit DEF AccessInv
<1>3. AccessInv /\ [Next]_vars => AccessInv'
  BY AccessStep
<1> QED
  BY <1>1, <1>2, <1>3, PTL DEF Spec
=============================================================================
