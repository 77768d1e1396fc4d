----------------------------- MODULE RedisBucket -----------------------------
(***************************************************************************)
(* One rate-limit key in Redis (internal/ratelimit, redisAllow).  A caller *)
(* reads its own clock, then the Lua script runs atomically in Redis: it   *)
(* refills by the time since the stored ts, takes a token if there is one, *)
(* stores the caller's time as the new ts and lets the key expire after    *)
(* two seconds.  Several calls may be under way, from one gateway instance *)
(* or from several with clocks of their own, which may also be stepped.    *)
(***************************************************************************)
EXTENDS Integers

CONSTANTS Callers,      \* goroutines that use the key
          MaxAhead,     \* bound, in ticks, on how far ahead of the true time a clock is
          MaxBehind,    \* bound on how far behind it the script runs with: a slow
                        \* clock, and the time from reading it to the script
          Rps, Burst, TicksPerSec,
          MaxClock      \* bound on the clock

KeyTTL == 2 * TicksPerSec    \* EXPIRE key 2

NoCall == -1

ASSUME BucketAssumption ==
  /\ MaxAhead \in Nat
  /\ MaxBehind \in Nat
  /\ Rps \in Nat \ {0}
  /\ Burst \in Nat \ {0}
  /\ TicksPerSec \in Nat \ {0}
  /\ MaxClock \in Nat

VARIABLES clock,        \* the true time
          tokens, ts,   \* the hash stored under the key
          expireAt,     \* when Redis drops it
          now,          \* of each caller: the time it read, or NoCall
          ideal         \* ghost: the level of the TokenBucket that serves the
                        \* same requests

vars == <<clock, tokens, ts, expireAt, now, ideal>>

Capacity == Burst * TicksPerSec

Capped(x) == IF x > Capacity THEN Capacity ELSE x

Alive == clock < expireAt

T == INSTANCE TokenBucket WITH
       level <- ideal, told <- ts, expires <- expireAt, TTL <- KeyTTL

Init ==
  /\ clock = 0
  /\ tokens = Capacity
  /\ ts = 0
  /\ expireAt = 0            \* the key does not exist yet
  /\ now = [c \in Callers |-> NoCall]
  /\ ideal = T!Capacity

\* Time passes, but no call falls more than MaxBehind ticks behind it.
Tick ==
  /\ clock < MaxClock
  /\ \A c \in Callers : now[c] # NoCall => clock < now[c] + MaxBehind
  /\ clock' = clock + 1
  /\ ideal' = T!Capped(ideal + Rps + (IF clock' = expireAt THEN T!Gift ELSE 0))
  /\ UNCHANGED <<tokens, ts, expireAt, now>>

ReadClock(c) ==              \* now := time.Now().UnixMilli() / 1000
  /\ now[c] = NoCall
  /\ \E n \in clock - MaxBehind .. clock + MaxAhead :
       /\ n >= 0
       /\ now' = [now EXCEPT ![c] = n]
  /\ UNCHANGED <<clock, tokens, ts, expireAt, ideal>>

FilledUncapped(n) ==
  IF Alive THEN tokens + Rps * (IF n > ts THEN n - ts ELSE 0) ELSE Capacity

FilledEitherWay(n) ==
  IF Alive THEN Capped(tokens + Rps * (IF n > ts THEN n - ts ELSE ts - n)) ELSE Capacity

\* tokens after the refill: the full bucket if the key is gone, otherwise
\* min(burst, tokens + max(0, now - ts) * rate).
Filled(n) ==
  IF Alive THEN Capped(tokens + Rps * (IF n > ts THEN n - ts ELSE 0)) ELSE Capacity

Store(c) ==                  \* HMSET tokens, ts; EXPIRE
  /\ ts' = now[c]
  /\ expireAt' = clock + KeyTTL
  /\ now' = [now EXCEPT ![c] = NoCall]
  /\ UNCHANGED clock

EvalAllow(c) ==              \* the script returns 1
  /\ now[c] # NoCall
  /\ Filled(now[c]) >= TicksPerSec
  /\ tokens' = Filled(now[c]) - TicksPerSec
  /\ ideal' = T!Offered(now[c]) - TicksPerSec
  /\ Store(c)

EvalDenyKeepsTs(c) ==
  /\ now[c] # NoCall
  /\ Filled(now[c]) < TicksPerSec
  /\ tokens' = Filled(now[c])
  /\ expireAt' = clock + KeyTTL
  /\ now' = [now EXCEPT ![c] = NoCall]
  /\ ideal' = T!Offered(now[c])
  /\ UNCHANGED <<clock, ts>>

EvalDeny(c) ==               \* the script returns 0
  /\ now[c] # NoCall
  /\ Filled(now[c]) < TicksPerSec
  /\ tokens' = Filled(now[c])
  /\ ideal' = T!Offered(now[c])
  /\ Store(c)

Next ==
  \/ Tick
  \/ \E c \in Callers : ReadClock(c) \/ EvalAllow(c) \/ EvalDeny(c)

Spec == Init /\ [][Next]_vars

----------------------------------------------------------------------------
(* Properties *)

TypeOK ==
  /\ clock \in 0 .. MaxClock
  /\ tokens \in 0 .. Capacity
  /\ ts \in Nat
  /\ expireAt \in Nat
  /\ now \in [Callers -> Nat \union {NoCall}]
  /\ ideal \in Int

(***************************************************************************)
(* The script, with its stored timestamp and its expiring key, implements  *)
(* the token bucket (redisAllow): a request it lets through finds a token  *)
(* in a bucket that runs by the true time, whatever the clocks of the      *)
(* callers say, however late their scripts run and whenever Redis drops    *)
(* the key.  What bad clocks and the expiry add is what TokenBucket        *)
(* concedes and no more.                                                   *)
(***************************************************************************)
BucketSpec == T!Spec
=============================================================================
