------------------------------ MODULE Limiter ------------------------------
(***************************************************************************)
(* Rate limits and daily quota of one API token (internal/ratelimit):      *)
(* Allow checks the quota, then takes from the token's bucket, then from   *)
(* the bucket of token and client IP; IncrSuccess counts the successes     *)
(* after the upstream has answered, and every push of a subscription       *)
(* (wsproxy, handleOutbound), for which nobody calls Allow.  The checks    *)
(* and the count are separate calls to Redis (or separate critical         *)
(* sections of l.mu), and the upstream call lies between them.  A bucket   *)
(* is a plain token bucket here; RedisBucket shows what the script is.     *)
(***************************************************************************)
EXTENDS Integers, FiniteSets

CONSTANTS Requests,        \* most HTTP requests and WebSocket messages of the token
                           \* that are under way at a time
          Ips, IpOf,       \* client addresses, and each goroutine's
          DailyQuota,      \* daily_quota; none if 0
          MaxBatch,        \* most successes one request can bring
          PushUnits,       \* what a push counts: notification_bill_units
          TokenRps, TokenBurst, IpRps, IpBurst,  \* limits per second; off if the rate is 0
          RedisMayFail,    \* calls to Redis may return errors
          MaxDay, MaxUsed  \* bounds on the days and on the successes of a day

ASSUME LimiterAssumption ==
  /\ IsFiniteSet(Requests)
  /\ IpOf \in [Requests -> Ips]
  /\ {DailyQuota, MaxBatch, MaxDay, MaxUsed} \subseteq Nat
  /\ PushUnits \in Nat \ {0}
  /\ {TokenRps, TokenBurst, IpRps, IpBurst} \subseteq Nat
  /\ RedisMayFail \in BOOLEAN

Keys == {"token"} \union Ips
ASSUME KeyAssumption == "token" \notin Ips

Days == 0 .. MaxDay
Stores == {"redis", "local"}

VARIABLES useRedis,    \* rdb.Available(): set at startup
          today,       \* the current UTC day
          used,        \* successes counted per day (Redis, or l.daily)
          level,       \* whole tokens left, per store and key
          pc,          \* where each goroutine is
          day,         \* the day its Allow computed
          successes,   \* successes in its upstream answer
          left,        \* its client has gone: r.Context() is cancelled (the
                       \* context of a WebSocket message never is)
          unchecked,   \* ghost: what pushes have added per day once the quota
                       \* was reached
          readFailed   \* ghost: a quota lookup has failed

vars == <<useRedis, today, used, level, pc, day, successes, left, unchecked, readFailed>>
counts == <<useRedis, today, used, unchecked, readFailed>>
locals == <<day, successes, left>>

Rps(k) == IF k = "token" THEN TokenRps ELSE IpRps
Burst(k) ==                  \* if burst <= 0 { burst = rps }
  IF k = "token" THEN IF TokenBurst = 0 THEN TokenRps ELSE TokenBurst
  ELSE IF IpBurst = 0 THEN IpRps ELSE IpBurst

Capped(x, k) == IF x > Burst(k) THEN Burst(k) ELSE x

Init ==
  /\ useRedis \in BOOLEAN
  /\ today = 0
  /\ used = [d \in Days |-> 0]
  /\ level = [s \in Stores |-> [k \in Keys |-> Burst(k)]]
  /\ pc = [r \in Requests |-> "idle"]
  /\ day = [r \in Requests |-> 0]
  /\ successes = [r \in Requests |-> 0]
  /\ left = [r \in Requests |-> FALSE]
  /\ unchecked = [d \in Days |-> 0]
  /\ readFailed = FALSE

Goto(r, from, to) == pc[r] = from /\ pc' = [pc EXCEPT ![r] = to]

----------------------------------------------------------------------------
(* Time and clients *)

Second ==
  /\ level' = [s \in Stores |-> [k \in Keys |-> Capped(level[s][k] + Rps(k), k)]]
  /\ UNCHANGED <<counts, pc, locals>>

Midnight ==
  /\ today < MaxDay
  /\ today' = today + 1
  /\ UNCHANGED <<useRedis, used, unchecked, readFailed, level, pc, locals>>

ClientLeaves(r) ==
  /\ pc[r] # "idle"
  /\ left' = [left EXCEPT ![r] = TRUE]
  /\ UNCHANGED <<counts, level, pc, day, successes>>

----------------------------------------------------------------------------
(* Allow *)

Arrive(r) ==                 \* day := time.Now().UTC()
  /\ Goto(r, "idle", "quota")
  /\ day' = [day EXCEPT ![r] = today]
  /\ left' = [left EXCEPT ![r] = FALSE]
  /\ UNCHANGED <<counts, level, successes>>

WithinQuotaOffByOne(d) == DailyQuota = 0 \/ used[d] <= DailyQuota

WithinQuota(d) == DailyQuota = 0 \/ used[d] < DailyQuota

CheckQuota(r) ==             \* dailyUsed succeeds
  /\ Goto(r, "quota", IF WithinQuota(day[r]) THEN "token" ELSE "idle")
  /\ UNCHANGED <<counts, level, locals>>

\* A call to Redis for request r may fail, also because r's context is cancelled.
\* It takes effect once or not at all: retries inside the client library, which
\* could repeat an INCRBY whose answer was lost, are left out.
Fails(r) == useRedis /\ (RedisMayFail \/ left[r])

QuotaUnknown(r) ==           \* dailyUsed returns an error: let the request pass
  /\ Fails(r)
  /\ Goto(r, "quota", "token")
  /\ readFailed' = TRUE
  /\ UNCHANGED <<useRedis, today, used, unchecked, level, locals>>

\* The stores allowBucket may end up asking: Redis, or after an error of
\* Redis, or without it, the limiter of this process.
AskedStores(r) ==
  IF ~useRedis THEN {"local"} ELSE IF Fails(r) THEN Stores ELSE {"redis"}

\* The bucket k answers ok to r, giving it a token unless the limit is off.
Bucket(r, k, ok) ==
  IF Rps(k) = 0
  THEN ok /\ UNCHANGED level
  ELSE \E s \in AskedStores(r) :
         IF level[s][k] >= 1
         THEN ok /\ level' = [level EXCEPT ![s][k] = @ - 1]
         ELSE ~ok /\ UNCHANGED level

PassToken(r) ==
  /\ Goto(r, "token", "ip")
  /\ Bucket(r, "token", TRUE)
  /\ UNCHANGED <<counts, locals>>

RejectToken(r) ==            \* token_rate_limit
  /\ Goto(r, "token", "idle")
  /\ Bucket(r, "token", FALSE)
  /\ UNCHANGED <<counts, locals>>

PassIp(r) ==
  /\ Goto(r, "ip", "forward")
  /\ Bucket(r, IpOf[r], TRUE)
  /\ UNCHANGED <<counts, locals>>

\* token_ip_rate_limit: the token taken from the token's bucket is not put back.
RejectIp(r) ==
  /\ Goto(r, "ip", "idle")
  /\ Bucket(r, IpOf[r], FALSE)
  /\ UNCHANGED <<counts, locals>>

----------------------------------------------------------------------------
(* The upstream call and IncrSuccess *)

\* External: the upstream answers with n successes; with none, or not at all,
\* if the request was cancelled before.
Answer(r, n) ==
  /\ Goto(r, "forward", IF n > 0 THEN "count" ELSE "idle")
  /\ n > 0 => ~left[r] /\ used[today] < MaxUsed
  /\ successes' = [successes EXCEPT ![r] = n]
  /\ UNCHANGED <<counts, level, day, left>>

Count(r) ==                  \* INCRBY, or l.daily[...] += n
  /\ Goto(r, "count", "idle")
  /\ used' = [used EXCEPT ![today] = @ + successes[r]]
  /\ successes' = [successes EXCEPT ![r] = 0]
  /\ UNCHANGED <<useRedis, today, unchecked, readFailed, level, day, left>>

\* INCRBY gets the context of an HTTP request; its error is ignored.
CountLost(r) ==
  /\ Fails(r)
  /\ Goto(r, "count", "idle")
  /\ successes' = [successes EXCEPT ![r] = 0]
  /\ UNCHANGED <<counts, level, day, left>>

\* How far a count of n is above the highest one that Allow lets pass.
Above(n) == IF n >= DailyQuota THEN n + 1 - DailyQuota ELSE 0

\* The upstream pushes a notification to some session of the token, which counts
\* it without asking Allow; a push whose INCRBY fails changes nothing here.
Push ==
  /\ used[today] < MaxUsed
  /\ used' = [used EXCEPT ![today] = @ + PushUnits]
  /\ unchecked' =
       [unchecked EXCEPT ![today] = @ + Above(used[today] + PushUnits) - Above(used[today])]
  /\ UNCHANGED <<useRedis, today, readFailed, level, pc, locals>>

----------------------------------------------------------------------------
Allow(r) ==
  CheckQuota(r) \/ QuotaUnknown(r) \/ PassToken(r) \/ RejectToken(r) \/ PassIp(r) \/ RejectIp(r)

Next ==
  \/ Second
  \/ Midnight
  \/ Push
  \/ \E r \in Requests :
       \/ ClientLeaves(r)
       \/ Arrive(r)
       \/ Allow(r)
       \/ \E n \in 0 .. MaxBatch : Answer(r, n)
       \/ Count(r)
       \/ CountLost(r)

Spec == Init /\ [][Next]_vars

----------------------------------------------------------------------------
(* Properties *)

TypeOK ==
  /\ useRedis \in BOOLEAN
  /\ today \in Days
  /\ used \in [Days -> Nat]
  /\ level \in [Stores -> [Keys -> Nat]]
  /\ \A s \in Stores, k \in Keys : level[s][k] <= Burst(k)
  /\ pc \in [Requests -> {"idle", "quota", "token", "ip", "forward", "count"}]
  /\ day \in [Requests -> Days]
  /\ successes \in [Requests -> 0 .. MaxBatch]
  /\ left \in [Requests -> BOOLEAN]
  /\ unchecked \in [Days -> Nat]
  /\ readFailed \in BOOLEAN

(***************************************************************************)
(* Allow checks the quota and IncrSuccess raises the count much later, so  *)
(* requests under way can exceed the quota.  What they exceed it by is     *)
(* bounded: each can add one batch after the last check that passed, also  *)
(* when checks and counts fall on different sides of midnight, as long as  *)
(* no quota lookup fails.  The pushes of subscriptions have no such bound: *)
(* they are counted without a check, above the quota too, and what they    *)
(* add there is set aside.                                                 *)
(***************************************************************************)
OvershootBounded ==
  DailyQuota > 0 /\ ~readFailed =>
    \A d \in Days :
      used[d] - unchecked[d] <= DailyQuota - 1 + MaxBatch * Cardinality(Requests)
=============================================================================
