-------------------------- MODULE RedisBucket_proofs --------------------------
(***************************************************************************)
(* Theorems about redisAllow: the tokens it stores are never negative nor  *)
(* more than the burst, and the script implements the token bucket,        *)
(* whatever the clocks of its callers say, however late it runs, and       *)
(* however the burst compares with the rate and the life of the key.       *)
(***************************************************************************)
EXTENDS RedisBucket, TLAPS

\* The earliest time the next call can tell without telling an earlier one
\* than the last call did.
Base == IF ts > clock - MaxBehind THEN ts ELSE clock - MaxBehind

\* What the key is worth to a call that tells the time n, no earlier than ts.
Worth(n) == Capped(tokens + Rps * (n - ts))

\* The inductive invariant: at the time a call may tell, the key is worth at
\* most what the ideal bucket holds less the refill from that time to the
\* latest time a call may tell; and the ideal bucket has gained, since the
\* last call, the refill of the time since then.
BucketInv ==
  /\ TypeOK
  /\ \A c \in Callers : now[c] # NoCall =>
       /\ clock - MaxBehind <= now[c]
       /\ now[c] <= clock + MaxAhead
  /\ ts <= clock + MaxAhead
  /\ expireAt <= clock + KeyTTL
  /\ ideal <= T!Capacity
  /\ Alive => /\ Worth(Base) <= ideal - Rps * (clock + MaxAhead - Base)
              /\ \/ ideal >= T!Capacity
                 \/ ideal >= Rps * (clock + KeyTTL - expireAt)
  /\ ~Alive => ideal = T!Capacity

\* Multiplication distributes over sums and differences.
LEMMA TimesSum == \A k, m, n \in Int : k * (m + n) = k * m + k * n /\ k * (m - n) = k * m - k * n
OBVIOUS

\* Products of naturals are naturals.
LEMMA TimesNat == \A m, n \in Nat : m * n \in Nat
OBVIOUS

\* Products of integers are integers.
LEMMA TimesInt == \A m, n \in Int : m * n \in Int
OBVIOUS

\* The capacity of the hash and the life of the key are naturals, the latter not zero.
LEMMA CapacityFacts == Capacity \in Nat /\ KeyTTL \in Nat \ {0}
BY BucketAssumption, TimesNat DEF Capacity, KeyTTL

\* The ideal bucket holds the refill of the jitter on top of the burst.
LEMMA IdealCapacity ==
  /\ T!Capacity \in Nat
  /\ T!Capacity = Capacity + Rps * (MaxAhead + MaxBehind)
  /\ Capacity <= T!Capacity
<1>1. MaxAhead + MaxBehind \in Nat
  BY BucketAssumption
<1>2. Rps * (MaxAhead + MaxBehind) \in Nat
  BY <1>1, TimesNat, BucketAssumption
<1>3. T!Capacity = Capacity + Rps * (MaxAhead + MaxBehind)
  BY DEF T!Capacity, T!Jitter, Capacity
<1> QED
  BY <1>2, <1>3, CapacityFacts

----------------------------------------------------------------------------
(* What the script stores, whatever the callers' clocks say *)

\* The refill neither overdraws nor overfills the bucket.
LEMMA FilledRange ==
  ASSUME TypeOK, NEW n \in Nat
  PROVE  Filled(n) \in 0 .. Capacity
<1> DEFINE d == IF n > ts THEN n - ts ELSE 0
<1>1. d \in Nat
  BY DEF TypeOK
<1>2. Rps * d \in Nat
  BY <1>1, TimesNat, BucketAssumption
<1>3. Filled(n) = IF Alive THEN Capped(tokens + Rps * d) ELSE Capacity
  BY DEF Filled
<1> HIDE DEF d
<1> QED
  BY <1>2, <1>3, CapacityFacts DEF Capped, TypeOK

\* What the ideal bucket offers is an integer and no more than its capacity.
LEMMA OfferedRange ==
  ASSUME TypeOK, NEW n \in Nat
  PROVE  T!Offered(n) \in Int /\ T!Offered(n) <= T!Capacity
<1> DEFINE d == IF n < ts THEN ts - n ELSE 0
<1>1. d \in Int
  BY DEF TypeOK
<1>2. Rps * d \in Int
  BY <1>1, TimesInt, BucketAssumption
<1>3. T!Offered(n) = T!Capped(ideal + Rps * d)
  BY DEF T!Offered
<1> HIDE DEF d
<1> QED
  BY <1>2, <1>3, IdealCapacity DEF T!Capped, TypeOK

\* A tick adds an integer to the ideal bucket.
LEMMA TickRange ==
  ASSUME TypeOK, Tick
  PROVE  ideal' \in Int /\ ideal' <= T!Capacity
<1>1. Rps * KeyTTL \in Int
  BY TimesInt, CapacityFacts, BucketAssumption
<1>2. T!Gift \in Int
  BY <1>1, IdealCapacity DEF T!Gift
<1>3. (IF clock' = expireAt THEN T!Gift ELSE 0) \in Int
  BY <1>2
<1> QED
  BY <1>3, IdealCapacity, BucketAssumption DEF Tick, TypeOK, T!Capped

\* A run of the script keeps the types; it stores the time its caller read.
LEMMA EvalTyped ==
  ASSUME TypeOK, NEW c \in Callers, EvalAllow(c) \/ EvalDeny(c)
  PROVE  TypeOK'
<1>1. now[c] \in Nat /\ clock \in Nat
  BY DEF EvalAllow, EvalDeny, TypeOK
<1>2. Filled(now[c]) \in 0 .. Capacity /\ T!Offered(now[c]) \in Int
  BY <1>1, FilledRange, OfferedRange
<1>3. tokens' \in 0 .. Capacity /\ ideal' \in Int
  BY <1>2, CapacityFacts, BucketAssumption DEF EvalAllow, EvalDeny, TypeOK
<1>4. Store(c)
  BY DEF EvalAllow, EvalDeny
<1>5. clock + KeyTTL \in Nat
  BY <1>1, CapacityFacts
<1>6. now' \in [Callers -> Nat \union {NoCall}]
  BY <1>4 DEF Store, TypeOK
<1> QED
  BY <1>1, <1>3, <1>4, <1>5, <1>6 DEF Store, TypeOK, Capacity

\* A caller reads a time that is a natural within the two bounds.
LEMMA ReadTyped ==
  ASSUME TypeOK, NEW c \in Callers, ReadClock(c)
  PROVE  /\ TypeOK'
         /\ clock - MaxBehind <= now'[c] /\ now'[c] <= clock + MaxAhead
         /\ \A d \in Callers \ {c} : now'[d] = now[d]
<1>1. PICK n \in clock - MaxBehind .. clock + MaxAhead :
        n >= 0 /\ now' = [now EXCEPT ![c] = n]
  BY DEF ReadClock
<1>2. n \in Nat /\ clock - MaxBehind <= n /\ n <= clock + MaxAhead
  BY <1>1, BucketAssumption DEF TypeOK
<1> QED
  BY <1>1, <1>2 DEF ReadClock, TypeOK, Capacity

(***************************************************************************)
(* The hash of a rate-limit key always holds between no token and Burst of *)
(* them, however far the callers' clocks are apart and however long their  *)
(* calls are under way (redisAllow): the script refills by no negative     *)
(* time and takes a token only if there is one.                            *)
(***************************************************************************)
THEOREM BucketTyped == Spec => []TypeOK
<1>1. Init => TypeOK
  BY CapacityFacts, IdealCapacity, BucketAssumption DEF Init, TypeOK
<1>2. TypeOK /\ [Next]_vars => TypeOK'
  <2> SUFFICES ASSUME TypeOK, [Next]_vars PROVE TypeOK'
    OBVIOUS
  <2>1. CASE Tick
    BY <2>1, TickRange, BucketAssumption DEF Tick, TypeOK, Capacity
  <2>2. ASSUME NEW c \in Callers, ReadClock(c) PROVE TypeOK'
    BY <2>2, ReadTyped
  <2>3. ASSUME NEW c \in Callers, EvalAllow(c) \/ EvalDeny(c) PROVE TypeOK'
    BY <2>3, EvalTyped
  <2>4. CASE UNCHANGED vars
    BY <2>4 DEF vars, TypeOK, Capacity
  <2> QED
    BY <2>1, <2>2, <2>3, <2>4 DEF Next
<1> QED
  BY <1>1, <1>2, PTL DEF Spec

----------------------------------------------------------------------------
(* The script is the token bucket *)

\* The bound on the key's worth at Base carries over to every later time.
LEMMA WorthCovered ==
  ASSUME BucketInv, Alive, NEW n \in Int, n >= Base
  PROVE  /\ Worth(n) \in Nat
         /\ Worth(n) <= ideal - Rps * (clock + MaxAhead - n)
<1>1. Base \in Int /\ n - Base \in Nat /\ Base - ts \in Nat
  BY BucketAssumption DEF Base, BucketInv, TypeOK
<1> DEFINE x == Rps * (n - Base)
           y == Rps * (Base - ts)
           z == Rps * (clock + MaxAhead - Base)
<1>2. x \in Nat /\ y \in Nat /\ z \in Int
  BY <1>1, TimesNat, TimesInt, BucketAssumption DEF BucketInv, TypeOK
<1>3. Rps * (n - ts) = x + y
  <2>1. n - ts = (n - Base) + (Base - ts) /\ Rps \in Int /\ n - Base \in Int /\ Base - ts \in Int
    BY <1>1, BucketAssumption DEF BucketInv, TypeOK
  <2> QED
    BY <2>1, TimesSum
<1>4. Rps * (clock + MaxAhead - n) = z - x
  <2>1. /\ clock + MaxAhead - n = (clock + MaxAhead - Base) - (n - Base)
        /\ Rps \in Int /\ n - Base \in Int /\ clock + MaxAhead - Base \in Int
    BY <1>1, BucketAssumption DEF BucketInv, TypeOK
  <2> QED
    BY <2>1, TimesSum
<1>5. Capped(tokens + y) <= ideal - z
  BY DEF BucketInv, Worth
<1>6. Worth(n) = Capped(tokens + (x + y))
  BY <1>3 DEF Worth
<1> HIDE DEF x, y, z
<1> QED
  BY <1>2, <1>4, <1>5, <1>6, CapacityFacts DEF Capped, BucketInv, TypeOK

\* The ideal bucket never owes anything while there is a key.
LEMMA IdealNat ==
  ASSUME BucketInv
  PROVE  ideal \in Nat
<1>1. CASE ~Alive
  BY <1>1, IdealCapacity DEF BucketInv
<1>2. CASE Alive
  <2>1. Base \in Int /\ clock + MaxAhead - Base \in Nat
    BY BucketAssumption DEF Base, BucketInv, TypeOK
  <2>2. Rps * (clock + MaxAhead - Base) \in Nat
    BY <2>1, TimesNat, BucketAssumption
  <2>3. Worth(Base) \in Nat /\ Worth(Base) <= ideal - Rps * (clock + MaxAhead - Base)
    BY <1>2, <2>1, WorthCovered
  <2> QED
    BY <2>2, <2>3 DEF BucketInv, TypeOK
<1> QED
  BY <1>1, <1>2

\* What a call finds in the hash, the ideal bucket offers it, less the refill
\* from the time the call tells to the latest one it may tell.
LEMMA FilledCovered ==
  ASSUME BucketInv, NEW c \in Callers, now[c] # NoCall
  PROVE  Filled(now[c]) <= T!Offered(now[c]) - Rps * (clock + MaxAhead - now[c])
<1> DEFINE n == now[c]
<1>1. n \in Nat /\ clock - MaxBehind <= n /\ n <= clock + MaxAhead /\ clock \in Nat
  BY DEF BucketInv, TypeOK
<1>2. Rps \in Int /\ Rps \in Nat /\ MaxAhead \in Nat /\ MaxBehind \in Nat
  BY BucketAssumption
<1>3. CASE n >= ts
  <2>1. T!Offered(n) = ideal
    <3>1. Rps * 0 = 0
      BY <1>2
    <3> QED
      BY <1>1, <1>3, <3>1, IdealCapacity DEF T!Offered, T!Capped, BucketInv, TypeOK
  <2>2. CASE Alive
    <3>1. n >= Base
      BY <1>1, <1>3 DEF Base
    <3>2. Worth(n) <= ideal - Rps * (clock + MaxAhead - n)
      BY <1>1, <2>2, <3>1, WorthCovered
    <3>3. Filled(n) = Worth(n)
      <4>1. (IF n > ts THEN n - ts ELSE 0) = n - ts
        BY <1>1, <1>3 DEF BucketInv, TypeOK
      <4> QED
        BY <2>2, <4>1 DEF Filled, Worth
    <3> QED
      BY <2>1, <3>2, <3>3
  <2>3. CASE ~Alive
    <3>1. Filled(n) = Capacity /\ ideal = T!Capacity
      BY <2>3 DEF Filled, BucketInv
    <3> DEFINE w == Rps * (clock + MaxAhead - n)
               v == Rps * (n - (clock - MaxBehind))
    <3>2. v \in Nat /\ w \in Nat
      BY <1>1, <1>2, TimesNat
    <3>3. Rps * (MaxAhead + MaxBehind) = w + v
      <4>1. /\ MaxAhead + MaxBehind = (clock + MaxAhead - n) + (n - (clock - MaxBehind))
            /\ clock + MaxAhead - n \in Int /\ n - (clock - MaxBehind) \in Int
        BY <1>1, <1>2
      <4> QED
        BY <1>2, <4>1, TimesSum
    <3> HIDE DEF v, w
    <3>4. Capacity <= T!Capacity - w
      BY <3>2, <3>3, IdealCapacity, CapacityFacts
    <3> QED
      BY <2>1, <3>1, <3>4 DEF w
  <2> QED
    BY <2>2, <2>3
<1>4. CASE n < ts
  <2> DEFINE b == Rps * (ts - n)
             w == Rps * (clock + MaxAhead - n)
             u == Rps * (clock + MaxAhead - ts)
             v == Rps * (n - (clock - MaxBehind))
  <2>1. b \in Nat /\ w \in Nat /\ v \in Nat /\ u \in Nat
    BY <1>1, <1>2, <1>4, TimesNat DEF BucketInv, TypeOK
  <2>2. w = u + b
    <3>1. /\ clock + MaxAhead - n = (clock + MaxAhead - ts) + (ts - n)
          /\ clock + MaxAhead - ts \in Int /\ ts - n \in Int
      BY <1>1, <1>2 DEF BucketInv, TypeOK
    <3> QED
      BY <1>2, <3>1, TimesSum
  <2>3. Rps * (MaxAhead + MaxBehind) = w + v
    <3>1. /\ MaxAhead + MaxBehind = (clock + MaxAhead - n) + (n - (clock - MaxBehind))
          /\ clock + MaxAhead - n \in Int /\ n - (clock - MaxBehind) \in Int
      BY <1>1, <1>2
    <3> QED
      BY <1>2, <3>1, TimesSum
  <2>4. T!Offered(n) = T!Capped(ideal + b)
    BY <1>4 DEF T!Offered
  <2>5. Filled(n) <= Capacity /\ Filled(n) \in Int
    BY <1>1, FilledRange, CapacityFacts DEF BucketInv
  <2>6. Filled(n) <= ideal - u
    <3>1. CASE Alive
      <4>1. ts \in Int /\ ts >= Base
        BY <1>1, <1>2, <1>4 DEF Base, BucketInv, TypeOK
      <4>2. Worth(ts) <= ideal - u
        BY <3>1, <4>1, WorthCovered
      <4>3. Filled(n) = Capped(tokens + Rps * 0) /\ Worth(ts) = Capped(tokens + Rps * 0)
        <5>1. ts - ts = 0 /\ ~(n > ts)
          BY <1>1, <1>4 DEF BucketInv, TypeOK
        <5> QED
          BY <3>1, <5>1 DEF Filled, Worth
      <4> QED
        BY <4>2, <4>3
    <3>2. CASE ~Alive
      <4>1. ideal = T!Capacity
        BY <3>2 DEF BucketInv
      <4> HIDE DEF b, w, u, v
      <4> QED
        BY <2>1, <2>2, <2>3, <2>5, <4>1, IdealCapacity, CapacityFacts
    <3> QED
      BY <3>1, <3>2
  <2> HIDE DEF b, w, u, v
  <2>7. Filled(n) <= T!Offered(n) - w
    BY <2>1, <2>2, <2>3, <2>4, <2>5, <2>6, IdealCapacity, CapacityFacts
       DEF T!Capped, BucketInv, TypeOK
  <2> QED
    BY <2>7 DEF w
<1> QED
  BY <1>1, <1>3, <1>4 DEF BucketInv, TypeOK

\* Without a key the bucket is full (redisAllow, tokens == nil).
LEMMA BucketInit == Init => BucketInv
<1> SUFFICES ASSUME Init PROVE BucketInv
  OBVIOUS
<1>1. ~Alive
  BY DEF Init, Alive
<1>2. TypeOK
  BY CapacityFacts, IdealCapacity, BucketAssumption DEF Init, TypeOK
<1> QED
  BY <1>1, <1>2, CapacityFacts, IdealCapacity, BucketAssumption DEF Init, BucketInv

\* A tick refills the ideal bucket at least as far as the key.
LEMMA TickBucket ==
  ASSUME BucketInv, Tick
  PROVE  BucketInv'
<1>1. TypeOK' /\ ideal' <= T!Capacity
  BY TickRange, BucketAssumption DEF BucketInv, Tick, TypeOK, Capacity
<1>2. /\ clock \in Nat /\ clock' = clock + 1 /\ ts' = ts /\ tokens' = tokens
      /\ expireAt' = expireAt /\ now' = now /\ ts \in Nat /\ tokens \in Nat /\ expireAt \in Nat
  BY DEF Tick, BucketInv, TypeOK
<1>3. \A c \in Callers : now'[c] # NoCall =>
        clock' - MaxBehind <= now'[c] /\ now'[c] <= clock' + MaxAhead
  BY <1>2, BucketAssumption DEF Tick, BucketInv, TypeOK
<1>4. Rps \in Nat /\ Rps \in Int /\ MaxAhead \in Nat /\ MaxBehind \in Nat
  BY BucketAssumption
<1>5. ideal \in Nat
  BY IdealNat
<1>6. CASE ~Alive
  <2>1. ~Alive' /\ clock' # expireAt
    BY <1>2, <1>6 DEF Alive
  <2>2. ideal = T!Capacity
    BY <1>6 DEF BucketInv
  <2>3. ideal' = T!Capacity
    BY <1>4, <2>1, <2>2, IdealCapacity DEF Tick, T!Capped
  <2> QED
    BY <1>1, <1>2, <1>3, <1>4, <2>1, <2>3, CapacityFacts DEF BucketInv
<1>7. CASE Alive
  <2> DEFINE gap == Rps * (clock + KeyTTL - expireAt)
  <2>1. gap \in Nat /\ Rps * (clock' + KeyTTL - expireAt') = gap + Rps
    <3>1. clock + KeyTTL - expireAt \in Nat
      BY <1>2, CapacityFacts DEF BucketInv
    <3>2. Rps * ((clock + KeyTTL - expireAt) + 1) = gap + Rps * 1
      BY <1>4, <3>1, TimesSum
    <3>3. clock' + KeyTTL - expireAt' = (clock + KeyTTL - expireAt) + 1
      BY <1>2, CapacityFacts
    <3>4. Rps * 1 = Rps
      BY <1>4
    <3> QED
      BY <1>4, <3>1, <3>2, <3>3, <3>4, TimesNat
  <2>2. ideal >= T!Capacity \/ ideal >= gap
    BY <1>7 DEF BucketInv
  <2> HIDE DEF gap
  <2>3. CASE ~Alive'
    <3>1. clock' = expireAt
      BY <1>2, <1>7, <2>3 DEF Alive
    <3>2. gap + Rps = Rps * KeyTTL
      <4>1. clock' + KeyTTL - expireAt' = KeyTTL
        BY <1>2, <3>1, CapacityFacts
      <4> QED
        BY <2>1, <4>1
    <3>3. T!Gift \in Nat /\ T!Gift >= T!Capacity - (gap + Rps)
      BY <1>4, <2>1, <3>2, IdealCapacity DEF T!Gift
    <3>4. ideal' = T!Capped(ideal + Rps + T!Gift)
      BY <3>1 DEF Tick
    <3>5. ideal' = T!Capacity
      BY <1>4, <1>5, <2>1, <2>2, <3>3, <3>4, IdealCapacity DEF T!Capped
    <3> QED
      BY <1>1, <1>2, <1>3, <1>4, <2>3, <3>5, CapacityFacts DEF BucketInv
  <2>4. CASE Alive'
    <3>1. clock' # expireAt
      BY <1>2, <2>4 DEF Alive
    <3>2. ideal' = T!Capped(ideal + Rps)
      BY <1>4, <1>5, <3>1 DEF Tick
    <3>3. ideal' >= T!Capacity \/ ideal' >= gap + Rps
      BY <1>4, <1>5, <2>1, <2>2, <3>2, IdealCapacity DEF T!Capped
    <3>4. Base' \in Int /\ Base' >= Base /\ Base' >= clock + 1 - MaxBehind
      BY <1>2, <1>4 DEF Base
    <3>5. PICK m \in Int : m = Base'
      BY <3>4
    <3>6. clock + MaxAhead - m \in Int /\ m - (clock + 1 - MaxBehind) \in Nat
      <4>1. m >= clock + 1 - MaxBehind
        BY <3>4, <3>5
      <4>2. clock + 1 - MaxBehind \in Int
        BY <1>2, <1>4
      <4> QED
        BY <1>2, <1>4, <4>1, <4>2
    <3> DEFINE z == Rps * (clock + MaxAhead - m)
               v == Rps * (m - (clock + 1 - MaxBehind))
    <3>7. /\ Worth(m) \in Nat /\ Worth(m) <= ideal - z
          /\ z \in Int /\ v \in Nat
      <4>1. Worth(m) \in Nat /\ Worth(m) <= ideal - z
        BY <1>7, <3>4, <3>5, WorthCovered
      <4> QED
        BY <1>4, <3>6, <4>1, TimesInt, TimesNat
    <3>8. Rps * (clock' + MaxAhead - m) = z + Rps
      <4>1. Rps * ((clock + MaxAhead - m) + 1) = z + Rps * 1
        <5>1. clock + MaxAhead - m \in Int
          BY <1>2, <1>4
        <5> QED
          BY <1>4, <5>1, TimesSum
      <4>2. clock' + MaxAhead - m = (clock + MaxAhead - m) + 1
        BY <1>2, <1>4
      <4>3. Rps * 1 = Rps
        BY <1>4
      <4> QED
        BY <4>1, <4>2, <4>3
    <3>9. Rps * (MaxAhead + MaxBehind) = (z + Rps) + v
      <4>1. /\ MaxAhead + MaxBehind = (clock' + MaxAhead - m) + (m - (clock + 1 - MaxBehind))
            /\ clock' + MaxAhead - m \in Int /\ m - (clock + 1 - MaxBehind) \in Int
        BY <1>2, <1>4
      <4>2. Rps * (MaxAhead + MaxBehind) = Rps * (clock' + MaxAhead - m) + v
        BY <1>4, <4>1, TimesSum
      <4> QED
        BY <3>8, <4>2
    <3>10. Worth(m) <= Capacity
      <4>1. Rps * (m - ts) \in Int
        BY <1>2, <1>4, TimesInt
      <4> QED
        BY <1>2, <4>1, CapacityFacts DEF Worth, Capped
    <3> HIDE DEF z, v
    <3>11. Worth(m) <= ideal' - (z + Rps)
      BY <1>4, <1>5, <3>2, <3>7, <3>9, <3>10, IdealCapacity, CapacityFacts DEF T!Capped
    <3>12. Worth(Base)' = Worth(m)
      BY <1>2, <3>5 DEF Worth, Capped, Capacity
    <3>13. Worth(Base)' <= ideal' - Rps * (clock' + MaxAhead - Base')
      BY <3>5, <3>8, <3>11, <3>12
    <3> QED
      BY <1>1, <1>2, <1>3, <1>4, <2>1, <2>4, <3>3, <3>13, CapacityFacts DEF BucketInv
  <2> QED
    BY <2>3, <2>4
<1> QED
  BY <1>6, <1>7

\* A run of the script that takes d leaves the key covered by the ideal bucket.
LEMMA StoreBucket ==
  ASSUME BucketInv, NEW c \in Callers, now[c] # NoCall, Store(c), TypeOK',
         NEW d \in Nat, d <= Filled(now[c]),
         tokens' = Filled(now[c]) - d, ideal' = T!Offered(now[c]) - d
  PROVE  BucketInv'
<1> DEFINE n == now[c]
           w == Rps * (clock + MaxAhead - n)
<1>1. n \in Nat /\ clock - MaxBehind <= n /\ n <= clock + MaxAhead /\ clock \in Nat
  BY DEF BucketInv, TypeOK
<1>2. Rps \in Nat /\ Rps \in Int /\ MaxAhead \in Nat /\ MaxBehind \in Nat
  BY BucketAssumption
<1>3. ts' = n /\ expireAt' = clock + KeyTTL /\ clock' = clock
  BY DEF Store
<1>4. \A e \in Callers : now'[e] # NoCall =>
        clock' - MaxBehind <= now'[e] /\ now'[e] <= clock' + MaxAhead
  BY <1>3 DEF Store, BucketInv, TypeOK
<1>5. w \in Nat
  BY <1>1, <1>2, TimesNat
<1>6. Filled(n) \in 0 .. Capacity /\ T!Offered(n) \in Int /\ T!Offered(n) <= T!Capacity
  BY <1>1, FilledRange, OfferedRange DEF BucketInv
<1>7. Filled(n) <= T!Offered(n) - w
  BY FilledCovered
<1>8. Base' = n
  BY <1>1, <1>2, <1>3 DEF Base
<1>9. Worth(Base)' = tokens'
  <2>1. Rps * 0 = 0 /\ n - n = 0
    BY <1>1, <1>2
  <2>2. Worth(Base)' = Capped(tokens' + Rps * (n - n))
    BY <1>3, <1>8 DEF Worth, Capped, Capacity
  <2> QED
    BY <1>6, <2>1, <2>2, CapacityFacts DEF Capped
<1>10. Worth(Base)' <= ideal' - Rps * (clock' + MaxAhead - Base')
  <2>1. Rps * (clock' + MaxAhead - Base') = w
    BY <1>3, <1>8
  <2> HIDE DEF w
  <2> QED
    BY <1>5, <1>6, <1>7, <1>9, <2>1
<1>11. ideal' \in Nat /\ ideal' <= T!Capacity
  <2> HIDE DEF w, n
  <2> QED
    BY <1>5, <1>6, <1>7, IdealCapacity, CapacityFacts DEF n
<1>12. Rps * (clock' + KeyTTL - expireAt') = 0
  <2>1. clock' + KeyTTL - expireAt' = 0
    BY <1>1, <1>3, CapacityFacts
  <2> QED
    BY <1>2, <2>1
<1>13. Alive'
  BY <1>1, <1>3, CapacityFacts DEF Alive
<1> HIDE DEF w
<1> QED
  BY <1>1, <1>2, <1>3, <1>4, <1>10, <1>11, <1>12, <1>13, CapacityFacts DEF BucketInv

\* Every run of the script is a step of the ideal bucket and keeps the invariant.
LEMMA EvalStep ==
  ASSUME BucketInv, NEW c \in Callers, EvalAllow(c) \/ EvalDeny(c)
  PROVE  /\ BucketInv'
         /\ now[c] \in clock - MaxBehind .. clock + MaxAhead
         /\ T!Pass(now[c]) \/ T!Refuse(now[c])
<1>1. TypeOK'
  BY EvalTyped DEF BucketInv
<1>2. now[c] # NoCall /\ Store(c)
  BY DEF EvalAllow, EvalDeny
<1>3. /\ now[c] \in Nat /\ clock \in Nat
      /\ clock - MaxBehind <= now[c] /\ now[c] <= clock + MaxAhead
  BY <1>2 DEF BucketInv, TypeOK
<1>4. now[c] \in clock - MaxBehind .. clock + MaxAhead
  BY <1>3, BucketAssumption
<1>5. T!Request(now[c])
  BY <1>2 DEF Store, T!Request
<1>6. Filled(now[c]) \in Nat /\ T!Offered(now[c]) \in Int /\ Filled(now[c]) <= T!Offered(now[c])
  <2>1. Rps * (clock + MaxAhead - now[c]) \in Nat
    BY <1>3, TimesNat, BucketAssumption
  <2>2. Filled(now[c]) <= T!Offered(now[c]) - Rps * (clock + MaxAhead - now[c])
    BY <1>2, FilledCovered
  <2>3. Filled(now[c]) \in 0 .. Capacity /\ T!Offered(now[c]) \in Int
    BY <1>3, FilledRange, OfferedRange DEF BucketInv
  <2> QED
    BY <2>1, <2>2, <2>3, CapacityFacts
<1>7. CASE EvalAllow(c)
  <2>1. /\ Filled(now[c]) >= TicksPerSec
        /\ tokens' = Filled(now[c]) - TicksPerSec
        /\ ideal' = T!Offered(now[c]) - TicksPerSec
    BY <1>7 DEF EvalAllow
  <2>2. BucketInv'
    BY <1>1, <1>2, <1>6, <2>1, StoreBucket, BucketAssumption
  <2>3. T!Pass(now[c])
    BY <1>5, <1>6, <2>1, BucketAssumption DEF T!Pass
  <2> QED
    BY <1>4, <2>2, <2>3
<1>8. CASE EvalDeny(c)
  <2>1. /\ tokens' = Filled(now[c]) - 0
        /\ ideal' = T!Offered(now[c]) - 0
    BY <1>6, <1>8 DEF EvalDeny
  <2>2. BucketInv'
    BY <1>1, <1>2, <1>6, <2>1, StoreBucket
  <2>3. T!Refuse(now[c])
    BY <1>5, <1>6, <2>1 DEF T!Refuse
  <2> QED
    BY <1>4, <2>2, <2>3
<1> QED
  BY <1>7, <1>8

\* Every step keeps the invariant and is a step of the ideal bucket or none.
LEMMA BucketStep ==
  ASSUME BucketInv, [Next]_vars
  PROVE  BucketInv' /\ [T!Next]_(T!vars)
<1>1. CASE Tick
  <2>1. T!Tick
    BY <1>1 DEF Tick, T!Tick
  <2> QED
    BY <1>1, <2>1, TickBucket DEF T!Next
<1>2. ASSUME NEW c \in Callers, ReadClock(c) PROVE BucketInv' /\ UNCHANGED T!vars
  <2>1. UNCHANGED <<clock, tokens, ts, expireAt, ideal>>
    BY <1>2 DEF ReadClock
  <2>2. /\ TypeOK'
        /\ \A d \in Callers : now'[d] # NoCall =>
             clock' - MaxBehind <= now'[d] /\ now'[d] <= clock' + MaxAhead
    BY <1>2, <2>1, ReadTyped DEF BucketInv
  <2> QED
    BY <2>1, <2>2 DEF BucketInv, Base, Worth, Alive, Capped, Capacity, T!vars
<1>3. ASSUME NEW c \in Callers, EvalAllow(c) \/ EvalDeny(c) PROVE BucketInv' /\ T!Next
  BY <1>3, EvalStep DEF T!Next
<1>4. CASE UNCHANGED vars
  BY <1>4 DEF vars, BucketInv, TypeOK, Base, Worth, Alive, Capped, Capacity, T!vars
<1> QED
  BY <1>1, <1>2, <1>3, <1>4 DEF Next

(***************************************************************************)
(* redisAllow implements the token bucket, for every number of callers,    *)
(* every bound on their clocks and on the way of their calls, and every    *)
(* rate and burst: a request it lets through finds a token in a bucket     *)
(* that runs by the true time and concedes what TokenBucket names.         *)
(***************************************************************************)
THEOREM ScriptImplementsBucket == Spec => BucketSpec
<1>1. Init => BucketInv /\ T!Init
  BY BucketInit DEF Init, T!Init
<1>2. BucketInv /\ [Next]_vars => BucketInv'
  BY BucketStep
<1>3. BucketInv /\ [Next]_vars => [T!Next]_(T!vars)
  BY BucketStep
<1> QED
  BY <1>1, <1>2, <1>3, PTL DEF Spec, BucketSpec, T!Spec
=============================================================================
