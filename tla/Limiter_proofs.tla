--------------------------- MODULE Limiter_proofs ---------------------------
(***************************************************************************)
(* How far requests under way can exceed the daily quota, for any number   *)
(* of them, any quota and any batch size, across midnight and with pushes  *)
(* counted in between.                                                     *)
(*                                                                         *)
(* A goroutine is past the check of day d once it may count on d without   *)
(* looking at used[d] again: it has passed the check, or it will check an  *)
(* earlier day.  The others can each still add a batch to the bound.       *)
(***************************************************************************)
EXTENDS Limiter, FiniteSetTheorems, TLAPS

Past(d) ==
  {r \in Requests : \/ pc[r] \in {"token", "ip", "forward", "count"}
                    \/ pc[r] = "quota" /\ day[r] < d}
Others(d) == Requests \ Past(d)

\* What is counted on day d without what pushes have added above the quota.
Checked(d) == used[d] - unchecked[d]

QuotaTypes ==
  /\ today \in Days
  /\ used \in [Days -> Nat]
  /\ unchecked \in [Days -> Nat]
  /\ pc \in [Requests -> {"idle", "quota", "token", "ip", "forward", "count"}]
  /\ day \in [Requests -> Days]
  /\ successes \in [Requests -> 0 .. MaxBatch]

NoFutureDays ==
  /\ \A r \in Requests : day[r] <= today
  /\ \A d \in Days : d > today => used[d] = 0

\* Pushes are set aside only as far as the count is above the quota.
SetAside == \A d \in Days : unchecked[d] <= Above(used[d])

Room(d) ==
  IF d >= today
  THEN Checked(d) <= DailyQuota - 1 + MaxBatch * Cardinality(Others(d))
  ELSE Checked(d) <= DailyQuota - 1 + MaxBatch * Cardinality(Requests)

QuotaInv ==
  /\ QuotaTypes
  /\ NoFutureDays
  /\ SetAside
  /\ DailyQuota > 0 /\ ~readFailed => \A d \in Days : Room(d)

----------------------------------------------------------------------------
(* Arithmetic and cardinalities *)

\* Multiplication by a natural number (MaxBatch) is monotone.
LEMMA TimesMonotone ==
  ASSUME NEW m \in Nat, NEW a \in Nat, NEW b \in Nat, a <= b
  PROVE  m * a <= m * b /\ m * a \in Nat
<1>1. m * (b - a) >= 0 /\ m * a >= 0
  OBVIOUS
<1>2. m * (b - a) = m * b - m * a
  OBVIOUS
<1> QED
  BY <1>1, <1>2

\* One goroutine more is one batch more.
LEMMA TimesSuccessor ==
  ASSUME NEW m \in Nat, NEW a \in Nat
  PROVE  m * (a + 1) = m * a + m
OBVIOUS

\* The goroutines not past a check of Allow are finitely many.
LEMMA OthersFinite ==
  \A d \in Days : /\ IsFiniteSet(Others(d)) /\ Cardinality(Others(d)) \in Nat
                  /\ Cardinality(Others(d)) <= Cardinality(Requests)
                  /\ Cardinality(Requests) \in Nat
<1> TAKE d \in Days
<1> QED
  BY LimiterAssumption, FS_Subset, FS_CardinalityType, Others(d) \subseteq Requests DEF Others

\* At most every goroutine has one batch to add (IncrSuccess).
LEMMA BatchesBound ==
  ASSUME NEW d \in Days
  PROVE  /\ MaxBatch * Cardinality(Others(d)) <= MaxBatch * Cardinality(Requests)
         /\ MaxBatch * Cardinality(Others(d)) \in Nat
         /\ MaxBatch * Cardinality(Requests) \in Nat
BY OthersFinite, TimesMonotone, LimiterAssumption

----------------------------------------------------------------------------
(* Steps *)

\* What has been counted after a check is an integer, and below the quota it is all.
LEMMA CheckedFacts ==
  ASSUME QuotaInv, NEW d \in Days
  PROVE  /\ Checked(d) \in Int /\ Checked(d) <= used[d]
         /\ used[d] < DailyQuota => unchecked[d] = 0
BY LimiterAssumption DEF QuotaInv, QuotaTypes, SetAside, Above, Checked

\* The counts start at zero, within the quota.
LEMMA QuotaInit == Init => QuotaInv
<1> SUFFICES ASSUME Init PROVE QuotaInv
  OBVIOUS
<1>1. 0 \in Days
  BY LimiterAssumption DEF Days
<1>2. QuotaTypes /\ NoFutureDays /\ SetAside
  BY <1>1, LimiterAssumption DEF Init, QuotaTypes, NoFutureDays, SetAside, Above, Days
<1>3. ASSUME DailyQuota > 0, NEW d \in Days PROVE Room(d)
  <2>1. Checked(d) = 0
    BY DEF Init, Checked
  <2> QED
    BY <1>3, <2>1, BatchesBound, LimiterAssumption DEF Room
<1> QED
  BY <1>2, <1>3 DEF QuotaInv

\* A step that counts nothing and puts no goroutine past a check of today or of a
\* later day keeps the room.
LEMMA KeepsRoom ==
  ASSUME QuotaInv, DailyQuota > 0, ~readFailed, UNCHANGED <<today, used, unchecked>>,
         \A d \in Days : d >= today => Others(d) \subseteq Others(d)',
         NEW d \in Days
  PROVE  Room(d)'
<1>1. Room(d)
  BY DEF QuotaInv
<1>2. CASE d >= today
  <2>1. Others(d)' \subseteq Requests /\ IsFiniteSet(Others(d)')
    BY LimiterAssumption, FS_Subset DEF Others
  <2>2. Cardinality(Others(d)) \in Nat /\ Cardinality(Others(d)') \in Nat
        /\ Cardinality(Others(d)) <= Cardinality(Others(d)')
    BY <1>2, <2>1, FS_Subset, FS_CardinalityType
  <2>3. MaxBatch * Cardinality(Others(d)) <= MaxBatch * Cardinality(Others(d)')
        /\ MaxBatch * Cardinality(Others(d)) \in Nat
        /\ MaxBatch * Cardinality(Others(d)') \in Nat
    BY <2>2, TimesMonotone, LimiterAssumption
  <2> QED
    BY <1>1, <1>2, <2>3, CheckedFacts, LimiterAssumption DEF Room, Checked
<1>3. CASE ~(d >= today)
  BY <1>1, <1>3 DEF Room, Checked
<1> QED
  BY <1>2, <1>3

\* A new day starts with a count of zero, and no request is past its check.
LEMMA MidnightInv == ASSUME QuotaInv, Midnight PROVE QuotaInv'
<1>1. today' = today + 1 /\ today' \in Days
  BY LimiterAssumption DEF Midnight, Days, QuotaInv, QuotaTypes
<1>2. QuotaTypes' /\ NoFutureDays' /\ SetAside'
  BY <1>1 DEF Midnight, QuotaInv, QuotaTypes, NoFutureDays, SetAside, Above, locals, Days
<1>3. ASSUME DailyQuota > 0, ~readFailed', NEW d \in Days PROVE Room(d)'
  <2>1. Room(d) /\ Checked(d)' = Checked(d) /\ Others(d)' = Others(d)
    BY <1>3 DEF Midnight, QuotaInv, Others, Past, Checked, locals
  <2>2. Checked(d) \in Int /\ today \in Int /\ d \in Int
    BY CheckedFacts DEF QuotaInv, QuotaTypes, Days
  <2> QED
    BY <1>1, <2>1, <2>2, BatchesBound, LimiterAssumption DEF Room
<1> QED
  BY <1>2, <1>3 DEF QuotaInv

\* A step that moves r and counts nothing.
Leaves(r, from, to) ==
  /\ Goto(r, from, to)
  /\ UNCHANGED <<today, used, unchecked, readFailed, day>>

\* A goroutine that leaves Allow, or whose call fails, adds nothing.
LEMMA LeavesInv ==
  ASSUME QuotaInv, NEW r \in Requests, NEW from, NEW to,
         Leaves(r, from, to),
         successes' \in [Requests -> 0 .. MaxBatch],
         to \in {"idle", "token", "ip", "forward", "count"},
         to # "idle" => from \in {"token", "ip", "forward", "count"}
  PROVE  QuotaInv'
<1>1. QuotaTypes' /\ NoFutureDays' /\ SetAside'
  BY DEF QuotaInv, QuotaTypes, NoFutureDays, SetAside, Above, Leaves, Goto
<1>2. \A d \in Days : Others(d) \subseteq Others(d)'
  BY DEF QuotaInv, QuotaTypes, Others, Past, Leaves, Goto
<1>3. ASSUME DailyQuota > 0, ~readFailed', NEW d \in Days PROVE Room(d)'
  BY <1>2, <1>3, KeepsRoom DEF Leaves
<1> QED
  BY <1>1, <1>3 DEF QuotaInv

\* A request that computes its day is not past the check of that day.
LEMMA ArriveInv == ASSUME QuotaInv, NEW r \in Requests, Arrive(r) PROVE QuotaInv'
<1>1. /\ UNCHANGED <<today, used, unchecked, readFailed, successes>>
      /\ day' = [day EXCEPT ![r] = today]
      /\ pc' = [pc EXCEPT ![r] = "quota"]
  BY DEF Arrive, Goto, counts
<1>2. QuotaTypes' /\ NoFutureDays' /\ SetAside'
  BY <1>1 DEF QuotaInv, QuotaTypes, NoFutureDays, SetAside, Above, Days
<1>3. ASSUME DailyQuota > 0, ~readFailed', NEW d \in Days PROVE Room(d)'
  <2>1. Room(d) /\ Checked(d)' = Checked(d) /\ Checked(d) \in Int /\ today \in Int /\ d \in Int
    <3>1. Room(d)
      BY <1>1, <1>3 DEF QuotaInv
    <3>2. Checked(d)' = Checked(d)
      BY <1>1 DEF Checked
    <3> QED
      BY <3>1, <3>2, CheckedFacts DEF QuotaInv, QuotaTypes, Days
  <2>2. CASE d > today
    <3>1. Checked(d)' <= 0
      BY <1>1, <2>1, <2>2, CheckedFacts DEF QuotaInv, NoFutureDays
    <3>2. Others(d)' \subseteq Requests /\ IsFiniteSet(Others(d)')
      BY LimiterAssumption, FS_Subset DEF Others
    <3>3. MaxBatch * Cardinality(Others(d)') \in Nat
      BY <3>2, FS_CardinalityType, TimesMonotone, LimiterAssumption
    <3> QED
      BY <1>1, <1>3, <2>1, <2>2, <3>1, <3>3, LimiterAssumption DEF Room
  <2>3. CASE d = today
    <3>1. Others(d) \subseteq Others(d)'
      BY <1>1, <2>1, <2>3 DEF QuotaInv, QuotaTypes, Others, Past
    <3>2. Others(d)' \subseteq Requests /\ IsFiniteSet(Others(d)')
      BY LimiterAssumption, FS_Subset DEF Others
    <3>3. Cardinality(Others(d)) \in Nat /\ Cardinality(Others(d)') \in Nat
          /\ Cardinality(Others(d)) <= Cardinality(Others(d)')
      BY <3>1, <3>2, FS_Subset, FS_CardinalityType
    <3>4. MaxBatch * Cardinality(Others(d)) <= MaxBatch * Cardinality(Others(d)')
          /\ MaxBatch * Cardinality(Others(d)) \in Nat
          /\ MaxBatch * Cardinality(Others(d)') \in Nat
      BY <3>3, TimesMonotone, LimiterAssumption
    <3> QED
      BY <1>1, <2>1, <2>3, <3>4, LimiterAssumption DEF Room
  <2>4. CASE d < today
    BY <1>1, <2>1, <2>4 DEF Room
  <2> QED
    BY <2>1, <2>2, <2>3, <2>4
<1> QED
  BY <1>2, <1>3 DEF QuotaInv

\* A request passes the check only while the count is below the quota.
LEMMA CheckQuotaInv == ASSUME QuotaInv, NEW r \in Requests, CheckQuota(r) PROVE QuotaInv'
<1>1. CASE ~WithinQuota(day[r])
  <2>1. Leaves(r, "quota", "idle") /\ successes' = successes
    BY <1>1 DEF CheckQuota, Leaves, counts, locals
  <2> QED
    BY <2>1, LeavesInv DEF QuotaInv, QuotaTypes
<1>2. CASE WithinQuota(day[r])
  <2>1. /\ UNCHANGED <<today, used, unchecked, readFailed, successes, day>>
        /\ pc[r] = "quota" /\ pc' = [pc EXCEPT ![r] = "token"]
    BY <1>2 DEF CheckQuota, Goto, counts, locals
  <2>2. QuotaTypes' /\ NoFutureDays' /\ SetAside'
    BY <2>1 DEF QuotaInv, QuotaTypes, NoFutureDays, SetAside, Above
  <2>3. ASSUME DailyQuota > 0, ~readFailed', NEW d \in Days PROVE Room(d)'
    <3>1. /\ Room(d) /\ today \in Int /\ d \in Int
          /\ day[r] \in Int /\ day[r] <= today
          /\ Checked(d)' = Checked(d) /\ Checked(d) \in Int /\ Checked(d) <= used[d]
      BY <2>1, <2>3, CheckedFacts DEF QuotaInv, QuotaTypes, NoFutureDays, Days, Checked
    <3>2. Others(d)' \subseteq Requests /\ IsFiniteSet(Others(d)')
      BY LimiterAssumption, FS_Subset DEF Others
    <3>3. MaxBatch * Cardinality(Others(d)') \in Nat
      BY <3>2, FS_CardinalityType, TimesMonotone, LimiterAssumption
    <3>4. CASE d = day[r]
      <4>1. used[d] < DailyQuota /\ used[d] \in Nat
        BY <1>2, <2>3, <3>4 DEF WithinQuota, QuotaInv, QuotaTypes
      <4> QED
        BY <2>1, <3>1, <3>3, <4>1, BatchesBound, LimiterAssumption DEF Room
    <3>5. CASE d >= today /\ d # day[r]
      <4>1. Past(d)' = Past(d)
        BY <2>1, <3>1, <3>5 DEF QuotaInv, QuotaTypes, Past
      <4> QED
        BY <2>1, <3>1, <4>1 DEF Room, Others
    <3>6. CASE d < today
      BY <2>1, <3>1, <3>6 DEF Room
    <3> QED
      BY <3>1, <3>4, <3>5, <3>6
  <2> QED
    BY <2>2, <2>3 DEF QuotaInv
<1> QED
  BY <1>1, <1>2

\* A request may pass unchecked only after a failed lookup.
LEMMA QuotaUnknownInv == ASSUME QuotaInv, NEW r \in Requests, QuotaUnknown(r) PROVE QuotaInv'
<1>1. readFailed' = TRUE
  BY DEF QuotaUnknown
<1>2. QuotaTypes' /\ NoFutureDays' /\ SetAside'
  BY DEF QuotaUnknown, Goto, QuotaInv, QuotaTypes, NoFutureDays, SetAside, Above, locals
<1> QED
  BY <1>1, <1>2 DEF QuotaInv

\* IncrSuccess adds at most the one batch its goroutine still had.
LEMMA CountInv == ASSUME QuotaInv, NEW r \in Requests, Count(r) PROVE QuotaInv'
<1>1. /\ UNCHANGED <<today, unchecked, readFailed, day>>
      /\ used' = [used EXCEPT ![today] = used[today] + successes[r]]
      /\ successes' = [successes EXCEPT ![r] = 0]
      /\ pc[r] = "count" /\ pc' = [pc EXCEPT ![r] = "idle"]
  BY DEF Count, Goto
<1>2. QuotaTypes'
  BY <1>1, LimiterAssumption DEF QuotaInv, QuotaTypes
<1>3. NoFutureDays' /\ SetAside'
  <2>1. NoFutureDays'
    BY <1>1 DEF QuotaInv, QuotaTypes, NoFutureDays, Days
  <2>2. ASSUME NEW d \in Days PROVE unchecked'[d] <= Above(used'[d])
    <3>1. used'[d] >= used[d] /\ used'[d] \in Nat
      BY <1>1, <1>2, LimiterAssumption DEF QuotaInv, QuotaTypes
    <3>2. unchecked'[d] <= Above(used[d]) /\ unchecked'[d] \in Nat
      BY <1>1, <1>2 DEF QuotaInv, QuotaTypes, SetAside
    <3> QED
      BY <3>1, <3>2, LimiterAssumption DEF Above, QuotaInv, QuotaTypes
  <2> QED
    BY <2>1, <2>2 DEF SetAside, Above
<1>4. ASSUME DailyQuota > 0, ~readFailed', NEW d \in Days PROVE Room(d)'
  <2>1. /\ Room(d) /\ Checked(d) \in Int /\ today \in Int /\ d \in Int
        /\ successes[r] \in 0 .. MaxBatch
    BY <1>1, <1>4, CheckedFacts DEF QuotaInv, QuotaTypes, Days
  <2>2. Others(d)' = Others(d) \union {r} /\ r \notin Others(d)
    BY <1>1 DEF QuotaInv, QuotaTypes, Others, Past
  <2>3. Cardinality(Others(d)') = Cardinality(Others(d)) + 1
    BY <2>2, OthersFinite, FS_AddElement
  <2>4. MaxBatch * Cardinality(Others(d)') = MaxBatch * Cardinality(Others(d)) + MaxBatch
    BY <2>3, OthersFinite, TimesSuccessor, LimiterAssumption
  <2>5. /\ Checked(d)' <= Checked(d) + MaxBatch
        /\ d # today => Checked(d)' = Checked(d)
    BY <1>1, <2>1, LimiterAssumption DEF QuotaInv, QuotaTypes, Checked
  <2>6. Checked(d)' \in Int
    BY <1>2 DEF QuotaTypes, Checked
  <2> QED
    BY <1>1, <2>1, <2>4, <2>5, <2>6, BatchesBound, LimiterAssumption DEF Room
<1> QED
  BY <1>2, <1>3, <1>4 DEF QuotaInv

\* What a push adds above the quota is set aside, what it adds below is within it.
LEMMA PushInv == ASSUME QuotaInv, Push PROVE QuotaInv'
<1> DEFINE u == used[today]
           a == Above(u + PushUnits) - Above(u)
<1>1. /\ UNCHANGED <<today, readFailed, pc, day, successes>>
      /\ used' = [used EXCEPT ![today] = u + PushUnits]
      /\ unchecked' = [unchecked EXCEPT ![today] = unchecked[today] + a]
  <2>1. unchecked[today] + Above(u + PushUnits) - Above(u) = unchecked[today] + a
    BY LimiterAssumption DEF QuotaInv, QuotaTypes, Above
  <2> QED
    BY <2>1 DEF Push, locals
<1>2. u \in Nat /\ a \in Nat /\ today \in Days
  BY LimiterAssumption DEF QuotaInv, QuotaTypes, Above
<1>3. QuotaTypes'
  BY <1>1, <1>2, LimiterAssumption DEF QuotaInv, QuotaTypes
<1>4. NoFutureDays'
  BY <1>1 DEF QuotaInv, QuotaTypes, NoFutureDays, Days
<1>5. ASSUME NEW d \in Days PROVE unchecked'[d] <= Above(used'[d])
  <2>1. unchecked[d] <= Above(used[d]) /\ unchecked[d] \in Nat
    BY DEF QuotaInv, QuotaTypes, SetAside
  <2>2. CASE d = today
    <3>1. unchecked'[d] = unchecked[d] + a /\ used'[d] = u + PushUnits /\ used[d] = u
      BY <1>1, <1>2, <2>2 DEF QuotaInv, QuotaTypes
    <3> QED
      BY <1>2, <2>1, <3>1, LimiterAssumption DEF Above
  <2>3. CASE d # today
    BY <1>1, <2>1, <2>3 DEF QuotaInv, QuotaTypes
  <2> QED
    BY <2>2, <2>3
<1>6. ASSUME DailyQuota > 0, ~readFailed', NEW d \in Days PROVE Room(d)'
  <2>1. Room(d) /\ Others(d)' = Others(d) /\ today \in Int /\ d \in Int
    BY <1>1, <1>6 DEF QuotaInv, QuotaTypes, Others, Past, Days
  <2>2. CASE d = today
    <3>1. /\ Checked(d)' = (u + PushUnits) - (unchecked[d] + a) /\ Checked(d) = u - unchecked[d]
          /\ unchecked[d] \in Nat /\ unchecked[d] <= Above(u)
      <4>1. used'[d] = u + PushUnits /\ unchecked'[d] = unchecked[d] + a /\ used[d] = u
        BY <1>1, <1>2, <2>2 DEF QuotaInv, QuotaTypes
      <4>2. unchecked[d] \in Nat /\ unchecked[d] <= Above(used[d])
        BY DEF QuotaInv, QuotaTypes, SetAside
      <4>3. unchecked[d] <= Above(u)
        BY <4>1, <4>2 DEF Above
      <4> HIDE DEF u, a
      <4>4. Checked(d)' = (u + PushUnits) - (unchecked[d] + a)
        BY <4>1 DEF Checked
      <4>5. Checked(d) = u - unchecked[d]
        BY <4>1 DEF Checked
      <4> QED
        BY <4>2, <4>3, <4>4, <4>5
    <3>2. Checked(d)' <= DailyQuota - 1 \/ Checked(d)' <= Checked(d)
      BY <1>2, <1>6, <3>1, LimiterAssumption DEF Above
    <3>3. Checked(d)' \in Int /\ Checked(d) \in Int
      BY <1>2, <3>1, LimiterAssumption
    <3> QED
      BY <1>1, <2>1, <2>2, <3>2, <3>3, BatchesBound, LimiterAssumption DEF Room
  <2>3. CASE d # today
    <3>1. Checked(d)' = Checked(d)
      BY <1>1, <2>3 DEF QuotaInv, QuotaTypes, Checked
    <3> QED
      BY <1>1, <2>1, <3>1 DEF Room
  <2> QED
    BY <2>2, <2>3
<1> QED
  BY <1>3, <1>4, <1>5, <1>6 DEF QuotaInv, SetAside, Above

\* Every step of Allow, IncrSuccess and of time keeps the invariant.
LEMMA QuotaStep == QuotaInv /\ [Next]_vars => QuotaInv'
<1> SUFFICES ASSUME QuotaInv, [Next]_vars PROVE QuotaInv'
  OBVIOUS
<1> USE DEF counts, locals
<1>1. CASE Second \/ (\E r \in Requests : ClientLeaves(r)) \/ UNCHANGED vars
  <2>1. UNCHANGED <<today, used, unchecked, readFailed, pc, day, successes>>
    BY <1>1 DEF Second, ClientLeaves, vars
  <2> QED
    BY <2>1
       DEF QuotaInv, QuotaTypes, NoFutureDays, SetAside, Above, Room, Checked, Others, Past
<1>2. CASE Midnight
  BY <1>2, MidnightInv
<1>3. ASSUME NEW r \in Requests, Arrive(r) PROVE QuotaInv'
  BY <1>3, ArriveInv
<1>4. ASSUME NEW r \in Requests, Allow(r) PROVE QuotaInv'
  <2>1. CASE CheckQuota(r)
    BY <2>1, CheckQuotaInv
  <2>2. CASE QuotaUnknown(r)
    BY <2>2, QuotaUnknownInv
  <2>3. CASE PassToken(r)
    <3>1. Leaves(r, "token", "ip") /\ successes' = successes
      BY <2>3 DEF PassToken, Leaves
    <3> QED
      BY <3>1, LeavesInv DEF QuotaInv, QuotaTypes
  <2>4. CASE RejectToken(r)
    <3>1. Leaves(r, "token", "idle") /\ successes' = successes
      BY <2>4 DEF RejectToken, Leaves
    <3> QED
      BY <3>1, LeavesInv DEF QuotaInv, QuotaTypes
  <2>5. CASE PassIp(r)
    <3>1. Leaves(r, "ip", "forward") /\ successes' = successes
      BY <2>5 DEF PassIp, Leaves
    <3> QED
      BY <3>1, LeavesInv DEF QuotaInv, QuotaTypes
  <2>6. CASE RejectIp(r)
    <3>1. Leaves(r, "ip", "idle") /\ successes' = successes
      BY <2>6 DEF RejectIp, Leaves
    <3> QED
      BY <3>1, LeavesInv DEF QuotaInv, QuotaTypes
  <2> QED
    BY <1>4, <2>1, <2>2, <2>3, <2>4, <2>5, <2>6 DEF Allow
<1>5. ASSUME NEW r \in Requests, NEW n \in 0 .. MaxBatch, Answer(r, n) PROVE QuotaInv'
  <2>1. Leaves(r, "forward", IF n > 0 THEN "count" ELSE "idle")
    BY <1>5 DEF Answer, Leaves
  <2>2. successes' \in [Requests -> 0 .. MaxBatch]
    BY <1>5 DEF Answer, QuotaInv, QuotaTypes
  <2> QED
    BY <2>1, <2>2, LeavesInv
<1>6. ASSUME NEW r \in Requests, Count(r) PROVE QuotaInv'
  BY <1>6, CountInv
<1>7. ASSUME NEW r \in Requests, CountLost(r) PROVE QuotaInv'
  <2>1. Leaves(r, "count", "idle")
    BY <1>7 DEF CountLost, Leaves
  <2>2. successes' \in [Requests -> 0 .. MaxBatch]
    BY <1>7, LimiterAssumption DEF CountLost, QuotaInv, QuotaTypes
  <2> QED
    BY <2>1, <2>2, LeavesInv
<1>8. CASE Push
  BY <1>8, PushInv
<1> QED
  BY <1>1, <1>2, <1>3, <1>4, <1>5, <1>6, <1>7, <1>8 DEF Next

\* The invariant bounds the counts of all days.
LEMMA QuotaInvImplies == QuotaInv => OvershootBounded
<1> SUFFICES ASSUME QuotaInv, DailyQuota > 0, ~readFailed, NEW d \in Days
             PROVE  Checked(d) <= DailyQuota - 1 + MaxBatch * Cardinality(Requests)
  BY DEF OvershootBounded, Checked
<1>1. Room(d) /\ Checked(d) \in Int
  BY CheckedFacts DEF QuotaInv
<1> QED
  BY <1>1, BatchesBound, LimiterAssumption DEF Room

(***************************************************************************)
(* As long as no quota lookup fails, the successes of requests counted on  *)
(* a day exceed the quota by less than one batch per request under way,    *)
(* whatever the interleaving of Allow, the upstream calls, IncrSuccess,    *)
(* the pushes and midnight; beyond that only pushes count, for which       *)
(* IncrSuccess is called without a check.                                  *)
(***************************************************************************)
THEOREM OvershootIsBounded == Spec => []OvershootBounded
<1> QED
  BY QuotaInit, QuotaStep, QuotaInvImplies, PTL DEF Spec
=============================================================================
