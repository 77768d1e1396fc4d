--------------------------- MODULE Balancer_proofs ---------------------------
(***************************************************************************)
(* What holds of internal/balancer for any number of nodes, weights and    *)
(* reporters: Next and NextWS pick by weighted round robin, and, as long   *)
(* as no two reports have overlapped, the healthy flag of a node agrees    *)
(* with its counters and the reports implement the circuit breaker.        *)
(***************************************************************************)
EXTENDS NodePool, NodeHealth, FiniteSetTheorems, WellFoundedInduction, TLAPS

Node == [weight : Nat \ {0}, ws : BOOLEAN, healthy : BOOLEAN]

\* buildNodes keeps the number of nodes and makes every weight positive.
LEMMA BuiltNodes ==
  ASSUME NEW cfgs \in NodeConfigs
  PROVE  buildNodes(cfgs) \in Seq(Node) /\ buildNodes(cfgs) # <<>>
<1>1. cfgs \in Seq([weight : Int, ws : BOOLEAN]) /\ cfgs # <<>>
  BY ConfigAssumption
<1>2. PICK n \in Nat \ {0} : n = Len(cfgs) /\ DOMAIN cfgs = 1 .. n
  <2>1. Len(cfgs) \in Nat /\ DOMAIN cfgs = 1 .. Len(cfgs) /\ Len(cfgs) # 0
    BY <1>1
  <2> QED
    BY <2>1
<1>3. \A i \in 1 .. n : cfgs[i].weight \in Int /\ cfgs[i].ws \in BOOLEAN
  <2> DEFINE C == [weight : Int, ws : BOOLEAN]
  <2>1. \A i \in 1 .. n : cfgs[i] \in C
    <3>1. cfgs \in Seq(C)
      BY <1>1
    <3> HIDE DEF C
    <3> QED
      BY <1>2, <3>1
  <2>2. \A c \in [weight : Int, ws : BOOLEAN] : c.weight \in Int /\ c.ws \in BOOLEAN
    OBVIOUS
  <2> QED
    BY <2>1, <2>2
<1>4. \A i \in 1 .. n : ClampedWeight(cfgs[i].weight) \in Nat \ {0}
  BY <1>3 DEF ClampedWeight
<1>5. buildNodes(cfgs) \in [1 .. n -> Node]
  BY <1>2, <1>3, <1>4 DEF buildNodes, Node
<1>6. 1 \in DOMAIN buildNodes(cfgs)
  BY <1>2, <1>5
<1> QED
  BY <1>5, <1>6

\* TypeOK, with the set of nodes named.
Typed ==
  /\ nodes \in Seq(Node) /\ nodes # <<>>
  /\ rr \in Nat
  /\ call \in {"none", "http", "ws"}
  /\ scanned \in 0 .. Len(nodes)
  /\ candidates \subseteq AllNodes
  /\ disturbed \in BOOLEAN
  /\ turn \in Seq(Picks)

\* Between two calls the loop's variables are at their start.
Idle == call = "none" => scanned = 0 /\ candidates = {} /\ ~disturbed

\* The nodes of the pool by their fields.
LEMMA NodeFields ==
  ASSUME Typed
  PROVE  /\ AllNodes = 1 .. Len(nodes) /\ Len(nodes) \in Nat \ {0}
         /\ \A i \in AllNodes : /\ nodes[i] \in Node /\ nodes[i].weight \in Nat \ {0}
                                /\ nodes[i].ws \in BOOLEAN /\ nodes[i].healthy \in BOOLEAN
<1>1. nodes \in Seq(Node) /\ nodes # <<>>
  BY DEF Typed
<1>2. Len(nodes) \in Nat /\ Len(nodes) # 0 /\ DOMAIN nodes = 1 .. Len(nodes)
  BY <1>1
<1>3. \A i \in 1 .. Len(nodes) : nodes[i] \in Node
  BY <1>1, <1>2
<1>4. \A n \in Node : n.weight \in Nat \ {0} /\ n.ws \in BOOLEAN /\ n.healthy \in BOOLEAN
  BY DEF Node
<1> QED
  BY <1>2, <1>3, <1>4 DEF AllNodes

----------------------------------------------------------------------------
(* Tickets and cursors *)

LEMMA TicketsFinite ==
  ASSUME Typed, NEW S \in SUBSET AllNodes
  PROVE  IsFiniteSet(Tickets(S)) /\ WeightOf(S) \in Nat
<1> DEFINE Of(i) == {i} \X (1 .. nodes[i].weight)
           Sets == {Of(i) : i \in S}
<1>1. IsFiniteSet(S)
  <2>1. IsFiniteSet(AllNodes)
    <3>1. 1 \in Int /\ Len(nodes) \in Int
      BY NodeFields
    <3> QED
      BY <3>1, NodeFields, FS_Interval
  <2> QED
    BY <2>1, FS_Subset
<1>2. \A i \in S : IsFiniteSet(Of(i))
  <2> TAKE i \in S
  <2>1. PICK w \in Nat : w = nodes[i].weight
    BY NodeFields
  <2>2. IsFiniteSet(1 .. w)
    BY 1 \in Int, w \in Int, FS_Interval
  <2>3. IsFiniteSet({i})
    BY FS_Singleton
  <2> QED
    BY <2>1, <2>2, <2>3, FS_Product
<1>3. IsFiniteSet(Sets)
  <2>1. [i \in S |-> Of(i)] \in Surjection(S, Sets)
    BY DEF Surjection
  <2> HIDE DEF Sets, Of
  <2> QED
    BY <1>1, <2>1, FS_Surjection
<1>4. IsFiniteSet(UNION Sets)
  <2>1. \A T \in Sets : IsFiniteSet(T)
    BY <1>2
  <2> HIDE DEF Sets
  <2> QED
    BY <1>3, <2>1, FS_UNION
<1>5. IsFiniteSet(Tickets(S))
  BY <1>4 DEF Tickets
<1> QED
  BY <1>5, FS_CardinalityType DEF WeightOf

\* A node adds its own weight to those before it.
LEMMA WeightAdds ==
  ASSUME Typed, NEW S \in SUBSET AllNodes, NEW i \in AllNodes, i \notin S
  PROVE  WeightOf(S \union {i}) = WeightOf(S) + nodes[i].weight
<1> DEFINE new == {i} \X (1 .. nodes[i].weight)
<1>1. PICK w \in Nat : w = nodes[i].weight
  BY NodeFields
<1>2. IsFiniteSet(new) /\ Cardinality(new) = w
  <2>1. IsFiniteSet(1 .. w) /\ Cardinality(1 .. w) = IF 1 > w THEN 0 ELSE w - 1 + 1
    BY 1 \in Int, w \in Int, FS_Interval
  <2>2. IsFiniteSet({i}) /\ Cardinality({i}) = 1
    BY FS_Singleton
  <2>3. IsFiniteSet(new) /\ Cardinality(new) = 1 * Cardinality(1 .. w)
    BY <1>1, <2>1, <2>2, FS_Product
  <2> QED
    BY <2>1, <2>3
<1>3. Tickets(S \union {i}) = Tickets(S) \union new
  BY DEF Tickets
<1>4. Tickets(S) \cap new = {}
  BY DEF Tickets
<1> HIDE DEF new
<1>5. IsFiniteSet(Tickets(S)) /\ Cardinality(Tickets(S)) \in Nat
  BY TicketsFinite DEF WeightOf
<1>6. Cardinality(Tickets(S) \union new)
        = Cardinality(Tickets(S)) + Cardinality(new) - Cardinality(Tickets(S) \cap new)
  BY <1>2, <1>5, FS_Union
<1>7. Cardinality(Tickets(S) \cap new) = 0
  BY <1>4, FS_EmptySet
<1>8. Cardinality(Tickets(S \union {i})) = Cardinality(Tickets(S)) + w
  <2>1. Cardinality(Tickets(S \union {i})) = Cardinality(Tickets(S) \union new)
    BY <1>3
  <2>2. \A c \in Nat : c + w - 0 = c + w
    OBVIOUS
  <2> QED
    BY <1>2, <1>5, <1>6, <1>7, <2>1, <2>2
<1> QED
  BY <1>1, <1>8 DEF WeightOf

LEMMA WeightOfNone == WeightOf({}) = 0
<1>1. Tickets({}) = {}
  BY DEF Tickets
<1> QED
  BY <1>1, FS_EmptySet DEF WeightOf

LEMMA WeightPositive ==
  ASSUME Typed, NEW S \in SUBSET AllNodes, S # {}
  PROVE  WeightOf(S) \in Nat \ {0}
<1>1. PICK i \in S : TRUE
  OBVIOUS
<1>2. /\ S \ {i} \in SUBSET AllNodes /\ i \in AllNodes /\ i \notin S \ {i}
      /\ S = (S \ {i}) \union {i}
  BY <1>1
<1>3. WeightOf(S) = WeightOf(S \ {i}) + nodes[i].weight
  BY <1>2, WeightAdds
<1>4. WeightOf(S \ {i}) \in Nat /\ nodes[i].weight \in Nat \ {0}
  BY <1>2, TicketsFinite, NodeFields
<1> QED
  BY <1>3, <1>4

----------------------------------------------------------------------------
(* The first candidate whose cursor exceeds the counter *)

\* Every set of naturals that is not empty has a least element.
LEMMA LeastNat == ASSUME NEW S \in SUBSET Nat, S # {} PROVE \E m \in S : \A n \in S : m <= n
<1> DEFINE R == {p \in Nat \X Nat : p[1] < p[2]}
<1>1. IsWellFoundedOn(R, Nat)
  <2>1. R = OpToRel(<, Nat)
    BY DEF OpToRel
  <2> QED
    BY <2>1, NatLessThanWellFounded
<1>2. \E m \in S : \A n \in S : <<n, m>> \notin R
  <2> HIDE DEF R
  <2> QED
    BY <1>1, WFMin
<1>3. \A m, n \in S : <<n, m>> \notin R => m <= n
  BY DEF R
<1> QED
  BY <1>2, <1>3

\* So every bounded one that is not empty has a greatest.
LEMMA GreatestNat ==
  ASSUME NEW n \in Nat, NEW S \in SUBSET (1 .. n), S # {}
  PROVE  \E m \in S : \A k \in S : k <= m
<1> DEFINE D == {n - k : k \in S}
<1>1. D \in SUBSET Nat /\ D # {}
  <2>1. \A k \in S : n - k \in Nat
    OBVIOUS
  <2>2. PICK k \in S : TRUE
    OBVIOUS
  <2>3. n - k \in D
    OBVIOUS
  <2> QED
    BY <2>1, <2>3
<1>2. PICK d \in D : \A e \in D : d <= e
  <2> HIDE DEF D
  <2> QED
    BY <1>1, LeastNat
<1>3. PICK m \in S : d = n - m
  OBVIOUS
<1>4. \A k \in S : n - m <= n - k
  BY <1>2, <1>3
<1> QED
  BY <1>4

LEMMA LeastIsMin ==
  ASSUME NEW S \in SUBSET Nat, S # {}
  PROVE  Min(S) \in S /\ \A n \in S : Min(S) <= n
BY LeastNat DEF Min

\* It exists, its cursor exceeds the counter, and that of the ones before it does not.
LEMMA CursorFound ==
  ASSUME Typed, NEW S \in SUBSET AllNodes, S # {}, NEW v \in 0 .. WeightOf(S) - 1
  PROVE  LET i == AtCursor(S, v) IN
         /\ i \in S
         /\ WeightOf({j \in S : j < i}) <= v
         /\ v < WeightOf({j \in S : j < i}) + nodes[i].weight
<1> DEFINE M == {i \in S : v < Cursor(S, i)}
           upto(i) == {j \in S : j <= i}
           below(i) == {j \in S : j < i}
<1>1. WeightOf(S) \in Nat /\ S \subseteq 1 .. Len(nodes) /\ Len(nodes) \in Nat /\ v \in Nat
  BY NodeFields, TicketsFinite
<1>8. \A k \in S : k \in Nat /\ k \in AllNodes
  BY <1>1
<1>2. M # {}
  <2>1. PICK m \in S : \A k \in S : k <= m
    BY <1>1, GreatestNat
  <2>2. upto(m) = S
    BY <2>1
  <2>3. Cursor(S, m) = WeightOf(S)
    BY <2>2 DEF Cursor
  <2> QED
    BY <1>1, <2>3
<1>3. AtCursor(S, v) \in M /\ \A k \in M : AtCursor(S, v) <= k
  <2>1. AtCursor(S, v) = Min(M)
    BY DEF AtCursor
  <2>3. M \in SUBSET Nat
    <3>1. \A k \in M : k \in Nat
      BY <1>8
    <3> QED
      BY <3>1
  <2> HIDE DEF M
  <2> QED
    BY <1>2, <2>1, <2>3, LeastIsMin
<1>4. PICK i \in S : i = AtCursor(S, v)
  BY <1>3
<1>5. WeightOf(upto(i)) = WeightOf(below(i)) + nodes[i].weight
  <2>1. upto(i) = below(i) \union {i} /\ below(i) \in SUBSET AllNodes /\ i \notin below(i)
        /\ i \in AllNodes
    BY <1>8
  <2> HIDE DEF upto, below
  <2> QED
    BY <2>1, WeightAdds
<1>6. WeightOf(below(i)) <= v
  <2>1. CASE below(i) = {}
    BY <1>1, <2>1, WeightOfNone
  <2>2. CASE below(i) # {}
    <3>1. below(i) \in SUBSET (1 .. Len(nodes))
      BY <1>1
    <3>2. PICK m \in below(i) : \A k \in below(i) : k <= m
      <4> HIDE DEF below
      <4> QED
        BY <1>1, <2>2, <3>1, GreatestNat
    <3>3. upto(m) = below(i) /\ m \in S /\ m < i
      <4>1. m \in S /\ m < i
        OBVIOUS
      <4>2. \A k \in S : k <= m <=> k < i
        BY <1>8, <3>2, <4>1
      <4> QED
        BY <4>1, <4>2
    <3>4. m \notin M
      BY <1>1, <1>3, <1>4, <3>3
    <3>5. ~(v < WeightOf(upto(m)))
      BY <3>3, <3>4 DEF Cursor
    <3>6. WeightOf(upto(m)) \in Nat
      <4>1. upto(m) \in SUBSET AllNodes
        OBVIOUS
      <4> HIDE DEF upto
      <4> QED
        BY <4>1, TicketsFinite
    <3>7. WeightOf(upto(m)) <= v
      BY <1>1, <3>5, <3>6
    <3> QED
      BY <3>3, <3>7
  <2> QED
    BY <2>1, <2>2
<1>7. v < WeightOf(upto(i))
  BY <1>3, <1>4 DEF Cursor
<1> QED
  BY <1>4, <1>5, <1>6, <1>7

----------------------------------------------------------------------------
(* Types *)

\* A pick returns one of the nodes and leaves a counter below the total weight.
LEMMA PickFound ==
  ASSUME Typed, NEW S \in SUBSET AllNodes, S # {}, PickWeighted(S)
  PROVE  /\ rr' = (rr + 1) % WeightOf(S) /\ rr' \in 0 .. WeightOf(S) - 1
         /\ AtCursor(S, rr') \in S /\ Return(AtCursor(S, rr'))
<1>1. WeightOf(S) \in Nat \ {0} /\ rr \in Nat
  BY WeightPositive DEF Typed
<1>2. rr' = (rr + 1) % WeightOf(S) /\ Return(AtCursor(S, rr'))
  BY DEF PickWeighted
<1>3. \A r, W \in Nat : W > 0 => (r + 1) % W \in 0 .. W - 1
  OBVIOUS
<1>4. rr' \in 0 .. WeightOf(S) - 1
  BY <1>1, <1>2, <1>3
<1>5. PICK v \in 0 .. WeightOf(S) - 1 : v = rr'
  BY <1>4
<1>6. AtCursor(S, v) \in S
  BY CursorFound
<1> QED
  BY <1>2, <1>4, <1>5, <1>6

LEMMA LatestType ==
  ASSUME NEW s \in Seq(Picks), NEW n \in Nat \ {0}, s # <<>>
  PROVE  /\ Latest(s, n) \in Seq(Picks) /\ Latest(s, n) # <<>>
         /\ Len(Latest(s, n)) = IF Len(s) <= n THEN Len(s) ELSE n
         /\ \A j \in 1 .. Len(Latest(s, n)) :
              Latest(s, n)[j] = s[j + (Len(s) - Len(Latest(s, n)))]
<1>1. Len(s) \in Nat \ {0}
  OBVIOUS
<1>2. CASE Len(s) <= n
  BY <1>1, <1>2 DEF Latest
<1>3. CASE Len(s) > n
  <2> DEFINE m == Len(s) - n + 1
  <2>1. m \in Nat /\ m >= 1 /\ m <= Len(s) /\ Latest(s, n) = SubSeq(s, m, Len(s))
    BY <1>1, <1>3 DEF Latest
  <2>2. SubSeq(s, m, Len(s)) \in Seq(Picks) /\ Len(SubSeq(s, m, Len(s))) = Len(s) - m + 1
    BY <1>1, <2>1
  <2>3. \A j \in 1 .. Len(s) - m + 1 : SubSeq(s, m, Len(s))[j] = s[m + j - 1]
    BY <1>1, <2>1
  <2>4. Len(s) - m + 1 = n /\ \A j \in 1 .. n : m + j - 1 = j + (Len(s) - n)
    BY <1>1
  <2>5. PICK t : t = SubSeq(s, m, Len(s))
    OBVIOUS
  <2>6. t \in Seq(Picks) /\ Len(t) = n /\ \A j \in 1 .. n : t[j] = s[j + (Len(s) - n)]
    <3> HIDE DEF m
    <3> QED
      BY <2>2, <2>3, <2>4, <2>5
  <2>7. t # <<>>
    BY <2>6
  <2> QED
    BY <1>1, <1>3, <2>1, <2>5, <2>6, <2>7
<1> QED
  BY <1>1, <1>2, <1>3

LEMMA PeriodNat ==
  ASSUME Typed, NEW kind
  PROVE  /\ Period(kind) \in Nat
         /\ HealthyOf(kind) # {} \/ kind = "http" \/ WsNodes # {} => Period(kind) # 0
<1>1. HealthyOf(kind) \in SUBSET AllNodes /\ WsNodes \in SUBSET AllNodes
  BY DEF HealthyOf, WsNodes
<1>2. Len(nodes) \in Nat \ {0}
  BY NodeFields
<1>3. /\ WeightOf(HealthyOf(kind)) \in Nat /\ WeightOf(WsNodes) \in Nat
      /\ HealthyOf(kind) # {} => WeightOf(HealthyOf(kind)) # 0
      /\ WsNodes # {} => WeightOf(WsNodes) # 0
  BY <1>1, TicketsFinite, WeightPositive
<1> QED
  BY <1>2, <1>3 DEF Period

\* The call returns a node (Next, NextWS) and its pick is recorded.
LEMMA ReturnTyped ==
  ASSUME Typed, NEW i \in AllNodes, call \in {"http", "ws"}, Return(i), rr' \in Nat
  PROVE  Typed'
<1>1. nodes' = nodes /\ call' = "none" /\ scanned' = 0 /\ candidates' = {} /\ disturbed' = FALSE
  BY DEF Return
<1>2. turn' \in Seq(Picks)
  <2> DEFINE picks == IF turn # <<>> /\ Last(turn).kind # call THEN <<>> ELSE turn
             s == Append(picks, [kind |-> call, node |-> i])
  <2>1. picks \in Seq(Picks) /\ turn' = IF disturbed THEN <<>> ELSE Latest(s, Period(call))
    BY DEF Return, Typed
  <2>2. [kind |-> call, node |-> i] \in Picks
    BY NodeFields DEF Picks
  <2> HIDE DEF picks
  <2>3. s \in Seq(Picks) /\ s # <<>>
    BY <2>1, <2>2
  <2> HIDE DEF s
  <2>4. Latest(s, Period(call)) \in Seq(Picks)
    <3>1. PICK n \in Nat : n = Period(call)
      BY PeriodNat
    <3>2. CASE n = 0
      <4>1. Len(s) \in Nat \ {0}
        BY <2>3
      <4>2. Latest(s, n) = SubSeq(s, Len(s) + 1, Len(s))
        BY <3>2, <4>1 DEF Latest
      <4>3. SubSeq(s, Len(s) + 1, Len(s)) = <<>>
        BY <2>3, <4>1
      <4> QED
        BY <3>1, <4>2, <4>3
    <3>3. CASE n # 0
      BY <2>3, <3>1, <3>3, LatestType
    <3> QED
      BY <3>2, <3>3
  <2> QED
    BY <2>1, <2>4
<1>3. 0 \in 0 .. Len(nodes)
  BY NodeFields
<1> QED
  BY <1>1, <1>2, <1>3 DEF Typed

LEMMA TypesKept == ASSUME Typed, Idle, [PoolNext]_poolVars PROVE Typed'
<1>1. CASE Begin("http") \/ Begin("ws")
  BY <1>1 DEF Typed, Begin, AllNodes
<1>2. CASE Scan
  <2>1. scanned + 1 \in AllNodes /\ scanned + 1 \in 0 .. Len(nodes)
    BY <1>2, NodeFields DEF Scan, Typed
  <2>2. candidates' \subseteq AllNodes
    BY <1>2, <2>1 DEF Typed, Scan
  <2> QED
    BY <1>2, <2>1, <2>2 DEF Typed, Scan, AllNodes
<1>3. ASSUME NEW S \in SUBSET AllNodes, S # {}, call \in {"http", "ws"}, PickWeighted(S)
      PROVE  Typed'
  <2>1. /\ rr' \in 0 .. WeightOf(S) - 1 /\ AtCursor(S, rr') \in AllNodes
        /\ Return(AtCursor(S, rr')) /\ WeightOf(S) \in Nat
    BY <1>3, PickFound, WeightPositive
  <2> QED
    BY <1>3, <2>1, ReturnTyped
<1>4. CASE NextHealthy
  BY <1>3, <1>4 DEF NextHealthy, ScanDone, Typed
<1>5. CASE NextFallback
  <2>1. rr' = (rr + 1) % Len(nodes) /\ Return(rr' + 1) /\ call = "http" /\ rr \in Nat
    BY <1>5 DEF NextFallback, ScanDone, Typed
  <2>2. rr' \in 0 .. Len(nodes) - 1
    BY <2>1, NodeFields
  <2>3. rr' + 1 \in AllNodes /\ rr' \in Nat
    <3>1. PICK n \in Nat : n = Len(nodes) /\ AllNodes = 1 .. n
      BY NodeFields
    <3>2. PICK v \in 0 .. n - 1 : v = rr'
      BY <2>2, <3>1
    <3>3. v + 1 \in 1 .. n /\ v \in Nat
      OBVIOUS
    <3> QED
      BY <3>1, <3>2, <3>3
  <2> QED
    BY <2>1, <2>3, ReturnTyped
<1>6. CASE NextWSHealthy
  BY <1>3, <1>6 DEF NextWSHealthy, ScanDone, Typed
<1>7. CASE NextWSFallback
  BY <1>3, <1>7 DEF NextWSFallback, ScanDone, WsNodes
<1>8. CASE NextWSNone
  <2>1. 0 \in 0 .. Len(nodes)
    BY NodeFields
  <2> QED
    BY <1>8, <2>1 DEF Typed, NextWSNone, AllNodes
<1>9. ASSUME NEW i \in AllNodes, FlipHealth(i) PROVE Typed'
  <2>1. PICK b \in BOOLEAN : b = ~nodes[i].healthy
    OBVIOUS
  <2>2. nodes' = [nodes EXCEPT ![i] = [nodes[i] EXCEPT !.healthy = b]]
    BY <1>9, <2>1 DEF FlipHealth
  <2>3. nodes[i] \in Node
    BY NodeFields
  <2>4. [nodes[i] EXCEPT !.healthy = b] \in Node
    BY <2>3 DEF Node
  <2>5. nodes' \in Seq(Node) /\ Len(nodes') = Len(nodes) /\ nodes' # <<>>
        /\ DOMAIN nodes' = DOMAIN nodes
    BY <2>2, <2>4, NodeFields DEF Typed, AllNodes
  <2> QED
    BY <1>9, <2>5 DEF Typed, FlipHealth, AllNodes
<1>10. ASSUME NEW cfgs \in NodeConfigs, ReplaceNodes(cfgs) PROVE Typed'
  <2>1. nodes' \in Seq(Node) /\ nodes' # <<>>
    BY <1>10, BuiltNodes DEF ReplaceNodes
  <2>2. scanned = 0 /\ candidates = {}
    BY <1>10 DEF ReplaceNodes, Idle
  <2>3. 0 \in 0 .. Len(nodes')
    BY <2>1
  <2> QED
    BY <1>10, <2>1, <2>2, <2>3 DEF Typed, ReplaceNodes, AllNodes
<1>11. CASE UNCHANGED poolVars
  BY <1>11 DEF poolVars, Typed, AllNodes
<1> QED
  BY <1>1, <1>2, <1>4, <1>5, <1>6, <1>7, <1>8, <1>9, <1>10, <1>11 DEF PoolNext

----------------------------------------------------------------------------
(* The turns                                                               *)
(*                                                                         *)
(* The picks of a turn were made at successive values of p.rr, modulo the  *)
(* period, so no two of a period at the same one; and the values at which  *)
(* a node is due lie in an interval as long as its weight.                 *)

\* The value of the counter d picks ago, if there were that many in this period.
Back(period, d) == IF rr >= d THEN rr - d ELSE rr - d + period

\* The node that a pick with each value of the counter returns.
Due(kind) ==
  [v \in Nat |-> CASE HealthyOf(kind) # {} -> AtCursor(HealthyOf(kind), v)
                   [] HealthyOf(kind) = {} /\ kind = "http" -> v + 1
                   [] OTHER -> AtCursor(WsNodes, v)]

\* What the loop has collected, if no flag has changed under it.
Scanned == call # "none" /\ ~disturbed => candidates = {i \in 1 .. scanned : Eligible(i)}

\* The picks were those of the counter's last values, no value twice.
Rotation(kind) ==
  /\ Len(turn) <= Period(kind) /\ rr < Period(kind)
  /\ \A j \in 1 .. Len(turn) : turn[j].node = Due(kind)[Back(Period(kind), Len(turn) - j)]

Turns ==
  turn # <<>> => \E kind \in {"http", "ws"} : Last(turn).kind = kind /\ Rotation(kind)

PoolInv == Typed /\ Idle /\ Scanned /\ Turns

\* Who is due, and how often, depends on the nodes alone.
LEMMA SameNodes ==
  ASSUME nodes' = nodes
  PROVE  \A kind : Due(kind)' = Due(kind) /\ Period(kind)' = Period(kind)
BY DEF Due, Period, AtCursor, Cursor, WeightOf, Tickets, HealthyOf, WsNodes, AllNodes

\* One more pick: values move one place back, and the new one is the counter's.
LEMMA BackMoves ==
  ASSUME NEW W \in Nat \ {0}, NEW d \in 0 .. W - 1, rr \in Nat, rr < W, rr' = (rr + 1) % W
  PROVE  (IF rr' >= d + 1 THEN rr' - (d + 1) ELSE rr' - (d + 1) + W) = Back(W, d)
<1>1. \A r, V \in Nat : r < V => (r + 1) % V = IF r + 1 = V THEN 0 ELSE r + 1
  OBVIOUS
<1>2. rr' = IF rr + 1 = W THEN 0 ELSE rr + 1
  BY <1>1
<1> QED
  BY <1>2 DEF Back

\* t is p with one more pick e: it comes last, the others move one place back.
Continues(t, p, e, W) ==
  /\ t = Latest(Append(p, e), W) /\ t # <<>>
  /\ Len(t) \in 1 .. W /\ t[Len(t)] = e
  /\ \A j \in 1 .. Len(t) - 1 : \E k \in 1 .. Len(p) :
       /\ t[j] = p[k] /\ Len(t) - j = (Len(p) - k) + 1
       /\ Len(p) - k \in 0 .. W - 1

LEMMA OneMorePick ==
  ASSUME NEW p \in Seq(Picks), NEW e \in Picks, NEW W \in Nat \ {0}, Len(p) <= W
  PROVE  \E t \in Seq(Picks) : Continues(t, p, e, W)
<1>1. PICK s \in Seq(Picks), n \in Nat :
        /\ s = Append(p, e) /\ n = Len(p) /\ Len(s) = n + 1 /\ s # <<>>
        /\ s[n + 1] = e /\ \A j \in 1 .. n : s[j] = p[j]
  <2>1. /\ Append(p, e) \in Seq(Picks) /\ Len(p) \in Nat /\ Len(Append(p, e)) = Len(p) + 1
        /\ Append(p, e) # <<>> /\ Append(p, e)[Len(p) + 1] = e
        /\ \A j \in 1 .. Len(p) : Append(p, e)[j] = p[j]
    OBVIOUS
  <2> QED
    BY <2>1
<1>2. PICK t \in Seq(Picks), m \in Nat :
        /\ t = Latest(s, W) /\ t # <<>> /\ m = Len(t)
        /\ m = (IF n + 1 <= W THEN n + 1 ELSE W)
        /\ \A j \in 1 .. m : t[j] = s[j + (n + 1 - m)]
  <2>1. /\ Latest(s, W) \in Seq(Picks) /\ Latest(s, W) # <<>>
        /\ Len(Latest(s, W)) = IF Len(s) <= W THEN Len(s) ELSE W
        /\ \A j \in 1 .. Len(Latest(s, W)) :
             Latest(s, W)[j] = s[j + (Len(s) - Len(Latest(s, W)))]
    BY <1>1, LatestType
  <2>2. PICK t \in Seq(Picks) : t = Latest(s, W)
    BY <2>1
  <2>3. PICK m \in Nat : m = Len(t)
    OBVIOUS
  <2>4. t # <<>> /\ m = (IF n + 1 <= W THEN n + 1 ELSE W)
    BY <1>1, <2>1, <2>2, <2>3
  <2>5. \A j \in 1 .. m : t[j] = s[j + (n + 1 - m)]
    <3> TAKE j \in 1 .. m
    <3>1. j \in 1 .. Len(Latest(s, W)) /\ Len(s) - Len(Latest(s, W)) = n + 1 - m
      BY <1>1, <2>2, <2>3
    <3>2. Latest(s, W)[j] = s[j + (Len(s) - Len(Latest(s, W)))]
      BY <2>1, <3>1
    <3> QED
      BY <2>2, <3>1, <3>2
  <2> QED
    BY <2>2, <2>3, <2>4, <2>5
<1>3. m \in 1 .. W /\ m <= n + 1 /\ n <= W
  BY <1>1, <1>2
<1>4. t[m] = e
  <2>1. m \in 1 .. m /\ m + (n + 1 - m) = n + 1
    BY <1>3
  <2> QED
    BY <1>1, <1>2, <2>1
<1>5. ASSUME NEW j \in 1 .. m - 1
      PROVE  \E k \in 1 .. n : t[j] = p[k] /\ m - j = (n - k) + 1 /\ n - k \in 0 .. W - 1
  <2>1. PICK k \in Int : k = j + (n + 1 - m)
    BY <1>3
  <2>2. k \in 1 .. n /\ j \in 1 .. m /\ m - j = (n - k) + 1 /\ n - k \in 0 .. W - 1
    BY <1>3, <2>1
  <2>3. t[j] = p[k]
    BY <1>1, <1>2, <2>1, <2>2
  <2> QED
    BY <2>2, <2>3
<1>6. t = Latest(Append(p, e), W) /\ t # <<>> /\ Len(t) \in 1 .. W /\ t[Len(t)] = e
  BY <1>1, <1>2, <1>3, <1>4
<1>7. \A j \in 1 .. Len(t) - 1 : \E k \in 1 .. Len(p) :
        /\ t[j] = p[k] /\ Len(t) - j = (Len(p) - k) + 1
        /\ Len(p) - k \in 0 .. W - 1
  <2>1. m = Len(t) /\ n = Len(p)
    BY <1>1, <1>2
  <2> QED
    BY <1>5, <2>1
<1> QED
  BY <1>6, <1>7 DEF Continues

\* A pick without a disturbance continues the turn, or begins one.
LEMMA TurnContinues ==
  ASSUME PoolInv, NEW kind \in {"http", "ws"}, call = kind, NEW W \in Nat \ {0},
         W = Period(kind), rr' = (rr + 1) % W, NEW i \in AllNodes, i = Due(kind)[rr'],
         Return(i), ~disturbed
  PROVE  Turns'
<1>1. PICK p \in Seq(Picks) :
        /\ p = IF turn # <<>> /\ Last(turn).kind # kind THEN <<>> ELSE turn
        /\ Len(p) <= W
        /\ Len(p) # 0 =>
             rr < W /\ \A k \in 1 .. Len(p) : p[k].node = Due(kind)[Back(W, Len(p) - k)]
  <2>1. turn \in Seq(Picks)
    BY DEF PoolInv, Typed
  <2>2. CASE turn # <<>> /\ Last(turn).kind = kind
    <3>1. Rotation(kind)
      BY <2>2 DEF PoolInv, Turns
    <3> QED
      BY <2>1, <2>2, <3>1 DEF Rotation
  <2>3. CASE ~(turn # <<>> /\ Last(turn).kind = kind)
    <3>1. (IF turn # <<>> /\ Last(turn).kind # kind THEN <<>> ELSE turn) = <<>>
      BY <2>3
    <3>2. PICK p \in Seq(Picks) : p = <<>> /\ Len(p) = 0
      <4>1. <<>> \in Seq(Picks) /\ Len(<<>>) = 0
        OBVIOUS
      <4> QED
        BY <4>1
    <3>3. p = IF turn # <<>> /\ Last(turn).kind # kind THEN <<>> ELSE turn
      BY <3>1, <3>2
    <3> WITNESS p \in Seq(Picks)
    <3> QED
      BY <3>2, <3>3
  <2> QED
    BY <2>2, <2>3
<1>2. PICK new \in Picks : new = [kind |-> kind, node |-> i]
  <2>1. i \in Nat
    BY NodeFields DEF PoolInv
  <2> QED
    BY <2>1 DEF Picks
<1>10. Len(p) <= W
  BY <1>1
<1>11. PICK t \in Seq(Picks) : Continues(t, p, new, W)
  BY <1>10, OneMorePick
<1>12. PICK m \in 1 .. W : m = Len(t)
  BY <1>11 DEF Continues
<1>3. /\ t = Latest(Append(p, new), W) /\ t # <<>> /\ m = Len(t) /\ t[m] = new
      /\ \A j \in 1 .. m - 1 : \E k \in 1 .. Len(p) :
           t[j] = p[k] /\ m - j = (Len(p) - k) + 1 /\ Len(p) - k \in 0 .. W - 1
  BY <1>11, <1>12, Zenon DEF Continues
<1>4. nodes' = nodes /\ turn' = t
  BY <1>1, <1>2, <1>3 DEF Return
<1>5. PICK r \in Nat : r = rr' /\ r < W
  <2>1. \A c, V \in Nat : V > 0 => (c + 1) % V \in 0 .. V - 1
    OBVIOUS
  <2> QED
    BY <2>1 DEF PoolInv, Typed
<1>6. rr \in Nat
  BY DEF PoolInv, Typed
<1>7. ASSUME NEW j \in 1 .. m
      PROVE  t[j].node = Due(kind)[IF r >= m - j THEN r - (m - j) ELSE r - (m - j) + W]
  <2>1. CASE j = m
    <3>1. m - j = 0 /\ r >= m - j /\ r - (m - j) = r
      BY <1>5, <2>1
    <3>2. t[j].node = i
      BY <1>2, <1>3, <2>1
    <3> QED
      BY <1>5, <3>1, <3>2
  <2>2. CASE j # m
    <3>1. j \in 1 .. m - 1
      BY <2>2
    <3>2. PICK k \in 1 .. Len(p) :
            t[j] = p[k] /\ m - j = (Len(p) - k) + 1 /\ Len(p) - k \in 0 .. W - 1
      BY <1>3, <3>1
    <3>3. PICK d \in 0 .. W - 1 : d = Len(p) - k
      BY <3>2
    <3>4. Len(p) # 0
      <4>1. Len(p) \in Nat
        OBVIOUS
      <4> QED
        BY <4>1
    <3>5. rr < W /\ t[j].node = Due(kind)[Back(W, d)]
      BY <1>1, <3>2, <3>3, <3>4
    <3>6. (IF rr' >= d + 1 THEN rr' - (d + 1) ELSE rr' - (d + 1) + W) = Back(W, d)
      BY <1>6, <3>5, BackMoves
    <3> QED
      BY <1>5, <3>2, <3>3, <3>5, <3>6
  <2> QED
    BY <2>1, <2>2
<1>8. Last(turn') = new
  BY <1>2, <1>3, <1>4 DEF Last
<1>9. Rotation(kind)'
  <2>1. Due(kind)' = Due(kind) /\ Period(kind)' = W
    BY <1>4, SameNodes
  <2>2. Len(turn') = m /\ turn' = t /\ rr' = r /\ m <= W /\ r < W
    BY <1>3, <1>4, <1>5
  <2>3. \A j \in 1 .. Len(turn') : turn'[j].node
          = Due(kind)'[IF rr' >= Len(turn') - j THEN rr' - (Len(turn') - j)
                       ELSE rr' - (Len(turn') - j) + Period(kind)']
    BY <1>7, <2>1, <2>2
  <2>4. Len(turn') <= Period(kind)' /\ rr' < Period(kind)'
    BY <2>1, <2>2
  <2> QED
    BY <2>3, <2>4 DEF Rotation, Back
<1> QED
  BY <1>2, <1>8, <1>9 DEF Turns

----------------------------------------------------------------------------
(* PoolInv holds of every state *)

LEMMA PoolStart == ASSUME PoolInit PROVE PoolInv
<1>1. PICK cfgs \in NodeConfigs : nodes = buildNodes(cfgs)
  BY DEF PoolInit
<1>2. nodes \in Seq(Node) /\ nodes # <<>>
  BY <1>1, BuiltNodes
<1>3. 0 \in 0 .. Len(nodes) /\ {} \subseteq AllNodes /\ <<>> \in Seq(Picks)
  BY <1>2
<1>4. Typed /\ Idle /\ Scanned /\ Turns
  BY <1>2, <1>3 DEF PoolInit, Typed, Idle, Scanned, Turns
<1> QED
  BY <1>4 DEF PoolInv

\* A loop that ran undisturbed collected the nodes that are healthy now.
LEMMA ScanIsExact ==
  ASSUME PoolInv, NEW kind \in {"http", "ws"}, ScanDone(kind), ~disturbed
  PROVE  candidates = HealthyOf(kind)
<1>1. call = kind /\ scanned = Len(nodes) /\ AllNodes = 1 .. Len(nodes)
  BY NodeFields DEF ScanDone, PoolInv
<1>2. candidates = {i \in 1 .. scanned : Eligible(i)}
  BY <1>1 DEF PoolInv, Scanned
<1> QED
  BY <1>1, <1>2 DEF HealthyOf, Eligible

\* What a call that returns a node has to show.
LEMMA ReturnKeeps ==
  ASSUME PoolInv, Typed', NEW kind \in {"http", "ws"}, call = kind, NEW i \in AllNodes, Return(i),
         ~disturbed => /\ Period(kind) # 0 /\ rr' = (rr + 1) % Period(kind)
                       /\ i = Due(kind)[rr']
  PROVE  PoolInv'
<1>1. call' = "none" /\ scanned' = 0 /\ candidates' = {} /\ disturbed' = FALSE
  BY DEF Return
<1>2. Turns'
  <2>1. CASE disturbed
    <3>1. turn' = <<>>
      BY <2>1 DEF Return
    <3> QED
      BY <3>1 DEF Turns
  <2>2. CASE ~disturbed
    <3>1. PICK W \in Nat \ {0} : W = Period(kind)
      BY <2>2, PeriodNat DEF PoolInv
    <3> QED
      BY <2>2, <3>1, TurnContinues
  <2> QED
    BY <2>1, <2>2
<1> QED
  BY <1>1, <1>2 DEF PoolInv, Idle, Scanned

\* A weighted pick is due, if its candidates are the ones that the turn is about.
LEMMA PickKeeps ==
  ASSUME PoolInv, NEW kind \in {"http", "ws"}, call = kind, Typed',
         NEW S \in SUBSET AllNodes, S # {}, PickWeighted(S),
         ~disturbed => \/ HealthyOf(kind) = S
                       \/ HealthyOf(kind) = {} /\ kind = "ws" /\ S = WsNodes
  PROVE  PoolInv'
<1>1. /\ rr' = (rr + 1) % WeightOf(S) /\ rr' \in 0 .. WeightOf(S) - 1
      /\ AtCursor(S, rr') \in S /\ Return(AtCursor(S, rr'))
      /\ WeightOf(S) \in Nat \ {0}
  BY PickFound, WeightPositive DEF PoolInv
<1>2. ASSUME ~disturbed
      PROVE  Period(kind) = WeightOf(S) /\ AtCursor(S, rr') = Due(kind)[rr']
  <2>1. PICK r \in Nat : r = rr'
    BY <1>1
  <2>2. Period(kind) = WeightOf(S) /\ AtCursor(S, r) = Due(kind)[r]
    BY <1>2 DEF Period, Due
  <2> QED
    BY <2>1, <2>2
<1> QED
  BY <1>1, <1>2, ReturnKeeps

LEMMA PoolKept == ASSUME PoolInv, [PoolNext]_poolVars PROVE PoolInv'
<1>1. Typed /\ Idle /\ Scanned /\ Turns /\ Typed'
  BY TypesKept DEF PoolInv
<1>2. ASSUME NEW kind \in {"http", "ws"}, Begin(kind) PROVE PoolInv'
  <2>1. nodes' = nodes /\ rr' = rr /\ turn' = turn
    BY <1>2 DEF Begin
  <2>2. Turns'
    BY <1>1, <2>1, SameNodes DEF Turns, Rotation, Back
  <2>3. scanned = 0 /\ candidates = {}
    BY <1>1, <1>2 DEF Begin, Idle
  <2>4. Scanned'
    BY <1>2, <2>3 DEF Begin, Scanned
  <2>5. Idle'
    BY <1>2 DEF Begin, Idle
  <2> QED
    BY <1>1, <2>2, <2>4, <2>5 DEF PoolInv
<1>3. CASE Scan
  <2>1. nodes' = nodes /\ rr' = rr /\ turn' = turn /\ call' = call /\ disturbed' = disturbed
    BY <1>3 DEF Scan
  <2>2. Turns'
    BY <1>1, <2>1, SameNodes DEF Turns, Rotation, Back
  <2>3. Scanned'
    <3>1. PICK n \in Nat : n = scanned
      BY <1>1 DEF Typed
    <3>2. 1 .. n + 1 = (1 .. n) \union {n + 1}
      BY <3>1
    <3>3. scanned' = n + 1 /\ \A k : Eligible(k)' <=> Eligible(k)
      BY <1>3, <2>1, <3>1 DEF Scan, Eligible
    <3>4. ASSUME ~disturbed PROVE candidates' = {k \in 1 .. n + 1 : Eligible(k)}
      <4>1. candidates = {k \in 1 .. n : Eligible(k)}
        BY <1>1, <1>3, <3>1, <3>4 DEF Scanned, Scan
      <4>2. candidates' = IF Eligible(n + 1) THEN candidates \union {n + 1} ELSE candidates
        BY <1>3, <3>1 DEF Scan
      <4> QED
        BY <3>2, <4>1, <4>2
    <3> QED
      BY <2>1, <3>3, <3>4 DEF Scanned
  <2>4. Idle'
    BY <1>3 DEF Scan, Idle
  <2> QED
    BY <1>1, <2>2, <2>3, <2>4 DEF PoolInv
<1>4. ASSUME NEW kind \in {"http", "ws"}, ScanDone(kind), candidates # {}, PickWeighted(candidates)
      PROVE  PoolInv'
  <2>1. call = kind /\ candidates \in SUBSET AllNodes
    BY <1>1, <1>4 DEF ScanDone, Typed
  <2>2. ~disturbed => HealthyOf(kind) = candidates
    BY <1>4, ScanIsExact
  <2> QED
    BY <1>1, <1>4, <2>1, <2>2, PickKeeps
<1>5. CASE NextHealthy
  BY <1>4, <1>5 DEF NextHealthy
<1>6. CASE NextFallback
  <2>1. /\ ScanDone("http") /\ call = "http" /\ candidates = {}
        /\ rr' = (rr + 1) % Len(nodes) /\ Return(rr' + 1)
    BY <1>6 DEF NextFallback, ScanDone
  <2>2. PICK n \in Nat \ {0} : n = Len(nodes) /\ AllNodes = 1 .. n
    BY <1>1, NodeFields
  <2>3. PICK r \in 0 .. n - 1 : r = rr'
    <3>1. \A c, V \in Nat : V > 0 => (c + 1) % V \in 0 .. V - 1
      OBVIOUS
    <3> QED
      BY <1>1, <2>1, <2>2, <3>1 DEF Typed
  <2>4. r + 1 \in AllNodes /\ r \in Nat
    BY <2>2
  <2>5. ASSUME ~disturbed
        PROVE  Period("http") # 0 /\ rr' = (rr + 1) % Period("http") /\ r + 1 = Due("http")[rr']
    <3>1. HealthyOf("http") = {}
      BY <2>1, <2>5, ScanIsExact
    <3> QED
      BY <2>1, <2>2, <2>3, <2>4, <3>1 DEF Period, Due
  <2> QED
    BY <1>1, <2>1, <2>3, <2>4, <2>5, ReturnKeeps
<1>7. CASE NextWSHealthy
  BY <1>4, <1>7 DEF NextWSHealthy
<1>8. CASE NextWSFallback
  <2>1. /\ ScanDone("ws") /\ call = "ws" /\ candidates = {} /\ WsNodes # {}
        /\ WsNodes \in SUBSET AllNodes /\ PickWeighted(WsNodes)
    BY <1>8 DEF NextWSFallback, ScanDone, WsNodes
  <2>2. ~disturbed => HealthyOf("ws") = {}
    BY <2>1, ScanIsExact
  <2> QED
    BY <1>1, <2>1, <2>2, PickKeeps
<1>9. CASE NextWSNone
  <2>1. nodes' = nodes /\ rr' = rr /\ turn' = turn
    BY <1>9 DEF NextWSNone
  <2>2. Turns'
    BY <1>1, <2>1, SameNodes DEF Turns, Rotation, Back
  <2> QED
    BY <1>1, <1>9, <2>2 DEF PoolInv, NextWSNone, Idle, Scanned
<1>10. ASSUME NEW i \in AllNodes, FlipHealth(i) PROVE PoolInv'
  BY <1>1, <1>10 DEF PoolInv, FlipHealth, Idle, Scanned, Turns
<1>11. ASSUME NEW cfgs \in NodeConfigs, ReplaceNodes(cfgs) PROVE PoolInv'
  BY <1>1, <1>11 DEF PoolInv, ReplaceNodes, Idle, Scanned, Turns
<1>12. CASE UNCHANGED poolVars
  <2>1. /\ nodes' = nodes /\ rr' = rr /\ turn' = turn /\ call' = call /\ scanned' = scanned
        /\ candidates' = candidates /\ disturbed' = disturbed
    BY <1>12 DEF poolVars
  <2>2. Turns'
    BY <1>1, <2>1, SameNodes DEF Turns, Rotation, Back
  <2>3. Scanned' /\ Idle'
    BY <1>1, <2>1 DEF Scanned, Eligible, Idle
  <2> QED
    BY <1>1, <2>2, <2>3 DEF PoolInv
<1> QED
  BY <1>2, <1>3, <1>5, <1>6, <1>7, <1>8, <1>9, <1>10, <1>11, <1>12 DEF PoolNext

----------------------------------------------------------------------------
(* Nobody is due more often than its weight *)

\* The values of the counter below v at which node i is due.
DueAt(kind, W, i) == {v \in 0 .. W - 1 : Due(kind)[v] = i}

\* They lie in an interval as long as the node's share.
Within(D, w) == \E a \in Nat : D \subseteq a .. a + w - 1

LEMMA WeightedWithin ==
  ASSUME Typed, NEW S \in SUBSET AllNodes, NEW i \in AllNodes
  PROVE  Within({v \in 0 .. WeightOf(S) - 1 : AtCursor(S, v) = i},
                IF i \in S THEN nodes[i].weight ELSE 0)
<1> DEFINE D == {v \in 0 .. WeightOf(S) - 1 : AtCursor(S, v) = i}
<1>1. WeightOf(S) \in Nat /\ nodes[i].weight \in Nat \ {0}
  BY TicketsFinite, NodeFields
<1>2. CASE D = {}
  BY <1>1, <1>2 DEF Within
<1>3. CASE D # {}
  <2>1. S # {}
    <3>1. PICK v \in 0 .. WeightOf(S) - 1 : TRUE
      BY <1>3
    <3>2. WeightOf(S) # 0
      BY <1>1, <3>1
    <3> QED
      BY <3>2, WeightOfNone
  <2>2. PICK a \in Nat : a = WeightOf({j \in S : j < i})
    BY TicketsFinite
  <2>3. \A v \in D : i \in S /\ a <= v /\ v < a + nodes[i].weight
    BY <2>1, <2>2, CursorFound
  <2>4. i \in S
    BY <1>3, <2>3
  <2>5. D \subseteq a .. a + nodes[i].weight - 1
    BY <1>1, <2>3
  <2> QED
    BY <2>4, <2>5 DEF Within
<1> QED
  BY <1>2, <1>3

LEMMA DueWithin ==
  ASSUME Typed, NEW kind \in {"http", "ws"}, NEW i \in AllNodes
  PROVE  Within(DueAt(kind, Period(kind), i), Share(kind, i)) /\ Share(kind, i) \in Nat
<1>1. AllNodes = 1 .. Len(nodes) /\ nodes[i].weight \in Nat
  BY NodeFields
<1>2. HealthyOf(kind) \in SUBSET AllNodes /\ WsNodes \in SUBSET AllNodes
  BY DEF HealthyOf, WsNodes
<1>3. Share(kind, i) \in Nat
  BY <1>1 DEF Share
<1>4. CASE HealthyOf(kind) # {}
  <2>1. DueAt(kind, Period(kind), i)
          = {v \in 0 .. WeightOf(HealthyOf(kind)) - 1 : AtCursor(HealthyOf(kind), v) = i}
    BY <1>4 DEF DueAt, Due, Period
  <2>2. Share(kind, i) = IF i \in HealthyOf(kind) THEN nodes[i].weight ELSE 0
    BY <1>4 DEF Share
  <2>3. Within({v \in 0 .. WeightOf(HealthyOf(kind)) - 1 : AtCursor(HealthyOf(kind), v) = i},
               IF i \in HealthyOf(kind) THEN nodes[i].weight ELSE 0)
    BY ONLY <1>2, Typed, i \in AllNodes, WeightedWithin
  <2> QED
    BY ONLY <1>3, <2>1, <2>2, <2>3
<1>5. CASE HealthyOf(kind) = {} /\ kind = "http"
  <2>1. Share(kind, i) = 1
    BY <1>5 DEF Share
  <2>2. \A v \in DueAt(kind, Period(kind), i) : v \in Nat /\ v + 1 = i
    BY <1>5 DEF DueAt, Due
  <2>3. i - 1 \in Nat /\ DueAt(kind, Period(kind), i) \subseteq (i - 1) .. (i - 1) + 1 - 1
    BY <1>1, <2>2
  <2> QED
    BY <2>1, <2>3 DEF Within
<1>6. CASE HealthyOf(kind) = {} /\ kind = "ws"
  <2>1. DueAt(kind, Period(kind), i) = {v \in 0 .. WeightOf(WsNodes) - 1 : AtCursor(WsNodes, v) = i}
    BY <1>6 DEF DueAt, Due, Period
  <2>2. Share(kind, i) = IF i \in WsNodes THEN nodes[i].weight ELSE 0
    BY <1>6 DEF Share
  <2>3. Within({v \in 0 .. WeightOf(WsNodes) - 1 : AtCursor(WsNodes, v) = i},
               IF i \in WsNodes THEN nodes[i].weight ELSE 0)
    BY ONLY <1>2, Typed, i \in AllNodes, WeightedWithin
  <2> QED
    BY ONLY <1>3, <2>1, <2>2, <2>3
<1> QED
  BY <1>4, <1>5, <1>6

\* Each of the latest picks was made at a counter value of its own.
LEMMA SharesKept ==
  ASSUME Typed, NEW kind \in {"http", "ws"}, Rotation(kind), NEW i \in AllNodes
  PROVE  Times(turn, i) <= Share(kind, i)
<1> DEFINE K == {k \in DOMAIN turn : turn[k].node = i}
           D == DueAt(kind, Period(kind), i)
<1>1. PICK W \in Nat, n \in Nat : W = Period(kind) /\ n = Len(turn) /\ DOMAIN turn = 1 .. n
  BY PeriodNat DEF Typed
<1>2. /\ n <= W /\ rr < W /\ rr \in Nat
      /\ \A j \in 1 .. n : turn[j].node = Due(kind)[Back(W, n - j)]
  BY <1>1 DEF Rotation, Typed
<1>3. PICK a \in Nat, w \in Nat : w = Share(kind, i) /\ D \subseteq a .. a + w - 1
  BY DueWithin DEF Within
<1>4. IsFiniteSet(D) /\ Cardinality(D) <= w
  <2>1. IsFiniteSet(a .. a + w - 1)
        /\ Cardinality(a .. a + w - 1) = IF a > a + w - 1 THEN 0 ELSE (a + w - 1) - a + 1
    BY a \in Int, a + w - 1 \in Int, FS_Interval
  <2>2. Cardinality(a .. a + w - 1) = w
    BY <2>1
  <2> HIDE DEF D
  <2> QED
    BY <1>3, <2>1, <2>2, FS_Subset
<1>5. \A j \in 1 .. n : Back(W, n - j) \in 0 .. W - 1
  BY <1>2 DEF Back
<1>6. \A j, k \in 1 .. n : Back(W, n - j) = Back(W, n - k) => j = k
  BY <1>2 DEF Back
<1>7. [k \in K |-> Back(W, n - k)] \in Injection(K, D)
  <2>1. \A k \in K : k \in 1 .. n /\ Back(W, n - k) \in D
    BY <1>1, <1>2, <1>5 DEF DueAt
  <2> HIDE DEF K, D
  <2> QED
    BY <1>6, <2>1 DEF Injection, IsInjective
<1>8. IsFiniteSet(K) /\ Cardinality(K) <= Cardinality(D)
  <2> HIDE DEF K, D
  <2> QED
    BY <1>4, <1>7, FS_Injection
<1>9. Cardinality(K) <= w
  <2> HIDE DEF K, D
  <2>1. Cardinality(K) \in Nat /\ Cardinality(D) \in Nat
    BY <1>4, <1>8, FS_CardinalityType
  <2> QED
    BY <1>4, <1>8, <2>1
<1> QED
  BY <1>3, <1>9 DEF Times

(***************************************************************************)
(* PoolInv holds in every state, for every set of node lists a config file *)
(* may hold: what a loop over p.nodes has collected is exact unless a flag *)
(* flipped under it, and the latest picks are those due at successive      *)
(* values of p.rr.                                                         *)
(***************************************************************************)
THEOREM PoolIsInvariant == PoolSpec => []PoolInv
<1>1. PoolInit => PoolInv
  BY PoolStart
<1>2. PoolInv /\ [PoolNext]_poolVars => PoolInv'
  BY PoolKept
<1> QED
  BY <1>1, <1>2, PTL DEF PoolSpec

(***************************************************************************)
(* However Next, NextWS, ReplaceNodes and the reports that flip the flags  *)
(* interleave, the node list is never empty, every weight is positive, and *)
(* the loop stays within the list.                                         *)
(***************************************************************************)
THEOREM PoolTyped == PoolSpec => []PoolTypeOK
<1>1. PoolInv => PoolTypeOK
  BY DEF PoolInv, Typed, PoolTypeOK, Node
<1> QED
  BY <1>1, PoolIsInvariant, PTL

(***************************************************************************)
(* Next and NextWS are weighted round robin, whatever the weights and the  *)
(* number of nodes and whatever value p.rr was left at: as long as picks   *)
(* of one kind follow each other and nothing changes, no node gets more    *)
(* than its weight in a period.                                            *)
(***************************************************************************)
THEOREM SharesAreKept == PoolSpec => []WeightedRoundRobin
<1>1. PoolInv => WeightedRoundRobin
  BY SharesKept DEF PoolInv, Turns, WeightedRoundRobin
<1> QED
  BY <1>1, PoolIsInvariant, PTL

----------------------------------------------------------------------------
(* NodeHealth: the reports about one node *)

\* atomic.Int32.Add stays in the range of 32-bit integers.
LEMMA Add32Type == \A x \in Int32 : Add32(x) \in Int32
BY HealthAssumption DEF Add32, Int32

\* So does atomic.Int32.Store(0).
LEMMA ZeroInt32 == 0 \in Int32
BY HealthAssumption DEF Int32

\* A new node (buildNodes) is well typed.
LEMMA TypeInit == Init => TypeOK
BY ZeroInt32 DEF Init, TypeOK, Steps

\* Every atomic operation of a report keeps the types.
LEMMA TypeStep == TypeOK /\ [Next]_vars => TypeOK'
<1> SUFFICES ASSUME TypeOK, [Next]_vars PROVE TypeOK'
  OBVIOUS
<1> USE DEF TypeOK, Goto, Steps, Begins, node
<1>1. CASE Upstream
  BY <1>1 DEF Upstream
<1>2. ASSUME NEW r \in Reporters, Observe(r) PROVE TypeOK'
  BY <1>2 DEF Observe
<1>3. ASSUME NEW r \in Reporters, ReportSuccess(r) PROVE TypeOK'
  <2>1. CASE ResetFails(r)
    BY <2>1, ZeroInt32 DEF ResetFails
  <2>2. CASE CountOk(r)
    BY <2>2, Add32Type DEF CountOk
  <2>3. CASE CheckRecovered(r)
    BY <2>3 DEF CheckRecovered
  <2>4. CASE MarkHealthy(r)
    BY <2>4 DEF MarkHealthy
  <2>5. CASE ClearOks(r)
    BY <2>5, ZeroInt32 DEF ClearOks
  <2> QED
    BY <1>3, <2>1, <2>2, <2>3, <2>4, <2>5 DEF ReportSuccess
<1>4. ASSUME NEW r \in Reporters, ReportFailure(r) PROVE TypeOK'
  <2>1. CASE ResetOks(r)
    BY <2>1, ZeroInt32 DEF ResetOks
  <2>2. CASE CountFail(r)
    BY <2>2, Add32Type DEF CountFail
  <2>3. CASE CheckFailed(r)
    BY <2>3 DEF CheckFailed
  <2>4. CASE MarkUnhealthy(r)
    BY <2>4 DEF MarkUnhealthy
  <2> QED
    BY <1>4, <2>1, <2>2, <2>3, <2>4 DEF ReportFailure
<1>5. CASE UNCHANGED vars
  BY <1>5 DEF vars
<1> QED
  BY <1>1, <1>2, <1>3, <1>4, <1>5 DEF Next, Report

(***************************************************************************)
(* The counters stay 32-bit integers and the reporters stay on the steps   *)
(* of ReportSuccess and ReportFailure, however many goroutines report.     *)
(***************************************************************************)
THEOREM TypeCorrect == Spec => []TypeOK
<1>1. Init => TypeOK
  BY TypeInit
<1>2. TypeOK /\ [Next]_vars => TypeOK'
  BY TypeStep
<1> QED
  BY <1>1, <1>2, PTL DEF Spec

----------------------------------------------------------------------------
(***************************************************************************)
(* Reports that do not overlap, of any number of reporters.                *)
(***************************************************************************)

AtRest == \A r \in Reporters : ~InReport(r)

OneAtATime == \A p, q \in Reporters : InReport(p) /\ InReport(q) => p = q

\* What holds at each step of a report that no other report overlaps.
AtStep(r) ==
  /\ pc[r] = "s_add" => Below /\ failCount = 0
  /\ pc[r] = "s_check" =>
       /\ failCount = 0
       /\ ~healthy => seen[r] = okCount /\ 1 <= okCount /\ okCount <= HealthyThreshold
  /\ pc[r] = "s_mark" => ~healthy /\ failCount = 0 /\ seen[r] >= HealthyThreshold
  /\ pc[r] = "s_clear" => healthy /\ failCount = 0
  /\ pc[r] = "f_add" => Below /\ okCount = 0
  /\ pc[r] = "f_check" =>
       /\ okCount = 0
       /\ healthy => seen[r] = failCount /\ 1 <= failCount /\ failCount <= UnhealthyThreshold
  /\ pc[r] = "f_mark" => healthy /\ okCount = 0 /\ seen[r] >= UnhealthyThreshold

\* The same with the steps at which no report has begun.
Sound(r) == IF InReport(r) THEN AtStep(r) ELSE Below

SeqInv ==
  /\ TypeOK
  /\ ~overlapped =>
       /\ OneAtATime
       /\ AtRest => Below
       /\ \A r \in Reporters : InReport(r) => AtStep(r)

\* With a new node and no report, flag and counters agree.
LEMMA SeqInit == Init => SeqInv
<1> SUFFICES ASSUME Init PROVE SeqInv
  OBVIOUS
<1>1. TypeOK
  BY TypeInit
<1>2. \A r \in Reporters : ~InReport(r)
  BY DEF Init, InReport
<1>3. Below
  BY HealthAssumption DEF Init, Below
<1> QED
  BY <1>1, <1>2, <1>3 DEF SeqInv, OneAtATime

\* A reporter that takes a step of its report is the only one in a report, and
\* finds what it expects.
LEMMA StepsAlone ==
  ASSUME SeqInv, NEW r \in Reporters, Report(r), ~overlapped'
  PROVE  ~overlapped /\ Sound(r) /\ \A q \in Reporters \ {r} : ~InReport(q)
<1>1. CASE pc[r] = "s_reset" \/ pc[r] = "f_reset"
  <2>1. Begins
    BY <1>1 DEF Report, ReportSuccess, ReportFailure, Goto, ResetFails, CountOk, CheckRecovered,
                MarkHealthy, ClearOks, ResetOks, CountFail, CheckFailed, MarkUnhealthy
  <2> QED
    BY <1>1, <2>1 DEF Begins, SeqInv, Sound, AtRest, InReport
<1>2. CASE ~(pc[r] = "s_reset" \/ pc[r] = "f_reset")
  <2>1. InReport(r) /\ ~overlapped
    BY <1>2 DEF Report, ReportSuccess, ReportFailure, Goto, ResetFails, CountOk, CheckRecovered,
                MarkHealthy, ClearOks, ResetOks, CountFail, CheckFailed, MarkUnhealthy, InReport
  <2> QED
    BY <2>1 DEF SeqInv, Sound, OneAtATime
<1> QED
  BY <1>1, <1>2

\* Every step of a report, when it finds what it expects, leaves the same.
LEMMA KeepsSound ==
  ASSUME TypeOK, TypeOK', NEW r \in Reporters, Sound(r), Report(r)
  PROVE  Sound(r)'
<1> USE HealthAssumption DEF TypeOK, Int32, Sound, AtStep, Below, Goto, Steps, InReport, node
<1>1. CASE ResetFails(r)
  BY <1>1 DEF ResetFails
<1>2. CASE CountOk(r)
  BY <1>2 DEF CountOk, Add32
<1>3. CASE CheckRecovered(r)
  BY <1>3 DEF CheckRecovered, Recovers
<1>4. CASE MarkHealthy(r)
  BY <1>4 DEF MarkHealthy
<1>5. CASE ClearOks(r)
  BY <1>5 DEF ClearOks
<1>6. CASE ResetOks(r)
  BY <1>6 DEF ResetOks
<1>7. CASE CountFail(r)
  BY <1>7 DEF CountFail, Add32
<1>8. CASE CheckFailed(r)
  BY <1>8 DEF CheckFailed, Trips
<1>9. CASE MarkUnhealthy(r)
  BY <1>9 DEF MarkUnhealthy
<1> QED
  BY <1>1, <1>2, <1>3, <1>4, <1>5, <1>6, <1>7, <1>8, <1>9 DEF Report, ReportSuccess, ReportFailure

\* The steps of a report leave the other reporters where they are.
LEMMA OthersStay ==
  ASSUME TypeOK, NEW r \in Reporters, Report(r)
  PROVE  \A q \in Reporters \ {r} : pc'[q] = pc[q]
BY DEF TypeOK, Report, ReportSuccess, ReportFailure, Goto, ResetFails, CountOk, CheckRecovered,
       MarkHealthy, ClearOks, ResetOks, CountFail, CheckFailed, MarkUnhealthy

\* What a step that belongs to no report may do.
OutsideReports ==
  /\ UNCHANGED <<healthy, failCount, okCount, seen, overlapped>>
  /\ \A r \in Reporters : pc'[r] = pc[r] \/ (~InReport(r) /\ ~InReport(r)')

\* Every atomic operation of a report keeps flag, counters and position in agreement.
LEMMA SeqStep == SeqInv /\ [Next]_vars => SeqInv'
<1> SUFFICES ASSUME SeqInv, [Next]_vars PROVE SeqInv'
  OBVIOUS
<1>1. TypeOK /\ TypeOK'
  BY TypeStep DEF SeqInv
<1>2. OutsideReports => SeqInv'
  BY <1>1 DEF OutsideReports, SeqInv, OneAtATime, AtRest, AtStep, Below, InReport
<1>3. CASE Upstream
  BY <1>2, <1>3 DEF OutsideReports, Upstream, node, InReport
<1>4. ASSUME NEW r \in Reporters, Observe(r) PROVE SeqInv'
  BY <1>1, <1>2, <1>4 DEF OutsideReports, Observe, Goto, TypeOK, InReport, node
<1>5. CASE UNCHANGED vars
  BY <1>2, <1>5 DEF OutsideReports, vars, node, InReport
<1>6. ASSUME NEW r \in Reporters, Report(r) PROVE SeqInv'
  <2> SUFFICES ASSUME ~overlapped'
               PROVE  OneAtATime' /\ (AtRest => Below)' /\ \A q \in Reporters : (InReport(q) => AtStep(q))'
    BY <1>1 DEF SeqInv
  <2>1. Sound(r)' /\ \A q \in Reporters \ {r} : ~InReport(q)'
    BY <1>1, <1>6, StepsAlone, KeepsSound, OthersStay DEF InReport
  <2> QED
    BY <2>1 DEF OneAtATime, AtRest, Sound
<1> QED
  BY <1>3, <1>4, <1>5, <1>6 DEF Next

(***************************************************************************)
(* As long as no two reports have overlapped, flag and counters agree      *)
(* whenever no report is under way (ReportSuccess, ReportFailure).         *)
(***************************************************************************)
THEOREM SequentialAgreement == Spec => []Agreement
<1>1. Init => SeqInv
  BY SeqInit
<1>2. SeqInv /\ [Next]_vars => SeqInv'
  BY SeqStep
<1>3. SeqInv => Agreement
  BY DEF SeqInv, Agreement, AtRest
<1> QED
  BY <1>1, <1>2, <1>3, PTL DEF Spec

\* The step of the breaker that a step of a lone report is.
LEMMA BreakerStep ==
  ASSUME SeqInv, SeqInv', NEW r \in Reporters, Report(r), ~overlapped'
  PROVE  [B!Next]_(B!vars)
<1>1. TypeOK /\ TypeOK' /\ Sound(r) /\ Sound(r)'
  BY StepsAlone, KeepsSound DEF SeqInv
<1>2. \A q \in Reporters \ {r} : ~InReport(q) /\ ~InReport(q)'
  BY StepsAlone, OthersStay DEF SeqInv, InReport
<1>3. AbsInService <=>
        /\ healthy \/ Deciding(r, {"s_check", "s_mark"}, HealthyThreshold)
        /\ ~Deciding(r, {"f_check", "f_mark"}, UnhealthyThreshold)
  BY <1>2 DEF AbsInService, Deciding, InReport
<1>4. AbsInService' <=>
        /\ healthy' \/ Deciding(r, {"s_check", "s_mark"}, HealthyThreshold)'
        /\ ~Deciding(r, {"f_check", "f_mark"}, UnhealthyThreshold)'
  BY <1>2 DEF AbsInService, Deciding, InReport
<1> USE <1>1, <1>3, <1>4, HealthAssumption
    DEF TypeOK, Int32, Sound, AtStep, Below, Goto, Steps, Deciding, InReport, node,
        B!Next, B!vars, B!Success, B!Failure
<1>5. CASE ResetFails(r)
  BY <1>5 DEF ResetFails
<1>6. CASE CountOk(r)
  <2>1. CASE healthy
    BY <1>6, <2>1 DEF CountOk, Add32
  <2>2. CASE ~healthy
    <3>1. ~AbsInService /\ okCount' = okCount + 1 /\ okCount + 1 <= HealthyThreshold
      BY <1>6, <2>2 DEF CountOk, Add32
    <3>2. failCount' = 0 /\ (AbsInService' <=> okCount + 1 >= HealthyThreshold)
      BY <1>6, <2>2, <3>1 DEF CountOk
    <3>3. B!Success
      BY <3>1, <3>2 DEF AbsInService
    <3> QED
      BY <3>3
  <2> QED
    BY <2>1, <2>2
<1>7. CASE CheckRecovered(r)
  BY <1>7 DEF CheckRecovered, Recovers
<1>8. CASE MarkHealthy(r)
  BY <1>8 DEF MarkHealthy
<1>9. CASE ClearOks(r)
  BY <1>9 DEF ClearOks
<1>10. CASE ResetOks(r)
  BY <1>10 DEF ResetOks
<1>11. CASE CountFail(r)
  <2>1. CASE healthy
    <3>1. AbsInService /\ failCount' = failCount + 1 /\ failCount + 1 <= UnhealthyThreshold
      BY <1>11, <2>1 DEF CountFail, Add32
    <3>2. okCount' = 0 /\ (AbsInService' <=> failCount + 1 < UnhealthyThreshold)
      BY <1>11, <2>1, <3>1 DEF CountFail
    <3>3. B!Failure
      BY <3>1, <3>2 DEF AbsInService
    <3> QED
      BY <3>3
  <2>2. CASE ~healthy
    BY <1>11, <2>2 DEF CountFail, Add32
  <2> QED
    BY <2>1, <2>2
<1>12. CASE CheckFailed(r)
  BY <1>12 DEF CheckFailed, Trips
<1>13. CASE MarkUnhealthy(r)
  BY <1>13 DEF MarkUnhealthy
<1> QED
  BY <1>5, <1>6, <1>7, <1>8, <1>9, <1>10, <1>11, <1>12, <1>13
     DEF Report, ReportSuccess, ReportFailure

(***************************************************************************)
(* As long as no two reports have overlapped, ReportSuccess and            *)
(* ReportFailure implement the circuit breaker of module Breaker: it moves *)
(* when a report increments its counter, and sees no other step.           *)
(***************************************************************************)
THEOREM SequentialBreaker == Spec => BreakerSpec
<1>1. Init => SeqInv /\ B!Init
  <2> SUFFICES ASSUME Init PROVE SeqInv /\ B!Init
    OBVIOUS
  <2>1. AbsInService
    BY DEF Init, AbsInService, Deciding
  <2> QED
    BY <2>1, SeqInit DEF Init, B!Init
<1>2. SeqInv /\ [Next]_vars => SeqInv'
  BY SeqStep
<1>3. SeqInv /\ SeqInv' /\ [Next]_vars => [~overlapped' => B!Next]_(B!vars)
  <2> SUFFICES ASSUME SeqInv, SeqInv', [Next]_vars, ~overlapped' PROVE [B!Next]_(B!vars)
    OBVIOUS
  <2>1. ASSUME OutsideReports PROVE [B!Next]_(B!vars)
    <3>1. AbsInService' <=> AbsInService
      BY <2>1 DEF OutsideReports, AbsInService, Deciding, InReport
    <3> QED
      BY <2>1, <3>1 DEF OutsideReports, B!vars
  <2>2. CASE Upstream
    BY <2>1, <2>2 DEF OutsideReports, Upstream, node, InReport
  <2>3. ASSUME NEW r \in Reporters, Observe(r) PROVE [B!Next]_(B!vars)
    BY <2>1, <2>3 DEF OutsideReports, Observe, Goto, SeqInv, TypeOK, InReport, node
  <2>4. CASE UNCHANGED vars
    BY <2>1, <2>4 DEF OutsideReports, vars, node, InReport
  <2>5. ASSUME NEW r \in Reporters, Report(r) PROVE [B!Next]_(B!vars)
    BY <2>5, BreakerStep
  <2> QED
    BY <2>2, <2>3, <2>4, <2>5 DEF Next
<1> QED
  BY <1>1, <1>2, <1>3, PTL DEF Spec, BreakerSpec
=============================================================================
