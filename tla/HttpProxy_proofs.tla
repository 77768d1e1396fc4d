--------------------------- MODULE HttpProxy_proofs ---------------------------
(***************************************************************************)
(* What ServeHTTP promises of every request, for any number of requests    *)
(* and nodes, any weights and thresholds: whom it blames, what it charges, *)
(* and that the statistics, the quota and the billing events agree.        *)
(***************************************************************************)
EXTENDS HttpProxy, FiniteSetTheorems, TLAPS

\* The nodes that always serve.
Steady == Nodes \ Flaky

\* Those of them that answer every probe with a result.
Sound == Nodes \ (Flaky \union Erring)

HasHeard(r) == <<node[r], answer[r]>> \in heard[r]

\* What a request knows on its way.
AtWork(r) ==
  /\ pc[r] \in {"idle", "admit"} => answer[r] = Error
  /\ pc[r] \in {"failed", "retry", "settle"} => HasHeard(r)
  /\ pc[r] = "failed" => answer[r].status = "error" /\ (node[r] \in Steady => cancelled[r])
  /\ pc[r] = "settle" =>
       answer[r].status # "error" /\ (answer[r].status = "5xx" => node[r] \notin Steady)
  /\ pc[r] \in {"record", "count", "publish"} /\ answer[r].successes > 0 => HasHeard(r)
  /\ pc[r] \in {"count", "publish"} => answer[r].successes > 0

\* What its billing event says, once there is one.
Charged(r) ==
  \/ event[r] = NoEvent /\ (pc[r] = "done" => answer[r].successes = 0)
  \/ /\ pc[r] = "done" /\ event[r].state \in {"pending", "settled"}
     /\ event[r].successes = answer[r].successes /\ event[r].billable = (r \in Paid)

\* The properties, of one request.
NamesServer(r) ==
  event[r].state # "none" =>
    /\ \E p \in heard[r] : p[1] = event[r].node /\ p[2].successes = event[r].successes
    /\ event[r].successes > 0
Deserved(r) ==
  \A report \in reports[r] :
    \E p \in heard[r] : p[1] = report[1] /\ (report[2] = "failure" <=> UpstreamFailed(p[2]))

Local(r) == AtWork(r) /\ Charged(r) /\ NamesServer(r) /\ Deserved(r)

Positions == {"idle", "admit", "pick", "forward", "failed", "retry", "reforward", "settle",
              "record", "count", "publish", "done"}

Typed ==
  /\ pc \in [Requests -> Positions]
  /\ answer \in [Requests -> Answers]
  /\ DOMAIN node = Requests /\ DOMAIN event = Requests /\ DOMAIN cancelled = Requests
  /\ DOMAIN heard = Requests /\ DOMAIN reports = Requests
  /\ DOMAIN healthy = Nodes /\ DOMAIN up = Nodes /\ DOMAIN fails = Nodes
  /\ stats \in [Counters -> Nat]

\* Answers by their fields.
LEMMA AnswerFields ==
  \A a \in Answers :
    /\ a.status \in {"error", "5xx", "other", "2xx"} /\ a.successes \in 0 .. MaxBatch
    /\ a.status # "2xx" => a.successes = 0
BY ProxyAssumption DEF Answers

\* Every step keeps the types.
LEMMA TypedStep == Typed /\ [Next]_vars => Typed'
<1> SUFFICES ASSUME Typed, [Next]_vars PROVE Typed'
  OBVIOUS
<1> USE DEF Typed, pool, ghosts, sums, locals, Positions, Goto
<1>1. CASE UNCHANGED vars
  BY <1>1 DEF vars
<1>2. ASSUME NEW n \in Nodes, Probe(n) \/ NodeFails(n) \/ NodeRecovers(n) PROVE Typed'
  <2>1. CASE Probe(n)
    BY <2>1 DEF Probe, ReportSuccess, ReportFailure
  <2>2. CASE NodeFails(n) \/ NodeRecovers(n)
    BY <2>2 DEF NodeFails, NodeRecovers
  <2> QED
    BY <1>2, <2>1, <2>2
<1>3. ASSUME NEW r \in Requests, Arrive(r) \/ Cancel(r) \/ Admit(r) PROVE Typed'
  BY <1>3 DEF Arrive, Cancel, Admit
<1>4. ASSUME NEW r \in Requests, Refuse(r) PROVE Typed'
  BY <1>4 DEF Refuse, Counters
<1>5. ASSUME NEW r \in Requests, Pick(r) \/ Retry(r) PROVE Typed'
  BY <1>5 DEF Pick, Retry
<1>6. ASSUME NEW r \in Requests, Forward(r) \/ ForwardAlt(r) PROVE Typed'
  BY <1>6 DEF Forward, ForwardAlt, Hear
<1>7. ASSUME NEW r \in Requests, BlameFirst(r) \/ Settle(r) PROVE Typed'
  BY <1>7 DEF BlameFirst, Settle, Reported, ReportFailure, ReportSuccess
<1>8. ASSUME NEW r \in Requests, Record(r) PROVE Typed'
  <2>1. answer[r].successes \in Nat
    BY AnswerFields, ProxyAssumption
  <2>2. \A c \in Counters : Increments(r)[c] \in Nat
    BY <2>1 DEF Increments
  <2> QED
    BY <1>8, <2>2 DEF Record
<1>9. ASSUME NEW r \in Requests, IncrSuccess(r) \/ Spawn(r) \/ Publish(r) PROVE Typed'
  BY <1>9 DEF IncrSuccess, Spawn, Publish
<1> QED
  BY <1>1, <1>2, <1>3, <1>4, <1>5, <1>6, <1>7, <1>8, <1>9 DEF Next, Middleware, ServeHTTP

\* The steady nodes serve.
Upright == \A n \in Steady : up[n]

ProxyInv == Typed /\ Upright /\ (\A r \in Requests : Local(r)) /\ EvictionsExplained

LEMMA ProxyInit == Init => ProxyInv
<1> SUFFICES ASSUME Init PROVE ProxyInv
  OBVIOUS
<1>1. Error \in Answers /\ Error.successes = 0
  BY DEF Error, Answers
<1>2. Typed
  BY <1>1 DEF Init, Typed, Positions
<1>3. Upright /\ EvictionsExplained
  BY DEF Init, Upright, EvictionsExplained, Steady
<1>4. \A r \in Requests : Local(r)
  BY <1>1 DEF Init, Local, AtWork, Charged, NamesServer, Deserved, NoEvent
<1> QED
  BY <1>2, <1>3, <1>4 DEF ProxyInv

LEMMA UprightStep == ASSUME Upright, [Next]_vars PROVE Upright'
<1>1. CASE UNCHANGED up
  BY <1>1 DEF Upright
<1>2. ASSUME NEW n \in Nodes, NodeFails(n) \/ NodeRecovers(n) PROVE Upright'
  <2>1. CASE NodeFails(n)
    BY <2>1 DEF NodeFails, Upright, Steady
  <2>2. CASE NodeRecovers(n)
    BY <2>2 DEF NodeRecovers, Upright, Steady
  <2> QED
    BY <1>2, <2>1, <2>2
<1>3. ASSUME NEW n \in Nodes, Probe(n) PROVE UNCHANGED up
  BY <1>3 DEF Probe
<1>4. ASSUME NEW r \in Requests, Arrive(r) \/ Cancel(r) \/ Middleware(r) \/ ServeHTTP(r) \/ Publish(r)
      PROVE  UNCHANGED up
  BY <1>4 DEF Arrive, Cancel, Middleware, ServeHTTP, Publish, Refuse, Admit, Pick, Forward, BlameFirst,
              Retry, ForwardAlt, Settle, Record, IncrSuccess, Spawn
<1> QED
  BY <1>1, <1>2, <1>3, <1>4 DEF Next, vars

\* A request whose own variables do not change, except that it may be cancelled.
LEMMA Elsewhere ==
  ASSUME NEW q \in Requests, Local(q),
         pc'[q] = pc[q], node'[q] = node[q], answer'[q] = answer[q], event'[q] = event[q],
         heard'[q] = heard[q], reports'[q] = reports[q], cancelled[q] => cancelled'[q]
  PROVE  Local(q)'
BY DEF Local, AtWork, HasHeard, Charged, NamesServer, Deserved

\* A request that hears, or goes on, before it is charged.
LEMMA WithoutEvent ==
  ASSUME NEW q \in Requests, Local(q), pc[q] # "done", event'[q] = event[q],
         heard[q] \subseteq heard'[q], reports'[q] = reports[q],
         pc'[q] = "done" => answer'[q].successes = 0
  PROVE  Charged(q)' /\ NamesServer(q)' /\ Deserved(q)'
<1>1. event[q] = NoEvent
  BY DEF Local, Charged
<1> QED
  BY <1>1 DEF Local, Charged, NamesServer, Deserved, NoEvent

\* Each step of a request keeps what it knows true.
LEMMA LocalStep ==
  ASSUME Typed, Upright, NEW r \in Requests, \A q \in Requests : Local(q),
         Arrive(r) \/ Cancel(r) \/ Middleware(r) \/ ServeHTTP(r) \/ Publish(r)
  PROVE  \A q \in Requests : Local(q)'
<1> USE DEF Typed, pool, sums, locals, ghosts, Goto
<1>1. \A q \in Requests \ {r} :
        /\ pc'[q] = pc[q] /\ node'[q] = node[q] /\ answer'[q] = answer[q] /\ event'[q] = event[q]
        /\ heard'[q] = heard[q] /\ reports'[q] = reports[q] /\ (cancelled[q] => cancelled'[q])
  <2>1. CASE Arrive(r) \/ Cancel(r) \/ Middleware(r) \/ Publish(r)
    BY <2>1 DEF Arrive, Cancel, Middleware, Refuse, Admit, Publish
  <2>2. CASE Pick(r) \/ Retry(r) \/ Record(r) \/ IncrSuccess(r) \/ Spawn(r)
    BY <2>2 DEF Pick, Retry, Record, IncrSuccess, Spawn
  <2>3. CASE Forward(r) \/ ForwardAlt(r)
    BY <2>3 DEF Forward, ForwardAlt, Hear
  <2>4. CASE BlameFirst(r) \/ Settle(r)
    BY <2>4 DEF BlameFirst, Settle, Reported
  <2> QED
    BY <2>1, <2>2, <2>3, <2>4 DEF ServeHTTP
<1>2. Local(r)'
  <2>1. CASE Arrive(r) \/ Admit(r) \/ Refuse(r)
    BY <2>1 DEF Arrive, Admit, Refuse, Error, Local, AtWork, Charged, NamesServer, Deserved
  <2>2. CASE Cancel(r)
    BY <2>2 DEF Cancel, Local, AtWork, HasHeard, Charged, NamesServer, Deserved
  <2>3. CASE Publish(r)
    BY <2>3 DEF Publish, NoEvent, Local, AtWork, HasHeard, Charged, NamesServer, Deserved
  <2>4. CASE Pick(r) \/ Retry(r)
    <3>1. /\ UNCHANGED <<answer, event, cancelled, heard, reports>> /\ pc[r] \in {"pick", "retry"}
          /\ pc'[r] \in {"forward", "reforward", "record"}
          /\ pc[r] = "pick" => pc'[r] = "forward"
          /\ pc'[r] = "record" => node' = node
      BY <2>4 DEF Pick, Retry
    <3>2. AtWork(r)'
      BY <3>1 DEF Local, AtWork, HasHeard
    <3> QED
      BY <3>1, <3>2, WithoutEvent DEF Local
  <2>5. CASE Forward(r) \/ ForwardAlt(r)
    <3>1. PICK n, a :
            /\ a \in Answers /\ Returns(r, n, a) /\ answer'[r] = a /\ heard'[r] = heard[r] \union {<<n, a>>}
            /\ pc[r] \in {"forward", "reforward"}
            /\ a.status # "error" => pc'[r] = "settle" /\ node'[r] = n
            /\ a.status = "error" => \/ pc'[r] = "failed" /\ node'[r] = n
                                     \/ pc'[r] = "record"
            /\ UNCHANGED <<up, cancelled, event, reports>>
      <4>1. CASE Forward(r)
        <5>1. PICK a \in Answers :
                /\ pc[r] = "forward"
                /\ pc' = [pc EXCEPT ![r] = IF a.status = "error" THEN "failed" ELSE "settle"]
                /\ Returns(r, node[r], a) /\ answer' = [answer EXCEPT ![r] = a]
                /\ heard' = [heard EXCEPT ![r] = @ \union {<<node[r], a>>}]
          BY <4>1 DEF Forward, Hear
        <5>2. UNCHANGED <<node, up, cancelled, event, reports>>
          BY <4>1 DEF Forward
        <5> QED
          BY <5>1, <5>2
      <4>2. CASE ForwardAlt(r)
        <5>1. PICK a \in Answers :
                /\ pc[r] = "reforward"
                /\ pc' = [pc EXCEPT ![r] = IF a.status = "error" THEN "record" ELSE "settle"]
                /\ Returns(r, alt[r], a) /\ answer' = [answer EXCEPT ![r] = a]
                /\ heard' = [heard EXCEPT ![r] = @ \union {<<alt[r], a>>}]
                /\ node' = [node EXCEPT ![r] = IF a.status = "error" THEN @ ELSE alt[r]]
          BY <4>2 DEF ForwardAlt, Hear
        <5>2. UNCHANGED <<up, cancelled, event, reports>>
          BY <4>2 DEF ForwardAlt
        <5> QED
          BY <5>1, <5>2
      <4> QED
        BY <2>5, <4>1, <4>2
    <3>2. a.status = "error" => a.successes = 0
      BY <3>1, AnswerFields
    <3>3. n \in Steady => (a.status # "5xx" /\ (a.status = "error" => cancelled[r]))
      BY <3>1 DEF Returns, Upright
    <3>4. AtWork(r)'
      BY <3>1, <3>2, <3>3 DEF AtWork, HasHeard
    <3> QED
      BY <3>1, <3>4, WithoutEvent DEF Local
  <2>6. CASE BlameFirst(r)
    <3>1. /\ pc[r] = "failed" /\ pc'[r] = "retry"
          /\ reports'[r] = reports[r] \union {<<node[r], "failure">>}
          /\ UNCHANGED <<node, answer, event, cancelled, heard>>
      BY <2>6 DEF BlameFirst, Reported
    <3>2. AtWork(r)' /\ Charged(r)' /\ NamesServer(r)'
      BY <3>1 DEF Local, AtWork, HasHeard, Charged, NamesServer
    <3>3. Deserved(r)'
      <4>1. <<node[r], answer[r]>> \in heard'[r] /\ UpstreamFailed(answer[r])
        BY <3>1 DEF Local, AtWork, HasHeard, UpstreamFailed
      <4> QED
        BY <3>1, <4>1 DEF Local, Deserved
    <3> QED
      BY <3>2, <3>3 DEF Local
  <2>7. CASE Settle(r)
    <3>1. /\ pc[r] = "settle" /\ pc'[r] = "record"
          /\ reports'[r] = reports[r] \union {<<node[r], Verdict(answer[r])>>}
          /\ UNCHANGED <<node, answer, event, cancelled, heard>>
      BY <2>7 DEF Settle, Reported
    <3>2. AtWork(r)' /\ Charged(r)' /\ NamesServer(r)'
      BY <3>1 DEF Local, AtWork, HasHeard, Charged, NamesServer
    <3>3. Deserved(r)'
      <4>1. /\ <<node[r], answer[r]>> \in heard'[r]
            /\ Verdict(answer[r]) = "failure" <=> UpstreamFailed(answer[r])
        BY <3>1 DEF Local, AtWork, HasHeard, UpstreamFailed, Verdict
      <4> QED
        BY <3>1, <4>1 DEF Local, Deserved
    <3> QED
      BY <3>2, <3>3 DEF Local
  <2>8. CASE Record(r) \/ IncrSuccess(r)
    <3>1. /\ UNCHANGED <<node, answer, event, cancelled, heard, reports>>
          /\ pc[r] \in {"record", "count"}
          /\ pc'[r] = "done" => answer[r].successes = 0
          /\ pc'[r] \in {"count", "publish"} => answer[r].successes > 0
          /\ pc'[r] \in {"count", "publish", "done"}
      <4>1. answer[r].successes \in Nat
        BY AnswerFields, ProxyAssumption
      <4> QED
        BY <2>8, <4>1 DEF Record, IncrSuccess, Local, AtWork
    <3>2. AtWork(r)'
      BY <3>1 DEF Local, AtWork, HasHeard
    <3> QED
      BY <3>1, <3>2, WithoutEvent DEF Local
  <2>9. CASE Spawn(r)
    <3>1. /\ pc[r] = "publish" /\ pc'[r] = "done"
          /\ event'[r] = [state |-> "pending", node |-> node[r], successes |-> answer[r].successes,
                          billable |-> r \in Paid]
          /\ UNCHANGED <<node, answer, cancelled, heard, reports>>
      BY <2>9 DEF Spawn
    <3>2. answer[r].successes > 0 /\ <<node[r], answer[r]>> \in heard[r]
      BY <3>1 DEF Local, AtWork, HasHeard
    <3>3. AtWork(r)' /\ Deserved(r)'
      BY <3>1 DEF Local, AtWork, Deserved
    <3>4. Charged(r)'
      <4>1. event'[r].billable = (r \in Paid)
        <5>1. PICK paid : paid = (r \in Paid)
          OBVIOUS
        <5>2. event'[r].billable = paid
          BY <3>1, <5>1
        <5> QED
          BY <5>1, <5>2, Zenon
      <4>2. event'[r].state = "pending" /\ event'[r].successes = answer'[r].successes
        BY <3>1
      <4> QED
        BY <3>1, <4>1, <4>2 DEF Charged
    <3>5. NamesServer(r)'
      BY <3>1, <3>2 DEF NamesServer
    <3> QED
      BY <3>3, <3>4, <3>5 DEF Local
  <2> QED
    BY <2>1, <2>2, <2>3, <2>4, <2>5, <2>6, <2>7, <2>8, <2>9 DEF Middleware, ServeHTTP
<1> QED
  BY <1>1, <1>2, Elsewhere

\* A report of success evicts no node, and one of failure no other node.
LEMMA ReportsEvict ==
  ASSUME Typed, NEW n
  PROVE  /\ ReportSuccess(n) => \A m \in Nodes : healthy[m] => healthy'[m]
         /\ ReportFailure(n) => \A m \in Nodes \ {n} : healthy[m] => healthy'[m]
BY DEF Typed, ReportSuccess, ReportFailure

\* Nodes are evicted by those who may, and what explains it stays.
LEMMA EvictionsStep == ASSUME ProxyInv, [Next]_vars PROVE EvictionsExplained'
<1> USE DEF ProxyInv, Typed, pool, sums, locals, ghosts, Goto
<1>1. ASSUME \A m \in Sound : healthy[m] => healthy'[m], UNCHANGED <<cancelled, reports>>
      PROVE  EvictionsExplained'
  BY <1>1 DEF EvictionsExplained, Sound
<1>2. CASE UNCHANGED vars
  BY <1>1, <1>2 DEF vars
<1>3. ASSUME NEW n \in Nodes, Probe(n) \/ NodeFails(n) \/ NodeRecovers(n) PROVE EvictionsExplained'
  <2>1. CASE Probe(n)
    <3>1. \A m \in Sound : healthy[m] => healthy'[m]
      BY <2>1, ReportsEvict DEF Probe, Upright, Steady, Sound
    <3> QED
      BY <1>1, <2>1, <3>1 DEF Probe
  <2>2. CASE NodeFails(n) \/ NodeRecovers(n)
    BY <1>1, <2>2 DEF NodeFails, NodeRecovers
  <2> QED
    BY <1>3, <2>1, <2>2
<1>4. ASSUME NEW r \in Requests, Cancel(r) PROVE EvictionsExplained'
  BY <1>4 DEF Cancel, EvictionsExplained
<1>5. ASSUME NEW r \in Requests, BlameFirst(r) PROVE EvictionsExplained'
  <2>1. /\ ReportFailure(node[r]) /\ UNCHANGED cancelled
        /\ reports' = [reports EXCEPT ![r] = @ \union {<<node[r], "failure">>}]
        /\ node[r] \in Steady => cancelled[r]
    BY <1>5 DEF BlameFirst, Reported, Local, AtWork
  <2>2. \A q \in Requests : reports[q] \subseteq reports'[q]
    BY <2>1
  <2>3. <<node[r], "failure">> \in reports'[r]
    BY <2>1
  <2> QED
    BY <2>1, <2>2, <2>3, ReportsEvict DEF EvictionsExplained, Steady, Sound
<1>6. ASSUME NEW r \in Requests, Settle(r) PROVE EvictionsExplained'
  <2>1. /\ UNCHANGED cancelled
        /\ reports' = [reports EXCEPT ![r] = @ \union {<<node[r], Verdict(answer[r])>>}]
        /\ \/ ReportSuccess(node[r])
           \/ ReportFailure(node[r]) /\ node[r] \notin Steady
    BY <1>6 DEF Settle, Reported, Local, AtWork, Verdict
  <2>2. \A q \in Requests : reports[q] \subseteq reports'[q]
    BY <2>1
  <2>3. \A m \in Sound : healthy[m] => healthy'[m]
    BY <2>1, ReportsEvict DEF Steady, Sound
  <2> QED
    BY <2>1, <2>2, <2>3 DEF EvictionsExplained, Sound
<1>7. ASSUME NEW r \in Requests, Arrive(r) \/ Middleware(r) \/ Publish(r) PROVE EvictionsExplained'
  BY <1>1, <1>7 DEF Arrive, Middleware, Refuse, Admit, Publish
<1>8. ASSUME NEW r \in Requests, Pick(r) \/ Forward(r) \/ Retry(r) \/ ForwardAlt(r)
      PROVE  EvictionsExplained'
  BY <1>1, <1>8 DEF Pick, Forward, Hear, Retry, ForwardAlt
<1>9. ASSUME NEW r \in Requests, Record(r) \/ IncrSuccess(r) \/ Spawn(r) PROVE EvictionsExplained'
  BY <1>1, <1>9 DEF Record, IncrSuccess, Spawn
<1> QED
  BY <1>2, <1>3, <1>4, <1>5, <1>6, <1>7, <1>8, <1>9 DEF Next, ServeHTTP

\* The requests' own part, for every step.
LEMMA LocalsStep == ASSUME ProxyInv, [Next]_vars PROVE \A r \in Requests : Local(r)'
<1>1. CASE UNCHANGED <<pc, locals, ghosts>>
  BY <1>1, Elsewhere DEF ProxyInv, locals, ghosts
<1>2. ASSUME NEW n \in Nodes, Probe(n) \/ NodeFails(n) \/ NodeRecovers(n)
      PROVE  UNCHANGED <<pc, locals, ghosts>>
  BY <1>2 DEF Probe, NodeFails, NodeRecovers
<1> QED
  BY <1>1, <1>2, LocalStep DEF ProxyInv, Next, vars

LEMMA ProxyInvariant == Spec => []ProxyInv
<1>1. ProxyInv /\ [Next]_vars => ProxyInv'
  BY TypedStep, UprightStep, LocalsStep, EvictionsStep DEF ProxyInv
<1> QED
  BY <1>1, ProxyInit, PTL DEF Spec

(***************************************************************************)
(* A billing event carries the successes of an answer its request          *)
(* received and names the node that gave it, whether or not ServeHTTP      *)
(* retried.                                                                *)
(***************************************************************************)
THEOREM EventsAreTruthful == Spec => []EventsNameTheServer
<1>1. ProxyInv => EventsNameTheServer
  BY DEF ProxyInv, Local, NamesServer, EventsNameTheServer
<1> QED
  BY <1>1, ProxyInvariant, PTL

(***************************************************************************)
(* No node is reported as failed, or as healthy, for another's answer: the *)
(* report before the retry is about the first node, the last one about the *)
(* node that answered.                                                     *)
(***************************************************************************)
THEOREM VerdictsAreDeserved == Spec => []VerdictsDeserved
<1>1. ProxyInv => VerdictsDeserved
  BY DEF ProxyInv, Local, Deserved, VerdictsDeserved
<1> QED
  BY <1>1, ProxyInvariant, PTL

(***************************************************************************)
(* A node that always serves, and answers every probe with a result,       *)
(* leaves the rotation only through a request whose context was cancelled, *)
(* whatever the thresholds and the number of requests and nodes, and       *)
(* however the other nodes fail or answer their probes.                    *)
(***************************************************************************)
THEOREM EvictionsAreExplained == Spec => []EvictionsExplained
<1>1. ProxyInv => EvictionsExplained
  BY DEF ProxyInv
<1> QED
  BY <1>1, ProxyInvariant, PTL

----------------------------------------------------------------------------
(* Statistics and billing events *)

\* The calls of the requests of S that have come to a position of P.
CallsAt(P, S) == {p \in S \X (1 .. MaxBatch) : pc[p[1]] \in P /\ p[2] <= answer[p[1]].successes}

\* Those that RecordProxy has counted, and those that IncrSuccess has seen.
Calls(S) == CallsAt({"count", "publish", "done"}, S)
Quoted(S) == CallsAt({"publish", "done"}, S)

CallsCounted ==
  /\ stats["billable"] = Cardinality(Calls(Paid))
  /\ stats["free"] = Cardinality(Calls(Requests \ Paid))

\* The requests whose context is not cancelled.
Kept == {r \in Requests : ~cancelled[r]}

QuotaCounted ==
  /\ counted \in Nat
  /\ counted <= Cardinality(Quoted(Requests))
  /\ ~RedisMayFail => counted >= Cardinality(Quoted(Kept))

\* The calls of finitely many requests are finitely many.
LEMMA CallsFinite ==
  ASSUME NEW P, NEW S \in SUBSET Requests
  PROVE  IsFiniteSet(CallsAt(P, S)) /\ Cardinality(CallsAt(P, S)) \in Nat
<1>1. IsFiniteSet(S \X (1 .. MaxBatch))
  <2>1. IsFiniteSet(S)
    BY ProxyAssumption, FS_Subset
  <2>2. IsFiniteSet(1 .. MaxBatch)
    <3>1. 1 \in Int /\ MaxBatch \in Int
      BY ProxyAssumption
    <3> QED
      BY <3>1, FS_Interval
  <2> QED
    BY <2>1, <2>2, FS_Product
<1>2. CallsAt(P, S) \subseteq S \X (1 .. MaxBatch)
  BY DEF CallsAt
<1> QED
  BY <1>1, <1>2, FS_Subset, FS_CardinalityType

\* Nothing has been counted at the start.
LEMMA CallsInit == Init => CallsCounted /\ QuotaCounted
<1> SUFFICES ASSUME Init PROVE CallsCounted /\ QuotaCounted
  OBVIOUS
<1>1. \A S \in SUBSET Requests : Calls(S) = {} /\ Quoted(S) = {}
  BY DEF Init, Calls, Quoted, CallsAt
<1>2. /\ Calls(Paid) = {} /\ Calls(Requests \ Paid) = {}
      /\ Quoted(Requests) = {} /\ Quoted(Kept) = {}
  <2>1. Kept \in SUBSET Requests
    BY DEF Kept
  <2> QED
    BY <1>1, <2>1, ProxyAssumption
<1>3. counted = 0 /\ stats["billable"] = 0 /\ stats["free"] = 0
  BY DEF Init, Counters
<1>4. Cardinality({}) = 0
  BY FS_EmptySet
<1>5. CallsCounted
  BY <1>2, <1>3, <1>4 DEF CallsCounted
<1>6. QuotaCounted
  BY <1>2, <1>3, <1>4 DEF QuotaCounted
<1> QED
  BY <1>5, <1>6

\* A request that comes to a position of P brings the calls of its answer.
LEMMA CallsEnter ==
  ASSUME Typed, NEW P, NEW r \in Requests, NEW S \in SUBSET Requests,
         pc[r] \notin P, pc'[r] \in P, answer' = answer,
         \A q \in Requests \ {r} : pc'[q] = pc[q]
  PROVE  Cardinality(CallsAt(P, S)')
           = Cardinality(CallsAt(P, S)) + IF r \in S THEN answer[r].successes ELSE 0
<1>2. answer[r].successes \in 0 .. MaxBatch
  BY AnswerFields DEF Typed
<1>3. CASE r \notin S
  <2>1. CallsAt(P, S)' = CallsAt(P, S)
    BY <1>3 DEF CallsAt
  <2> QED
    BY <1>3, <2>1, CallsFinite
<1>4. CASE r \in S
  <2> DEFINE new == {r} \X (1 .. answer[r].successes)
  <2>1. CallsAt(P, S)' = CallsAt(P, S) \union new
    BY <1>2, <1>4, ProxyAssumption DEF CallsAt
  <2>2. CallsAt(P, S) \cap new = {}
    BY DEF CallsAt
  <2>3. IsFiniteSet(new) /\ Cardinality(new) = answer[r].successes
    <3>1. PICK n \in Nat : n = answer[r].successes
      BY <1>2, ProxyAssumption
    <3>2. IsFiniteSet(1 .. n) /\ Cardinality(1 .. n) = IF 1 > n THEN 0 ELSE n - 1 + 1
      BY 1 \in Int, n \in Int, FS_Interval
    <3>3. IsFiniteSet({r}) /\ Cardinality({r}) = 1
      BY FS_Singleton
    <3>4. IsFiniteSet({r} \X (1 .. n)) /\ Cardinality({r} \X (1 .. n)) = 1 * Cardinality(1 .. n)
      BY <3>2, <3>3, FS_Product
    <3> QED
      BY <3>1, <3>2, <3>4
  <2> HIDE DEF new
  <2>4. IsFiniteSet(CallsAt(P, S)) /\ Cardinality(CallsAt(P, S)) \in Nat
    BY CallsFinite
  <2>5. Cardinality(CallsAt(P, S) \union new)
          = Cardinality(CallsAt(P, S)) + Cardinality(new) - Cardinality(CallsAt(P, S) \cap new)
    BY <2>3, <2>4, FS_Union
  <2>6. Cardinality(CallsAt(P, S) \cap new) = 0
    BY <2>2, FS_EmptySet
  <2>7. answer[r].successes \in Nat
    BY <1>2, ProxyAssumption
  <2>8. Cardinality(CallsAt(P, S)') = Cardinality(CallsAt(P, S)) + answer[r].successes
    BY <2>1, <2>3, <2>4, <2>5, <2>6, <2>7
  <2> QED
    BY <1>4, <2>8
<1> QED
  BY <1>3, <1>4

\* A step after which every request is as far as before, or has no calls, keeps them.
LEMMA CallsKept ==
  ASSUME NEW P, NEW S \in SUBSET Requests,
         \A r \in Requests : \/ pc'[r] = pc[r] /\ answer'[r] = answer[r]
                             \/ pc[r] \notin P /\ pc'[r] \notin P
                             \/ pc[r] \in P /\ pc'[r] \in P /\ answer'[r] = answer[r]
                             \/ pc[r] \notin P /\ answer'[r].successes = 0
  PROVE  CallsAt(P, S)' = CallsAt(P, S)
<1>1. ASSUME NEW q \in S, NEW k \in 1 .. MaxBatch
      PROVE  (pc'[q] \in P /\ k <= answer'[q].successes)
               <=> (pc[q] \in P /\ k <= answer[q].successes)
  <2>1. q \in Requests /\ ~ k <= 0
    BY ProxyAssumption
  <2> QED
    BY <2>1
<1> QED
  BY <1>1, ProxyAssumption DEF CallsAt

\* Only RecordProxy counts calls: those of the answer it records.
LEMMA CallsStep == ASSUME ProxyInv, CallsCounted, [Next]_vars PROVE CallsCounted'
<1> USE DEF pool, sums, locals, ghosts, Goto, Counters
<1> DEFINE P == {"count", "publish", "done"}
<1>1. ASSUME UNCHANGED <<stats["billable"], stats["free"]>>,
             \A r \in Requests : \/ pc'[r] = pc[r] /\ answer'[r] = answer[r]
                                 \/ pc[r] \notin P /\ pc'[r] \notin P
                                 \/ pc[r] \in P /\ pc'[r] \in P /\ answer'[r] = answer[r]
                                 \/ pc[r] \notin P /\ answer'[r].successes = 0
      PROVE  CallsCounted'
  <2>1. \A S \in SUBSET Requests : Calls(S)' = Calls(S)
    BY <1>1, CallsKept DEF Calls
  <2>2. Calls(Paid)' = Calls(Paid) /\ Calls(Requests \ Paid)' = Calls(Requests \ Paid)
    BY <2>1, ProxyAssumption
  <2> QED
    BY <1>1, <2>2 DEF CallsCounted
<1> USE DEF ProxyInv, Typed
<1>2. CASE UNCHANGED vars
  BY <1>1, <1>2 DEF vars
<1>3. ASSUME NEW n \in Nodes, Probe(n) \/ NodeFails(n) \/ NodeRecovers(n) PROVE CallsCounted'
  BY <1>1, <1>3 DEF Probe, NodeFails, NodeRecovers
<1>4. ASSUME NEW r \in Requests, Arrive(r) \/ Cancel(r) \/ Admit(r) \/ Publish(r) PROVE CallsCounted'
  BY <1>1, <1>4 DEF Arrive, Cancel, Admit, Publish
<1>5. ASSUME NEW r \in Requests, Refuse(r) PROVE CallsCounted'
  <2>1. answer[r].successes = 0
    BY <1>5 DEF Refuse, Local, AtWork, Error
  <2>2. UNCHANGED <<stats["billable"], stats["free"], answer>>
    BY <1>5 DEF Refuse
  <2> QED
    BY <1>1, <1>5, <2>1, <2>2 DEF Refuse
<1>6. ASSUME NEW r \in Requests, Pick(r) \/ BlameFirst(r) \/ Retry(r) \/ Settle(r) PROVE CallsCounted'
  BY <1>1, <1>6 DEF Pick, BlameFirst, Retry, Settle
<1>7. ASSUME NEW r \in Requests, Forward(r) \/ ForwardAlt(r) PROVE CallsCounted'
  BY <1>1, <1>7 DEF Forward, ForwardAlt, Hear
<1>8. ASSUME NEW r \in Requests, IncrSuccess(r) \/ Spawn(r) PROVE CallsCounted'
  BY <1>1, <1>8 DEF IncrSuccess, Spawn
<1>9. ASSUME NEW r \in Requests, Record(r) PROVE CallsCounted'
  <2>1. answer[r].successes \in Nat
    BY AnswerFields, ProxyAssumption
  <2>2. /\ stats'["billable"] = stats["billable"] + IF r \in Paid THEN answer[r].successes ELSE 0
        /\ stats'["free"] = stats["free"] + IF r \in Requests \ Paid THEN answer[r].successes ELSE 0
    BY <1>9, <2>1 DEF Record, Increments
  <2>3. /\ pc[r] \notin P /\ pc'[r] \in P /\ answer' = answer
        /\ \A q \in Requests \ {r} : pc'[q] = pc[q]
    BY <1>9 DEF Record
  <2>4. \A S \in SUBSET Requests :
          Cardinality(Calls(S)') = Cardinality(Calls(S)) + IF r \in S THEN answer[r].successes ELSE 0
    BY <2>3, CallsEnter DEF Calls
  <2>5. /\ Cardinality(Calls(Paid)')
             = Cardinality(Calls(Paid)) + IF r \in Paid THEN answer[r].successes ELSE 0
        /\ Cardinality(Calls(Requests \ Paid)')
             = Cardinality(Calls(Requests \ Paid)) + IF r \in Requests \ Paid THEN answer[r].successes ELSE 0
    BY <2>4, ProxyAssumption
  <2> QED
    BY <2>2, <2>5 DEF CallsCounted
<1> QED
  BY <1>2, <1>3, <1>4, <1>5, <1>6, <1>7, <1>8, <1>9 DEF Next, Middleware, ServeHTTP

(***************************************************************************)
(* The billable and free calls of the statistics are the calls of the      *)
(* billing events when no request is between the two, for any number of    *)
(* requests: RecordProxy and the billing goroutine see the same answer.    *)
(***************************************************************************)
THEOREM StatsAndEventsAgree == Spec => []StatsMatchEvents
<1>1. ProxyInv /\ CallsCounted => StatsMatchEvents
  <2> SUFFICES ASSUME ProxyInv, CallsCounted, \A r \in Requests : pc[r] \notin {"count", "publish"}
               PROVE  EventCalls(TRUE) = Calls(Paid) /\ EventCalls(FALSE) = Calls(Requests \ Paid)
    BY DEF StatsMatchEvents, CallsCounted
  <2>1. \A r \in Requests, k \in 1 .. MaxBatch :
          k <= event[r].successes <=> pc[r] = "done" /\ k <= answer[r].successes
    BY DEF ProxyInv, Local, Charged, NoEvent
  <2>2. ASSUME NEW r \in Requests, NEW k \in 1 .. MaxBatch, k <= event[r].successes
        PROVE  event[r].billable = (r \in Paid)
    BY <2>2 DEF ProxyInv, Local, Charged, NoEvent
  <2>3. ASSUME NEW r \in Requests, NEW k \in 1 .. MaxBatch
        PROVE  /\ <<r, k>> \in EventCalls(TRUE) <=> <<r, k>> \in Calls(Paid)
               /\ <<r, k>> \in EventCalls(FALSE) <=> <<r, k>> \in Calls(Requests \ Paid)
    <3>1. /\ <<r, k>> \in EventCalls(TRUE) <=>
               event[r].billable = TRUE /\ k <= event[r].successes
          /\ <<r, k>> \in EventCalls(FALSE) <=>
               event[r].billable = FALSE /\ k <= event[r].successes
      BY DEF EventCalls
    <3>2. \A S \in SUBSET Requests : <<r, k>> \in Calls(S) <=>
            r \in S /\ pc[r] \in {"count", "publish", "done"} /\ k <= answer[r].successes
      BY DEF Calls, CallsAt
    <3>3. /\ <<r, k>> \in Calls(Paid) <=> r \in Paid /\ k <= event[r].successes
          /\ <<r, k>> \in Calls(Requests \ Paid) <=> r \notin Paid /\ k <= event[r].successes
      <4>1. k <= event[r].successes <=> pc[r] = "done" /\ k <= answer[r].successes
        BY <2>1
      <4>2. pc[r] \in {"count", "publish", "done"} <=> pc[r] = "done"
        OBVIOUS
      <4>3. Paid \in SUBSET Requests /\ Requests \ Paid \in SUBSET Requests
        BY ProxyAssumption
      <4>4. r \in Requests \ Paid <=> r \notin Paid
        OBVIOUS
      <4> QED
        BY <3>2, <4>1, <4>2, <4>3, <4>4, Zenon
    <3>4. CASE k <= event[r].successes
      <4>1. event[r].billable = (r \in Paid)
        BY <2>2, <3>4
      <4>2. CASE r \in Paid
        <5>1. event[r].billable = TRUE
          BY <4>1, <4>2, Zenon
        <5> QED
          BY <3>1, <3>3, <3>4, <4>2, <5>1
      <4>3. CASE r \notin Paid
        <5>1. event[r].billable = FALSE
          <6>1. (r \in Paid) = FALSE
            BY <4>3
          <6> QED
            BY <4>1, <6>1
        <5> QED
          BY <3>1, <3>3, <3>4, <4>3, <5>1
      <4> QED
        BY <4>2, <4>3
    <3> QED
      BY <3>1, <3>3, <3>4, Zenon
  <2>4. /\ EventCalls(TRUE) \subseteq Requests \X (1 .. MaxBatch)
        /\ EventCalls(FALSE) \subseteq Requests \X (1 .. MaxBatch)
        /\ Calls(Paid) \subseteq Requests \X (1 .. MaxBatch)
        /\ Calls(Requests \ Paid) \subseteq Requests \X (1 .. MaxBatch)
    BY ProxyAssumption DEF EventCalls, Calls, CallsAt
  <2>5. ASSUME NEW A \in SUBSET (Requests \X (1 .. MaxBatch)),
               NEW B \in SUBSET (Requests \X (1 .. MaxBatch)),
               \A r \in Requests, k \in 1 .. MaxBatch : <<r, k>> \in A <=> <<r, k>> \in B
        PROVE  A = B
    <3>1. ASSUME NEW p \in Requests \X (1 .. MaxBatch) PROVE p \in A <=> p \in B
      <4>1. PICK r \in Requests, k \in 1 .. MaxBatch : p = <<r, k>>
        OBVIOUS
      <4> QED
        BY <2>5, <4>1
    <3> QED
      BY <3>1
  <2> QED
    BY <2>3, <2>4, <2>5, Zenon
<1>2. ProxyInv /\ CallsCounted /\ [Next]_vars => CallsCounted'
  BY CallsStep
<1> QED
  BY <1>1, <1>2, CallsInit, ProxyInvariant, PTL DEF Spec

----------------------------------------------------------------------------
(* The daily quota and billing events *)

\* A step that counts nothing, takes no request past IncrSuccess and cancels none.
QuotaStill ==
  LET P == {"publish", "done"} IN
  /\ UNCHANGED <<counted, cancelled>>
  /\ \A r \in Requests : \/ pc'[r] = pc[r] /\ answer'[r] = answer[r]
                         \/ pc[r] \notin P /\ pc'[r] \notin P
                         \/ pc[r] \in P /\ pc'[r] \in P /\ answer'[r] = answer[r]
                         \/ pc[r] \notin P /\ answer'[r].successes = 0

\* Such a step keeps the count as it is related to the calls.
LEMMA QuotaStillStep == ASSUME QuotaCounted, QuotaStill PROVE QuotaCounted'
<1>1. \A S \in SUBSET Requests : Quoted(S)' = Quoted(S)
  BY CallsKept DEF Quoted, QuotaStill
<1>2. Quoted(Requests)' = Quoted(Requests)
  BY <1>1
<1>3. Quoted(Kept)' = Quoted(Kept)
  <2>1. PICK K \in SUBSET Requests : K = Kept
    BY DEF Kept
  <2>2. Kept' = K
    BY <2>1 DEF QuotaStill, Kept
  <2>3. Quoted(Kept)' = CallsAt({"publish", "done"}, K)'
    BY <2>2 DEF Quoted, CallsAt
  <2>4. CallsAt({"publish", "done"}, K)' = CallsAt({"publish", "done"}, K)
    BY <1>1 DEF Quoted
  <2> QED
    BY <2>1, <2>3, <2>4 DEF Quoted
<1> QED
  BY <1>2, <1>3 DEF QuotaCounted, QuotaStill

\* IncrSuccess counts the calls of its request or, only if the request is
\* cancelled or Redis fails, none of them.
LEMMA QuotaIncr ==
  ASSUME ProxyInv, QuotaCounted, NEW r \in Requests, IncrSuccess(r)
  PROVE  QuotaCounted'
<1> DEFINE P == {"publish", "done"}
           k == answer[r].successes
<1>1. /\ pc[r] \notin P /\ pc'[r] \in P /\ answer' = answer /\ cancelled' = cancelled
      /\ \A q \in Requests \ {r} : pc'[q] = pc[q]
  BY DEF IncrSuccess, Goto, locals, ProxyInv, Typed
<1>2. k \in Nat
  BY AnswerFields, ProxyAssumption DEF ProxyInv, Typed
<1>3. PICK K \in SUBSET Requests : K = Kept
  BY DEF Kept
<1>4. Quoted(Kept)' = CallsAt(P, K)' /\ Quoted(Kept) = CallsAt(P, K)
  <2>1. Kept' = K
    BY <1>1, <1>3 DEF Kept
  <2> QED
    BY <1>3, <2>1 DEF Quoted, CallsAt
<1>5. Typed
  BY DEF ProxyInv
<1> HIDE DEF P, k
<1>6. Cardinality(CallsAt(P, Requests)') = Cardinality(CallsAt(P, Requests)) + k
  BY <1>1, <1>5, CallsEnter DEF k
<1>7. Cardinality(CallsAt(P, K)') = Cardinality(CallsAt(P, K)) + IF r \in K THEN k ELSE 0
  BY <1>1, <1>5, CallsEnter DEF k
<1>8. /\ Cardinality(CallsAt(P, Requests)) \in Nat
      /\ Cardinality(CallsAt(P, K)) \in Nat
  BY CallsFinite
<1>9. Quoted(Requests)' = CallsAt(P, Requests)' /\ Quoted(Requests) = CallsAt(P, Requests)
  BY DEF Quoted, P
<1>10. \/ counted' = counted + k
       \/ (cancelled[r] \/ RedisMayFail) /\ counted' = counted
  BY DEF IncrSuccess, k
<1>11. counted \in Nat /\ counted <= Cardinality(CallsAt(P, Requests))
       /\ (~RedisMayFail => counted >= Cardinality(CallsAt(P, K)))
  BY <1>4, <1>9 DEF QuotaCounted
<1>12. cancelled[r] => r \notin K
  BY <1>3 DEF Kept
<1>13. counted' \in Nat /\ counted' <= Cardinality(Quoted(Requests)')
  BY <1>2, <1>6, <1>8, <1>9, <1>10, <1>11
<1>14. ~RedisMayFail => counted' >= Cardinality(Quoted(Kept)')
  <2>1. CASE r \in K
    BY <1>2, <1>4, <1>7, <1>8, <1>10, <1>11, <1>12, <2>1
  <2>2. CASE r \notin K
    BY <1>2, <1>4, <1>7, <1>8, <1>10, <1>11, <2>2
  <2> QED
    BY <2>1, <2>2
<1> QED
  BY <1>13, <1>14 DEF QuotaCounted

\* A request that is cancelled leaves the kept ones, and the count as it is.
LEMMA QuotaCancel ==
  ASSUME ProxyInv, QuotaCounted, NEW r \in Requests, Cancel(r)
  PROVE  QuotaCounted'
<1>1. UNCHANGED <<counted, pc, answer>> /\ Kept' \subseteq Kept /\ Kept \subseteq Requests
  BY DEF Cancel, Kept, sums, ProxyInv, Typed
<1>2. Quoted(Requests)' = Quoted(Requests)
  BY <1>1 DEF Quoted, CallsAt
<1>3. Quoted(Kept)' \subseteq Quoted(Kept)
  BY <1>1 DEF Quoted, CallsAt
<1>4. IsFiniteSet(Quoted(Kept)) /\ Cardinality(Quoted(Kept)) \in Nat
  <2>1. PICK K \in SUBSET Requests : K = Kept
    BY <1>1
  <2>2. /\ IsFiniteSet(CallsAt({"publish", "done"}, K))
        /\ Cardinality(CallsAt({"publish", "done"}, K)) \in Nat
    BY CallsFinite
  <2> QED
    BY <2>1, <2>2 DEF Quoted
<1>5. /\ Cardinality(Quoted(Kept)') <= Cardinality(Quoted(Kept))
      /\ Cardinality(Quoted(Kept)') \in Nat
  BY <1>3, <1>4, FS_Subset, FS_CardinalityType
<1> QED
  BY <1>1, <1>2, <1>4, <1>5 DEF QuotaCounted

\* Every step keeps the count between the calls of the kept requests and all calls.
LEMMA QuotaCountStep == ASSUME ProxyInv, QuotaCounted, [Next]_vars PROVE QuotaCounted'
<1> USE DEF pool, sums, locals, ghosts, Goto
<1>1. CASE UNCHANGED vars
  BY <1>1, QuotaStillStep DEF vars, QuotaStill
<1>2. ASSUME NEW n \in Nodes, Probe(n) \/ NodeFails(n) \/ NodeRecovers(n) PROVE QuotaCounted'
  BY <1>2, QuotaStillStep DEF Probe, NodeFails, NodeRecovers, QuotaStill
<1>3. ASSUME NEW r \in Requests, Arrive(r) \/ Admit(r) \/ Publish(r) PROVE QuotaCounted'
  BY <1>3, QuotaStillStep DEF Arrive, Admit, Publish, QuotaStill, ProxyInv, Typed
<1>4. ASSUME NEW r \in Requests, Refuse(r) PROVE QuotaCounted'
  <2>1. pc[r] = "admit" /\ answer[r].successes = 0
    BY <1>4 DEF Refuse, ProxyInv, Local, AtWork, Error
  <2> QED
    BY <1>4, <2>1, QuotaStillStep DEF Refuse, QuotaStill, ProxyInv, Typed
<1>5. ASSUME NEW r \in Requests, Pick(r) \/ BlameFirst(r) \/ Retry(r) \/ Settle(r)
      PROVE  QuotaCounted'
  BY <1>5, QuotaStillStep DEF Pick, BlameFirst, Retry, Settle, QuotaStill, ProxyInv, Typed
<1>6. ASSUME NEW r \in Requests, Forward(r) \/ ForwardAlt(r) PROVE QuotaCounted'
  BY <1>6, QuotaStillStep DEF Forward, ForwardAlt, Hear, QuotaStill, ProxyInv, Typed
<1>7. ASSUME NEW r \in Requests, Record(r) PROVE QuotaCounted'
  <2>1. answer[r].successes \in Nat /\ pc[r] = "record"
    BY <1>7, AnswerFields, ProxyAssumption DEF Record, ProxyInv, Typed
  <2>2. pc'[r] = "count" \/ (pc'[r] = "done" /\ answer[r].successes = 0)
    BY <1>7, <2>1 DEF Record, ProxyInv, Typed
  <2> QED
    BY <1>7, <2>1, <2>2, QuotaStillStep DEF Record, QuotaStill, ProxyInv, Typed
<1>8. ASSUME NEW r \in Requests, Spawn(r) PROVE QuotaCounted'
  BY <1>8, QuotaStillStep DEF Spawn, QuotaStill, ProxyInv, Typed
<1> QED
  BY <1>1, <1>2, <1>3, <1>4, <1>5, <1>6, <1>7, <1>8, QuotaIncr, QuotaCancel
     DEF Next, Middleware, ServeHTTP

(***************************************************************************)
(* The daily quota counts the calls of the billing events, billable or     *)
(* free, and no others, when no request is between IncrSuccess and its     *)
(* event; without failures of Redis only cancelled requests are missing,   *)
(* for any number of requests and any size of their batches.               *)
(***************************************************************************)
THEOREM QuotaFollowsEvents == Spec => []QuotaMatchesEvents
<1>1. ProxyInv /\ QuotaCounted => QuotaMatchesEvents
  <2> SUFFICES ASSUME ProxyInv, QuotaCounted, \A r \in Requests : pc[r] # "publish"
               PROVE  /\ ChargedCalls = Quoted(Requests)
                      /\ {p \in ChargedCalls : ~cancelled[p[1]]} = Quoted(Kept)
    BY DEF QuotaMatchesEvents, QuotaCounted
  <2>1. ASSUME NEW r \in Requests, NEW k \in 1 .. MaxBatch
        PROVE  <<r, k>> \in ChargedCalls <=> pc[r] \in {"publish", "done"} /\ k <= answer[r].successes
    <3>1. <<r, k>> \in ChargedCalls <=>
            /\ event[r].billable = TRUE \/ event[r].billable = FALSE
            /\ k <= event[r].successes
      BY DEF ChargedCalls, EventCalls
    <3>2. k <= event[r].successes <=> pc[r] \in {"publish", "done"} /\ k <= answer[r].successes
      BY DEF ProxyInv, Local, Charged, NoEvent
    <3>3. k <= event[r].successes => event[r].billable = TRUE \/ event[r].billable = FALSE
      <4> SUFFICES ASSUME k <= event[r].successes
                   PROVE  event[r].billable = TRUE \/ event[r].billable = FALSE
        OBVIOUS
      <4>1. event[r].billable = (r \in Paid)
        BY DEF ProxyInv, Local, Charged, NoEvent
      <4>2. (r \in Paid) = TRUE \/ (r \in Paid) = FALSE
        OBVIOUS
      <4> QED
        BY <4>1, <4>2
    <3> QED
      BY <3>1, <3>2, <3>3, Zenon
  <2>2. ChargedCalls \subseteq Requests \X (1 .. MaxBatch)
    BY DEF ChargedCalls, EventCalls
  <2>3. \A p \in Requests \X (1 .. MaxBatch) :
          p \in ChargedCalls <=> pc[p[1]] \in {"publish", "done"} /\ p[2] <= answer[p[1]].successes
    <3> TAKE p \in Requests \X (1 .. MaxBatch)
    <3>1. PICK r \in Requests, k \in 1 .. MaxBatch : p = <<r, k>>
      OBVIOUS
    <3> QED
      BY <2>1, <3>1
  <2>4. ChargedCalls = Quoted(Requests)
    BY <2>2, <2>3 DEF Quoted, CallsAt
  <2>5. {p \in ChargedCalls : ~cancelled[p[1]]} = Quoted(Kept)
    BY <2>4 DEF Quoted, CallsAt, Kept
  <2> QED
    BY <2>4, <2>5
<1>2. ProxyInv /\ QuotaCounted /\ [Next]_vars => QuotaCounted'
  BY QuotaCountStep
<1> QED
  BY <1>1, <1>2, CallsInit, ProxyInvariant, PTL DEF Spec
==============================================================================
