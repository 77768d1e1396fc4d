----------------------------- MODULE HttpProxy -----------------------------
(***************************************************************************)
(* One HTTP request of one network, from the router to the answer: the     *)
(* middleware (internal/middleware), proxy.Handler.ServeHTTP with its one  *)
(* retry, the reports to the pool, the statistics and the billing event.   *)
(* Requests run concurrently and share the pool and the counters; clients  *)
(* leave, nodes fail and recover, and probes report, at any time.  What    *)
(* becomes of the billing event is the subject of Billing.                 *)
(*                                                                         *)
(* A call of the pool or of the statistics is one step here.  NodeHealth   *)
(* and NodePool open up the pool's calls, Limiter those of the limiter.    *)
(***************************************************************************)
EXTENDS Integers, Sequences, FiniteSetsExt

CONSTANTS Requests,          \* goroutines, each serving one request
          Paid,              \* the requests of tokens that are not billing_free
          Weights,           \* the nodes' weights, in the order of the pool
          Flaky,             \* the nodes that may fail
          Erring,            \* the nodes that may answer a probe below 500 with a
                             \* JSON-RPC error, or with no JSON at all
          Leaving,           \* the requests whose context may be cancelled
          UnhealthyThreshold, HealthyThreshold,
          RedisMayFail,      \* counting for the quota may fail
          MaxBatch           \* most successes in one answer

ASSUME ProxyAssumption ==
  /\ IsFiniteSet(Requests)
  /\ Paid \subseteq Requests
  /\ Weights \in Seq(Nat \ {0}) /\ Weights # <<>>
  /\ Flaky \union Erring \subseteq DOMAIN Weights
  /\ Leaving \subseteq Requests
  /\ {UnhealthyThreshold, HealthyThreshold} \subseteq Nat \ {0}
  /\ RedisMayFail \in BOOLEAN
  /\ MaxBatch \in Nat

Nodes == DOMAIN Weights

\* What a forwarded request comes back with; "other" is a status below 500 that
\* is not 2xx.  JSON-RPC errors in a 2xx answer are the calls that did not succeed.
Answers ==
  [status : {"error", "5xx", "other"}, successes : {0}]
    \union [status : {"2xx"}, successes : 0 .. MaxBatch]
Error == [status |-> "error", successes |-> 0]

\* The global counters that tell requests apart by their outcome; those that tell
\* refusals and JSON-RPC errors apart are left out.
Counters == {"requests", "proxied", "success", "upstreamErrors", "billable", "free"}

NoEvent == [state |-> "none", node |-> 0, successes |-> 0, billable |-> FALSE]

VARIABLES up,         \* external: whether each node serves requests
          healthy, fails, oks, rr,   \* the pool
          stats,      \* the collector's global counters
          counted,    \* successes added to the daily quota
          pc,         \* where each request is
          cancelled,  \* its context is cancelled: client gone or WriteTimeout
          node,       \* the node it is sent to (0: none yet)
          alt,        \* the node of its retry (0: none)
          answer,     \* what came back
          event,      \* its billing event
          heard,      \* ghost: the pairs of a node and its answer to the request
          reports     \* ghost: the pairs of a node and the verdict reported for it

pool == <<healthy, fails, oks, rr>>
ghosts == <<heard, reports>>
sums == <<stats, counted>>
locals == <<cancelled, node, alt, answer, event>>
vars == <<up, pool, sums, pc, locals, ghosts>>

Init ==
  /\ up = [n \in Nodes |-> TRUE]
  /\ healthy = [n \in Nodes |-> TRUE]
  /\ fails = [n \in Nodes |-> 0]
  /\ oks = [n \in Nodes |-> 0]
  /\ rr = 0
  /\ stats = [c \in Counters |-> 0]
  /\ counted = 0
  /\ pc = [r \in Requests |-> "idle"]
  /\ cancelled = [r \in Requests |-> FALSE]
  /\ node = [r \in Requests |-> 0]
  /\ alt = [r \in Requests |-> 0]
  /\ answer = [r \in Requests |-> Error]
  /\ event = [r \in Requests |-> NoEvent]
  /\ heard = [r \in Requests |-> {}]
  /\ reports = [r \in Requests |-> {}]

Goto(r, from, to) == pc[r] = from /\ pc' = [pc EXCEPT ![r] = to]

----------------------------------------------------------------------------
(* The pool: selection and reports *)

Healthy == {n \in Nodes : healthy[n]}
TotalWeight(S) == MapThenSumSet(LAMBDA n : Weights[n], S)

\* p.rr after Next.
Turn == (rr + 1) % (IF Healthy = {} THEN Len(Weights) ELSE TotalWeight(Healthy))

\* The healthy nodes whose cursor exceeds the turn.
Beyond == {n \in Healthy : Turn < TotalWeight({m \in Healthy : m <= n})}

\* The node Next returns.
Chosen ==
  IF Healthy = {} THEN Turn + 1 ELSE Min(IF Beyond = {} THEN Healthy ELSE Beyond)

AtMost(x, cap) == IF x > cap THEN cap ELSE x

\* okCount grows without bound while a node is healthy; only whether it has
\* reached the threshold is ever asked.  The same holds of failCount.
ReportSuccess(n) ==
  LET seen == AtMost(oks[n] + 1, HealthyThreshold) IN
  /\ fails' = [fails EXCEPT ![n] = 0]
  /\ IF ~healthy[n] /\ seen >= HealthyThreshold
     THEN healthy' = [healthy EXCEPT ![n] = TRUE] /\ oks' = [oks EXCEPT ![n] = 0]
     ELSE oks' = [oks EXCEPT ![n] = seen] /\ UNCHANGED healthy

ReportFailure(n) ==
  /\ oks' = [oks EXCEPT ![n] = 0]
  /\ fails' = [fails EXCEPT ![n] = AtMost(fails[n] + 1, UnhealthyThreshold)]
  /\ healthy' = [healthy EXCEPT ![n] = @ /\ fails'[n] < UnhealthyThreshold]

\* One node of checkAll.  A probe asks more than a request does: a result.
Probe(n) ==
  /\ \/ up[n] /\ ReportSuccess(n)
     \/ (~up[n] \/ n \in Erring) /\ ReportFailure(n)
  /\ UNCHANGED <<up, rr, sums, pc, locals, ghosts>>

----------------------------------------------------------------------------
(* External: nodes and clients *)

NodeFails(n) ==
  /\ n \in Flaky /\ up[n]
  /\ up' = [up EXCEPT ![n] = FALSE]
  /\ UNCHANGED <<pool, sums, pc, locals, ghosts>>

NodeRecovers(n) ==
  /\ ~up[n]
  /\ up' = [up EXCEPT ![n] = TRUE]
  /\ UNCHANGED <<pool, sums, pc, locals, ghosts>>

Cancel(r) ==
  /\ r \in Leaving /\ pc[r] \notin {"idle", "done"}
  /\ cancelled' = [cancelled EXCEPT ![r] = TRUE]
  /\ UNCHANGED <<up, pool, sums, pc, node, alt, answer, event, ghosts>>

----------------------------------------------------------------------------
(* Middleware: one step, for it shares nothing but the counters and the limiter *)

Arrive(r) ==
  /\ Goto(r, "idle", "admit")
  /\ UNCHANGED <<up, pool, sums, locals, ghosts>>

\* Domain, PathAuth, MethodFilter or RateLimit refuses the request, and so does
\* ServeHTTP what it cannot read.  Only a denied token, method or rate counts as
\* a request.
Refuse(r) ==
  /\ Goto(r, "admit", "done")
  /\ stats' \in {stats, [stats EXCEPT !["requests"] = @ + 1]}
  /\ UNCHANGED <<up, pool, counted, locals, ghosts>>

Admit(r) ==
  /\ Goto(r, "admit", "pick")
  /\ UNCHANGED <<up, pool, sums, locals, ghosts>>

----------------------------------------------------------------------------
(* ServeHTTP: pick, forward, retry once, report *)

Pick(r) ==                   \* pool.Next; a pool is never empty (config.validate)
  /\ Goto(r, "pick", "forward")
  /\ rr' = Turn
  /\ node' = [node EXCEPT ![r] = Chosen]
  /\ UNCHANGED <<up, healthy, fails, oks, sums, cancelled, alt, answer, event, ghosts>>

\* External: a node that is up answers below 500; one that is down answers 5xx
\* or not at all, and so does any node once the request is cancelled.
Returns(r, n, a) ==
  /\ a.status = "error" => ~up[n] \/ cancelled[r]
  /\ a.status = "5xx" => ~up[n]
  /\ a.status \in {"other", "2xx"} => up[n]

Hear(r, n, a) ==
  /\ Returns(r, n, a)
  /\ answer' = [answer EXCEPT ![r] = a]
  /\ heard' = [heard EXCEPT ![r] = @ \union {<<n, a>>}]

Forward(r) ==
  /\ \E a \in Answers :
       /\ Goto(r, "forward", IF a.status = "error" THEN "failed" ELSE "settle")
       /\ Hear(r, node[r], a)
  /\ UNCHANGED <<up, pool, sums, cancelled, node, alt, event, reports>>

Reported(r, n, verdict) == reports' = [reports EXCEPT ![r] = @ \union {<<n, verdict>>}]

BlameFirst(r) ==
  /\ Goto(r, "failed", "retry")
  /\ ReportFailure(node[r])
  /\ Reported(r, node[r], "failure")
  /\ UNCHANGED <<up, rr, sums, locals, heard>>

RetryForever(r) ==
  /\ Goto(r, "retry", "forward")
  /\ rr' = Turn
  /\ node' = [node EXCEPT ![r] = Chosen]
  /\ UNCHANGED <<up, healthy, fails, oks, sums, cancelled, alt, answer, event, ghosts>>

Retry(r) ==                  \* only if Next now returns another node
  /\ rr' = Turn
  /\ \/ /\ Chosen # node[r]
        /\ Goto(r, "retry", "reforward")
        /\ alt' = [alt EXCEPT ![r] = Chosen]
     \/ /\ Chosen = node[r]
        /\ Goto(r, "retry", "record")
        /\ UNCHANGED alt
  /\ UNCHANGED <<up, healthy, fails, oks, sums, cancelled, node, answer, event, ghosts>>

ForwardAltForgetsNode(r) ==
  /\ \E a \in Answers :
       /\ Goto(r, "reforward", IF a.status = "error" THEN "record" ELSE "settle")
       /\ Hear(r, alt[r], a)
  /\ UNCHANGED <<up, pool, sums, cancelled, node, alt, event, reports>>

ForwardAlt(r) ==             \* a second error is reported to no one
  /\ \E a \in Answers :
       /\ Goto(r, "reforward", IF a.status = "error" THEN "record" ELSE "settle")
       /\ Hear(r, alt[r], a)
       /\ node' = [node EXCEPT ![r] = IF a.status = "error" THEN @ ELSE alt[r]]
  /\ UNCHANGED <<up, pool, sums, cancelled, alt, event, reports>>

VerdictAnyAnswer(a) == "success"

VerdictOtherFails(a) == IF a.status \in {"5xx", "other"} THEN "failure" ELSE "success"

Verdict(a) == IF a.status = "5xx" THEN "failure" ELSE "success"

Settle(r) ==
  /\ Goto(r, "settle", "record")
  /\ IF Verdict(answer[r]) = "failure" THEN ReportFailure(node[r]) ELSE ReportSuccess(node[r])
  /\ Reported(r, node[r], Verdict(answer[r]))
  /\ UNCHANGED <<up, rr, sums, locals, heard>>

----------------------------------------------------------------------------
(* ServeHTTP: statistics, quota and billing event *)

UpstreamFailed(a) == a.status \in {"error", "5xx"}

IncrementsAlwaysBillable(r) ==
  LET a == answer[r] IN
  [c \in Counters |->
     CASE c \in {"requests", "proxied"} -> 1
       [] c = "upstreamErrors" /\ UpstreamFailed(a) -> 1
       [] c \in {"success", "billable"} -> a.successes
       [] OTHER -> 0]

\* RecordProxy: what it adds to each counter.
Increments(r) ==
  LET a == answer[r] IN
  [c \in Counters |->
     CASE c \in {"requests", "proxied"} -> 1
       [] c = "upstreamErrors" /\ UpstreamFailed(a) -> 1
       [] c \in {"success", IF r \in Paid THEN "billable" ELSE "free"} -> a.successes
       [] OTHER -> 0]

Record(r) ==
  /\ Goto(r, "record", IF answer[r].successes > 0 THEN "count" ELSE "done")
  /\ stats' = [c \in Counters |-> stats[c] + Increments(r)[c]]
  /\ UNCHANGED <<up, pool, counted, locals, ghosts>>

IncrSuccessPaidOnly(r) ==
  /\ Goto(r, "count", "publish")
  /\ counted' = counted + IF r \in Paid THEN answer[r].successes ELSE 0
  /\ UNCHANGED <<up, pool, stats, locals, ghosts>>

\* Free calls count too.  The call to Redis has the request's context, and its
\* error is ignored.
IncrSuccess(r) ==
  /\ Goto(r, "count", "publish")
  /\ \/ counted' = counted + answer[r].successes
     \/ (cancelled[r] \/ RedisMayFail) /\ UNCHANGED counted
  /\ UNCHANGED <<up, pool, stats, locals, ghosts>>

Spawn(r) ==                  \* go func() { ... Publish ... }
  /\ Goto(r, "publish", "done")
  /\ event' = [event EXCEPT ![r] = [state |-> "pending", node |-> node[r],
                                    successes |-> answer[r].successes,
                                    billable |-> r \in Paid]]
  /\ UNCHANGED <<up, pool, sums, cancelled, node, alt, answer, ghosts>>

Publish(r) ==                \* or it fails, at the latest after three seconds
  /\ event[r].state = "pending"
  /\ event' = [event EXCEPT ![r].state = "settled"]
  /\ UNCHANGED <<up, pool, sums, pc, cancelled, node, alt, answer, ghosts>>

----------------------------------------------------------------------------
Middleware(r) == Refuse(r) \/ Admit(r)

ServeHTTP(r) ==
  \/ Pick(r) \/ Forward(r) \/ BlameFirst(r) \/ Retry(r) \/ ForwardAlt(r) \/ Settle(r)
  \/ Record(r) \/ IncrSuccess(r) \/ Spawn(r)

Next ==
  \/ \E n \in Nodes : Probe(n) \/ NodeFails(n) \/ NodeRecovers(n)
  \/ \E r \in Requests : Arrive(r) \/ Cancel(r) \/ Middleware(r) \/ ServeHTTP(r) \/ Publish(r)

\* Some goroutine that can run does, and the transport and the publisher give up
\* after their timeouts.  Fairness to each goroutine is not needed.
Spec ==
  /\ Init /\ [][Next]_vars
  /\ WF_vars(\E r \in Requests : Middleware(r) \/ ServeHTTP(r) \/ Publish(r))

----------------------------------------------------------------------------
(* Properties *)

TypeOK ==
  /\ {up, healthy} \subseteq [Nodes -> BOOLEAN]
  /\ fails \in [Nodes -> 0 .. UnhealthyThreshold]
  /\ oks \in [Nodes -> 0 .. HealthyThreshold]
  /\ rr \in 0 .. TotalWeight(Nodes)
  /\ stats \in [Counters -> Nat]
  /\ counted \in Nat
  /\ pc \in [Requests -> {"idle", "admit", "pick", "forward",
               "failed", "retry", "reforward", "settle", "record", "count", "publish", "done"}]
  /\ cancelled \in [Requests -> BOOLEAN]
  /\ {node, alt} \subseteq [Requests -> Nodes \union {0}]
  /\ answer \in [Requests -> Answers]
  /\ event \in [Requests -> [state : {"none", "pending", "settled"},
                 node : Nodes \union {0}, successes : 0 .. MaxBatch, billable : BOOLEAN]]

(***************************************************************************)
(* What is charged is what was delivered: the billing event of a request   *)
(* carries the successes of an answer the request received and names the   *)
(* node that gave it, although the request may have been sent to two       *)
(* nodes (ServeHTTP, node = alt).                                          *)
(***************************************************************************)
EventsNameTheServer ==
  \A r \in Requests : event[r].state # "none" =>
    /\ \E p \in heard[r] : p[1] = event[r].node /\ p[2].successes = event[r].successes
    /\ event[r].successes > 0

\* The calls in billable, or free, billing events, as pairs of a request and a number.
EventCalls(billable) ==
  {p \in Requests \X (1 .. MaxBatch) :
     event[p[1]].billable = billable /\ p[2] <= event[p[1]].successes}

(***************************************************************************)
(* The billable calls of the statistics are the calls in billing events,   *)
(* published or not, once no request is between RecordProxy and the start  *)
(* of its publishing goroutine; free calls likewise.                       *)
(***************************************************************************)
StatsMatchEvents ==
  (\A r \in Requests : pc[r] \notin {"count", "publish"}) =>
    /\ stats["billable"] = Cardinality(EventCalls(TRUE))
    /\ stats["free"] = Cardinality(EventCalls(FALSE))

\* All calls in billing events.
ChargedCalls == EventCalls(TRUE) \union EventCalls(FALSE)

(***************************************************************************)
(* The daily quota counts the calls of the billing events, billable or     *)
(* free, and no others, once no request is between IncrSuccess and the     *)
(* start of its publishing goroutine.  It misses only those whose request  *)
(* was cancelled before, as long as Redis does not fail: README.md says    *)
(* that every success counts.                                              *)
(***************************************************************************)
QuotaMatchesEvents ==
  (\A r \in Requests : pc[r] # "publish") =>
    /\ counted <= Cardinality(ChargedCalls)
    /\ ~RedisMayFail =>
         counted >= Cardinality({p \in ChargedCalls : ~cancelled[p[1]]})

(***************************************************************************)
(* A node is reported for what it did: success only if it answered the     *)
(* request below 500, failure only if its answer was an error or 5xx.      *)
(***************************************************************************)
VerdictsDeserved ==
  \A r \in Requests : \A report \in reports[r] :
    \E p \in heard[r] :
      p[1] = report[1] /\ (report[2] = "failure" <=> UpstreamFailed(p[2]))

(***************************************************************************)
(* A node that serves, and answers probes with a result, is out of         *)
(* rotation only because a client left: some request that was sent to it,  *)
(* and whose context was cancelled, reported the error as the node's       *)
(* (ServeHTTP, err # nil).  Neither answers below 500, JSON-RPC errors     *)
(* among them, nor the failures of other nodes evict it.  A node that      *)
(* answers the probe itself with an error is evicted, although ServeHTTP   *)
(* reports success for the same answer.                                    *)
(***************************************************************************)
EvictionsExplained ==
  \A n \in Nodes \ (Flaky \union Erring) : healthy[n] \/
    \E r \in Requests : cancelled[r] /\ <<n, "failure">> \in reports[r]

(***************************************************************************)
(* Every request that arrives is answered, however nodes fail, and its     *)
(* billing event is published or given up (one retry, bounded publish).    *)
(***************************************************************************)
EveryRequestAnswered ==
  []<>(\A r \in Requests : pc[r] \in {"idle", "done"} /\ event[r].state # "pending")
=============================================================================
