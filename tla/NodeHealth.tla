----------------------------- MODULE NodeHealth -----------------------------
(***************************************************************************)
(* The health bookkeeping of one upstream node (internal/balancer):        *)
(* Pool.ReportSuccess and Pool.ReportFailure, called without a lock by     *)
(* every HTTP request that used the node and by the pool's health-check    *)
(* loop.  Each atomic.Bool / atomic.Int32 operation is one step, so the    *)
(* reports of several goroutines interleave exactly as the code lets them. *)
(***************************************************************************)
EXTENDS Integers

CONSTANTS Reporters,           \* goroutines that report outcomes for the node
          Prober,              \* the one that runs Pool.loop
          UnhealthyThreshold,
          HealthyThreshold,
          MaxInt32             \* 2^31 - 1 in the program; small here

ASSUME HealthAssumption ==
  /\ Prober \in Reporters
  /\ UnhealthyThreshold \in Nat \ {0}
  /\ HealthyThreshold \in Nat \ {0}
  /\ MaxInt32 \in Nat
  /\ UnhealthyThreshold <= MaxInt32
  /\ HealthyThreshold <= MaxInt32

VARIABLES up,         \* external: do calls to this upstream succeed at present
          healthy, failCount, okCount,   \* the fields of Node
          pc,         \* where each reporter is in its report
          seen,       \* its local variable: ok in ReportSuccess, fails in ReportFailure
          overlapped  \* ghost: a report has begun while another was under way

node == <<healthy, failCount, okCount>>
vars == <<up, node, pc, seen, overlapped>>

Int32 == (-MaxInt32 - 1) .. MaxInt32

\* pc values: "s_..." inside ReportSuccess, "f_..." inside ReportFailure.
Steps == {"idle", "s_reset", "s_add", "s_check", "s_mark", "s_clear",
          "f_reset", "f_add", "f_check", "f_mark"}

Add32NoWrap(x) == x + 1

\* atomic.Int32.Add(1): two's-complement wrap-around.
Add32(x) == IF x = MaxInt32 THEN -MaxInt32 - 1 ELSE x + 1

Init ==
  /\ up \in BOOLEAN
  /\ healthy = TRUE
  /\ failCount = 0
  /\ okCount = 0
  /\ pc = [r \in Reporters |-> "idle"]
  /\ seen = [r \in Reporters |-> 0]
  /\ overlapped = FALSE

\* The upstream starts or stops answering (external).
Upstream ==
  /\ up' = ~up
  /\ UNCHANGED <<node, pc, seen, overlapped>>

Goto(r, from, to) == pc[r] = from /\ pc' = [pc EXCEPT ![r] = to]

(***************************************************************************)
(* A forward or a probe ends; its outcome is fixed now, its report follows *)
(* later.                                                                  *)
(***************************************************************************)
Observe(r) ==
  /\ Goto(r, "idle", IF up THEN "s_reset" ELSE "f_reset")
  /\ UNCHANGED <<up, node, seen, overlapped>>

----------------------------------------------------------------------------
\* The steps of a report after its first one.
InReport(r) == pc[r] \notin {"idle", "s_reset", "f_reset"}

Begins == overlapped' = (overlapped \/ \E q \in Reporters : InReport(q))

(* ReportSuccess *)

ResetFails(r) ==            \* node.failCount.Store(0)
  /\ Goto(r, "s_reset", "s_add")
  /\ failCount' = 0
  /\ Begins
  /\ UNCHANGED <<up, healthy, okCount, seen>>

CountOkStoresOne(r) ==
  /\ Goto(r, "s_add", "s_check")
  /\ okCount' = 1
  /\ seen' = [seen EXCEPT ![r] = 1]
  /\ UNCHANGED <<up, healthy, failCount, overlapped>>

CountOk(r) ==               \* ok := node.okCount.Add(1)
  /\ Goto(r, "s_add", "s_check")
  /\ okCount' = Add32(okCount)
  /\ seen' = [seen EXCEPT ![r] = Add32(okCount)]
  /\ UNCHANGED <<up, healthy, failCount, overlapped>>

\* if !node.Healthy() && ok >= p.healthyThreshold
Recovers(r) == ~healthy /\ seen[r] >= HealthyThreshold

CheckRecovered(r) ==
  /\ Goto(r, "s_check", IF Recovers(r) THEN "s_mark" ELSE "idle")
  /\ UNCHANGED <<up, node, seen, overlapped>>

MarkHealthy(r) ==           \* node.healthy.Store(true)
  /\ Goto(r, "s_mark", "s_clear")
  /\ healthy' = TRUE
  /\ UNCHANGED <<up, failCount, okCount, seen, overlapped>>

ClearOks(r) ==              \* node.okCount.Store(0)
  /\ Goto(r, "s_clear", "idle")
  /\ okCount' = 0
  /\ UNCHANGED <<up, healthy, failCount, seen, overlapped>>

----------------------------------------------------------------------------
(* ReportFailure *)

ResetOksSkipped(r) ==
  /\ Goto(r, "f_reset", "f_add")
  /\ Begins
  /\ UNCHANGED <<up, node, seen>>

ResetOks(r) ==              \* node.okCount.Store(0)
  /\ Goto(r, "f_reset", "f_add")
  /\ okCount' = 0
  /\ Begins
  /\ UNCHANGED <<up, healthy, failCount, seen>>

CountFail(r) ==             \* fails := node.failCount.Add(1)
  /\ Goto(r, "f_add", "f_check")
  /\ failCount' = Add32(failCount)
  /\ seen' = [seen EXCEPT ![r] = Add32(failCount)]
  /\ UNCHANGED <<up, healthy, okCount, overlapped>>

TripsStrictly(r) == healthy /\ seen[r] > UnhealthyThreshold

TripsNever(r) == healthy /\ seen[r] > MaxInt32

\* if node.Healthy() && fails >= p.unhealthyThreshold
Trips(r) == healthy /\ seen[r] >= UnhealthyThreshold

CheckFailed(r) ==
  /\ Goto(r, "f_check", IF Trips(r) THEN "f_mark" ELSE "idle")
  /\ UNCHANGED <<up, node, seen, overlapped>>

MarkUnhealthy(r) ==         \* node.healthy.Store(false)
  /\ Goto(r, "f_mark", "idle")
  /\ healthy' = FALSE
  /\ UNCHANGED <<up, failCount, okCount, seen, overlapped>>

----------------------------------------------------------------------------
ReportSuccess(r) ==
  ResetFails(r) \/ CountOk(r) \/ CheckRecovered(r) \/ MarkHealthy(r) \/ ClearOks(r)

ReportFailure(r) ==
  ResetOks(r) \/ CountFail(r) \/ CheckFailed(r) \/ MarkUnhealthy(r)

Report(r) == ReportSuccess(r) \/ ReportFailure(r)

Next == Upstream \/ \E r \in Reporters : Observe(r) \/ Report(r)

\* A started report always finishes (no step of it blocks), and Pool.loop
\* probes forever: its ticker fires and http.Client.Timeout ends every probe.
Fairness ==
  /\ \A r \in Reporters : WF_vars(Report(r))
  /\ WF_vars(Observe(Prober))

Spec == Init /\ [][Next]_vars /\ Fairness

----------------------------------------------------------------------------
(* Properties *)

TypeOK ==
  /\ up \in BOOLEAN
  /\ healthy \in BOOLEAN
  /\ failCount \in Int32
  /\ okCount \in Int32
  /\ pc \in [Reporters -> Steps]
  /\ seen \in [Reporters -> Int32]
  /\ overlapped \in BOOLEAN

\* The counter the healthy flag depends on at present is below its threshold.
Below ==
  /\ healthy => 0 <= failCount /\ failCount < UnhealthyThreshold
  /\ ~healthy => 0 <= okCount /\ okCount < HealthyThreshold

(***************************************************************************)
(* As long as no two reports have overlapped, the flag and the counters    *)
(* agree whenever no report is under way: a node with UnhealthyThreshold   *)
(* failures in a row is out of rotation, one with HealthyThreshold         *)
(* successes in a row is in it ("health check failure removes the node     *)
(* automatically", docs/nodes.md).                                         *)
(***************************************************************************)
Agreement == ~overlapped /\ (\A r \in Reporters : ~InReport(r)) => Below

(***************************************************************************)
(* As long as no two reports have overlapped, ReportSuccess and            *)
(* ReportFailure implement the circuit breaker.  The breaker decides when  *)
(* the counter is incremented; the healthy flag follows a few steps later. *)
(***************************************************************************)
Deciding(r, steps, threshold) == pc[r] \in steps /\ seen[r] >= threshold

AbsInService ==
  /\ \/ healthy
     \/ \E r \in Reporters : Deciding(r, {"s_check", "s_mark"}, HealthyThreshold)
  /\ ~ \E r \in Reporters : Deciding(r, {"f_check", "f_mark"}, UnhealthyThreshold)

B == INSTANCE Breaker WITH
       inService <- AbsInService,
       streak <- IF AbsInService THEN failCount ELSE okCount

BreakerSpec == B!Init /\ [][~overlapped' => B!Next]_(B!vars)

(***************************************************************************)
(* However the reports of several goroutines interleave, an upstream that  *)
(* stays down ends up out of rotation and stays out (ReportFailure).       *)
(***************************************************************************)
DownIsEvicted == <>[](~up) => <>[](~healthy)

(***************************************************************************)
(* However the reports interleave, an upstream that stays up ends up back  *)
(* in rotation and stays in (ReportSuccess).                               *)
(***************************************************************************)
UpIsRestored == <>[]up => <>[]healthy
=============================================================================
