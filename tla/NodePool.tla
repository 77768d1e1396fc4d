------------------------------ MODULE NodePool ------------------------------
(***************************************************************************)
(* Node selection in the pool of one network (internal/balancer): Next     *)
(* for HTTP requests, NextWS for WebSocket connections, ReplaceNodes on a  *)
(* hot reload.  The three hold p.mu; the healthy flags are flipped by      *)
(* reports (module NodeHealth) that do not, so a flag may change between   *)
(* the reads of one call.                                                  *)
(***************************************************************************)
EXTENDS Integers, Sequences, FiniteSetsExt, SequencesExt

CONSTANTS NodeConfigs  \* the node lists a validated config file may hold:
                       \* sequences of [weight: Int, ws: BOOLEAN]

ASSUME ConfigAssumption ==
  \A cfgs \in NodeConfigs :
    cfgs \in Seq([weight : Int, ws : BOOLEAN]) /\ cfgs # <<>>   \* config.validate

VARIABLES nodes,       \* p.nodes: sequence of [weight, ws, healthy]
          rr,          \* p.rr, the one round-robin counter
          call,        \* the call that holds p.mu: "none", "http", "ws"
          scanned,     \* how many nodes its loop has looked at
          candidates,  \* the indices it has collected
          disturbed,   \* ghost: a flag flipped while the call was scanning
          turn         \* ghost: latest picks of one kind with nothing else between them

poolVars == <<nodes, rr, call, scanned, candidates, disturbed, turn>>

ClampedWeightMissing(w) == w

\* applyDefaults and buildNodes: a weight of zero or less counts as one.
ClampedWeight(w) == IF w <= 0 THEN 1 ELSE w

\* Every node of a new list starts healthy, whatever it was before.
buildNodes(cfgs) ==
  [i \in DOMAIN cfgs |->
     [weight |-> ClampedWeight(cfgs[i].weight), ws |-> cfgs[i].ws, healthy |-> TRUE]]

PoolInit ==
  /\ \E cfgs \in NodeConfigs : nodes = buildNodes(cfgs)
  /\ rr = 0
  /\ call = "none"
  /\ scanned = 0
  /\ candidates = {}
  /\ disturbed = FALSE
  /\ turn = <<>>

----------------------------------------------------------------------------
(* Weighted choice *)

\* A node of weight w holds w tickets; the weights of S sum to its tickets' number.
Tickets(S) == UNION {{i} \X (1 .. nodes[i].weight) : i \in S}
WeightOf(S) == Cardinality(Tickets(S))

\* The cursor after the candidates up to and including i.
Cursor(S, i) == WeightOf({j \in S : j <= i})

AtCursorOffByOne(S, counter) == Min({i \in S : counter <= Cursor(S, i)})

\* The first candidate whose cursor exceeds the counter.
AtCursor(S, counter) == Min({i \in S : counter < Cursor(S, i)})

AllNodes == DOMAIN nodes
WsNodes == {i \in AllNodes : nodes[i].ws}

----------------------------------------------------------------------------
(* Next and NextWS: take p.mu, read the flags one after the other, pick *)

Begin(kind) ==
  /\ call = "none"
  /\ call' = kind
  /\ UNCHANGED <<nodes, rr, scanned, candidates, disturbed, turn>>

\* One iteration of the loop over p.nodes.
Eligible(i) == nodes[i].healthy /\ (call = "ws" => nodes[i].ws)

Scan ==
  /\ call # "none"
  /\ scanned < Len(nodes)
  /\ scanned' = scanned + 1
  /\ candidates' = IF Eligible(scanned + 1) THEN candidates \union {scanned + 1} ELSE candidates
  /\ UNCHANGED <<nodes, rr, call, disturbed, turn>>

\* What a kind of pick owes each node over one period, while nothing changes.
HealthyOf(kind) == {i \in AllNodes : nodes[i].healthy /\ (kind = "ws" => nodes[i].ws)}

Share(kind, i) ==
  CASE HealthyOf(kind) # {} -> IF i \in HealthyOf(kind) THEN nodes[i].weight ELSE 0
    [] HealthyOf(kind) = {} /\ kind = "http" -> 1
    [] OTHER -> IF i \in WsNodes THEN nodes[i].weight ELSE 0

\* The sum of the shares: the modulus of the counter.
Period(kind) ==
  CASE HealthyOf(kind) # {} -> WeightOf(HealthyOf(kind))
    [] HealthyOf(kind) = {} /\ kind = "http" -> Len(nodes)
    [] OTHER -> WeightOf(WsNodes)

\* The last n elements of s.
Latest(s, n) == IF Len(s) <= n THEN s ELSE SubSeq(s, Len(s) - n + 1, Len(s))

\* The call returns node i and releases p.mu; the rest is ghost bookkeeping.
Return(i) ==
  LET picks == IF turn # <<>> /\ Last(turn).kind # call THEN <<>> ELSE turn IN
  /\ call' = "none"
  /\ scanned' = 0
  /\ candidates' = {}
  /\ disturbed' = FALSE
  /\ turn' = IF disturbed THEN <<>>
             ELSE Latest(Append(picks, [kind |-> call, node |-> i]), Period(call))
  /\ UNCHANGED nodes

\* Advance the counter modulo the total weight and walk the cursor.
PickWeighted(S) ==
  /\ rr' = (rr + 1) % WeightOf(S)
  /\ Return(AtCursor(S, rr'))

ScanDone(kind) == call = kind /\ scanned = Len(nodes)

NextHealthy ==
  /\ ScanDone("http")
  /\ candidates # {}
  /\ PickWeighted(candidates)

\* No node looked healthy: plain round robin over all of them.
NextFallback ==
  /\ ScanDone("http")
  /\ candidates = {}
  /\ rr' = (rr + 1) % Len(nodes)
  /\ Return(rr' + 1)

NextWSHealthy ==
  /\ ScanDone("ws")
  /\ candidates # {}
  /\ PickWeighted(candidates)

NextWSFallback ==
  /\ ScanDone("ws")
  /\ candidates = {}
  /\ WsNodes # {}
  /\ PickWeighted(WsNodes)

NextWSNone ==                \* return nil, false
  /\ ScanDone("ws")
  /\ candidates = {}
  /\ WsNodes = {}
  /\ call' = "none"
  /\ scanned' = 0
  /\ disturbed' = FALSE
  /\ UNCHANGED <<nodes, rr, candidates, turn>>

----------------------------------------------------------------------------
(* The environment of the two *)

\* ReportSuccess or ReportFailure flips a flag; it does not take p.mu.
FlipHealth(i) ==
  /\ nodes' = [nodes EXCEPT ![i].healthy = ~@]
  /\ disturbed' = (call # "none")
  /\ turn' = <<>>
  /\ UNCHANGED <<rr, call, scanned, candidates>>

ReplaceNodes(cfgs) ==
  /\ call = "none"
  /\ nodes' = buildNodes(cfgs)
  /\ rr' = 0
  /\ turn' = <<>>
  /\ UNCHANGED <<call, scanned, candidates, disturbed>>

PoolNext ==
  \/ Begin("http") \/ Begin("ws")
  \/ Scan
  \/ NextHealthy \/ NextFallback
  \/ NextWSHealthy \/ NextWSFallback \/ NextWSNone
  \/ \E i \in AllNodes : FlipHealth(i)
  \/ \E cfgs \in NodeConfigs : ReplaceNodes(cfgs)

PoolSpec == PoolInit /\ [][PoolNext]_poolVars

----------------------------------------------------------------------------
(* Properties *)

Picks == [kind : {"http", "ws"}, node : Nat]

PoolTypeOK ==
  /\ nodes \in Seq([weight : Nat \ {0}, ws : BOOLEAN, healthy : BOOLEAN])
  /\ nodes # <<>>
  /\ rr \in Nat
  /\ call \in {"none", "http", "ws"}
  /\ scanned \in 0 .. Len(nodes)
  /\ candidates \subseteq AllNodes
  /\ disturbed \in BOOLEAN
  /\ turn \in Seq(Picks)

Times(s, i) == Cardinality({k \in DOMAIN s : s[k].node = i})

(***************************************************************************)
(* Next and NextWS are weighted round robin: as long as picks of one kind  *)
(* follow each other and neither the node list nor a healthy flag changes, *)
(* no node gets more than its weight of any window of TotalWeight picks    *)
(* and an unhealthy node gets none while a healthy one exists, whatever    *)
(* value rr was left at.                                                   *)
(***************************************************************************)
WeightedRoundRobin ==
  turn # <<>> => \A i \in AllNodes : Times(turn, i) <= Share(Last(turn).kind, i)
=============================================================================
