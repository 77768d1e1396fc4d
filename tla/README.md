# TLA+ models of rpc-node-gateway

The gateway takes JSON-RPC calls over HTTP and WebSocket at `/{token}/{chain}`,
checks the token, its rate limits and its daily quota, forwards the call to one
of the chain's upstream nodes, and counts and bills what succeeded. This
directory holds specifications of its concurrent parts, TLC configurations that
check them on small instances, and TLAPS proofs of the results that matter most.
Everything is translated from the Go code; every definition that models code is
listed with its lines under `map` in `PROJECT.json`.

    tlc -workers 2 -config http.cfg MCHttpProxy.tla     # one run
    tlapm Limiter_proofs.tla                            # one proof module

## The system

| Part | Code (`src/`) | State it keeps | Operations |
|---|---|---|---|
| Process wiring | `cmd/gateway/main.go` | signal channel of one slot, servers | start, SIGHUP loop, shutdown |
| Configuration | `internal/config` | none (a value) | `Load`: parse, defaults, validate |
| Node health | `internal/balancer` | `healthy`, `failCount`, `okCount` of a node (atomics) | `ReportSuccess`, `ReportFailure`, probe loop |
| Node selection | `internal/balancer` | node list and counter `rr` of a pool, under `p.mu` | `Next`, `NextWS`, `ReplaceNodes` |
| Registry, hot reload | `internal/balancer`, `internal/admin`, `main.go` | pools by chain, under `r.mu` | `ReloadNodes`, `Snapshot`, admin reload |
| Rate limiter, quota | `internal/ratelimit`, `internal/store` | Redis keys, or local limiters and day counts | `Allow`, `IncrSuccess` |
| Middleware | `internal/middleware` | none | domain, token, method filter, rate limit |
| HTTP proxy | `internal/proxy` | none of its own | `ServeHTTP`: pick, forward, retry, record, count, publish |
| WebSocket proxy | `internal/wsproxy` | `pending`, `subs`, `subN`, two connections | two pumps, `handleInbound`, `handleOutbound` |
| Connection limit | `internal/wsproxy` (`ConnGuard`) | connections per token | `Acquire`, `Release` |
| Statistics | `internal/stats` | atomic counters: global, per token, per chain; map of tokens under `c.mu` | `Record...`, `Inc...`, `ensureToken`, `Snapshot` |
| Billing | `internal/billing`, `internal/db` | Redis stream, tables `billing_events` and `usage_daily` | publishers, `MultiPublisher`, `RecordBillableSuccess`, `IncrUsageDaily` |
| Token store | `internal/auth`, `internal/db` | map of tokens under `s.mu`, refreshed from the database | `Lookup`, `loopRefresh` |
| Admin JWT | `internal/adminjwt` | table `admin_jwt_tokens`, one rotator per instance | `Rotate`: revoke, issue, save, clean up; `IsActive` |
| JSON-RPC | `internal/jsonrpc` | none | parse requests, answers, WebSocket messages |
| Method filter, client address, context | `internal/filter`, `httputil`, `gatewayctx` | none | lookups |

How they interact. A request passes the middleware chain, which calls the token
store, the filter and the limiter and counts refusals in the statistics. The
proxy asks the pool for a node, forwards, reports the outcome to the pool (as
the probe loop of every pool does), asks again and forwards once more on an
error, then calls the statistics, the limiter (`IncrSuccess`, with the request's
context) and, in a goroutine of its own, the billing publisher. A WebSocket
upgrade takes a slot of the connection limit, picks a node with the same counter
as HTTP, dials it and starts two pumps, which share the client connection. The
main goroutine, on SIGHUP, and every admin reload call load the file and replace
the node lists under the feet of all of these. The publisher calls its sinks one
after the other; the last is the ledger in Postgres, which decides with a unique
key whether an event is charged. Several gateway instances may share Redis,
Postgres and the table of administrators' tokens.

What is hard, and what makes each part correct:

- **Node health.** Three atomics, no lock: reports of requests and probes
  interleave. A node that stays down must leave rotation, one that stays up must
  return, and outcomes that do not overlap must be counted *in a row*.
- **Node selection.** Flags flip during the scan; one counter serves HTTP, WS,
  the fallback and every list. Shares must follow the weights regardless.
- **Hot reload.** Loading and applying are apart; two triggers; signals are
  dropped when one waits. No torn snapshot, no half-applied file, no lost edit.
- **Limiter.** The clock is read outside the script, keys expire, calls fail or
  are cancelled, the quota is checked long before it is counted, and pushes are
  counted without a check. What passes above the limits must at least be bounded,
  and what succeeds and is billed must be counted.
- **HTTP proxy.** Two nodes may have seen one request. Report, event and answer
  must name the right one; every request must end.
- **Statistics.** An operation adds to counters at three levels, one atomic after
  the other, while snapshots read them. Totals must cover their parts, and at rest
  no count may be missing at any level.
- **Billing.** Sinks fail in the middle, answers of the database are lost,
  transactions wait for each other, the process exits. No event may be charged
  twice or without its usage, and none may disappear from a sink without an error.
- **Token store.** The map lags behind the database, and upgrades hold copies. What
  the operator disables must in the end be shut out.
- **Admin JWT.** A rotation revokes before it saves, and rotations of several
  instances interleave. Nobody may be locked out for good.
- **WebSocket.** Two goroutines, four ways to end, answers and pushes in the
  upstream's order. No answer without its request, no concurrent write, no slot
  kept after the end.

`PROJECT.json` lists these hazards with their lines and the properties for them.

## Modules

| Module | Models | State and actions, in terms of the code |
|---|---|---|
| `NodeHealth` | one node's bookkeeping | every atomic operation of a report is one action (`ResetFails` is `failCount.Store(0)`, ...); `pc` and `seen` are a goroutine's position and local variable. Any number of reporters, wrap-around at `MaxInt32` |
| `Breaker` | abstract: the circuit breaker of a node | in service or not, and a streak |
| `NodePool` | `Next`, `NextWS`, `ReplaceNodes` of one pool | a call holds `p.mu` from `Begin` to its return and reads one flag per `Scan`; `FlipHealth` is a report, which takes no lock |
| `HotReload` | SIGHUP, admin reload, `config.Load`, `Registry` | `signals` is `sigCh`; `writer`, `readers` are `r.mu`; `Load` then `Lock`, one `Apply` per chain, `Unlock`; viewers copy chain by chain |
| `RedisBucket` | one key of `redisAllow` | `ReadClock` in the gateway, by a clock that may be ahead or behind and step back; then, possibly late, the script as one step (`EvalAllow`, `EvalDeny`); the key expires by the clock of Redis |
| `TokenBucket` | abstract: a token bucket | a level that runs by the true time, and what it concedes to bad clocks and to a key that is forgotten |
| `Limiter` | `Allow`, `IncrSuccess` with both stores | one action per call to Redis or per critical section, with success, error and cancelled context as separate actions; `Push` is the `IncrSuccess` of `handleOutbound`, which no `Allow` precedes |
| `HttpProxy` | one chain's requests from router to answer | pool, statistics, quota count, events; one action per call `ServeHTTP` makes |
| `WsSession` | one proxied WebSocket connection | `c2u`, `u2c` are the pumps' positions; `BeginWrite`/`EndWrite` delimit a `WriteMessage`; `errCh`, `handler` are the end of `ServeHTTP` |
| `ConnGuard` | the connection limit and its use | one action per way through `ServeHTTP` |
| `TokenStore` | `auth.Store` over the database | `row` is the database, `tokens` the map, `list` what the SELECT of the refresh returned; `Begin`, `ListEnabledTokens` or `RefreshFails`, `Swap` are one turn of `loopRefresh` |
| `Sessions` | upgrades: `PathAuth`, then `ConnGuard` | `Lookup` copies the token into the request, `Enter` and `TurnAway` are `Acquire`; the store moves in between |
| `Billing` | publishers, ledger, exit of the process | `pc`, `at` are a call's sink and its place in the transaction; `inserted` is `RowsAffected() > 0`; an open transaction's rows are those of `HoldsEvent`, `HoldsUsage`, and become visible at `Commit` |
| `Charges` | abstract: the ledger | the charged events and the usage of each account |
| `StatsCollector` | the counters and `Snapshot` | `metrics` are the atomics by place (global, token, token and chain); `todo` is the set of steps a goroutine has before it, each with its line of `collector.go`: one atomic add, read or lock operation each, taken by rising line |
| `AdminJwt` | rotators of several instances over one table | `Start` is the tick, then `RevokeAllActive`, `Issue`, `Save`, `CleanupExpired` as the calls of `Rotate`; times are what is left of a token's life |

An `MC...` module gives the constants that a `.cfg` cannot write (records,
functions). Definitions placed before one they resemble (`CountOkStoresOne` before
`CountOk`) are variants with a plausible mistake in them; `PROJECT.json`
(`mutants`) names the property that notices each. No action uses them.
Definitions commented "ghost" record history for the properties and no guard
reads them.

Composition.

- `Sessions` is `ConnGuard` and `TokenStore` side by side: its steps are theirs,
  joined where an upgrade looks its token up and where it takes a slot. `ConnGuard`
  is also the frame around `WsSession`: a session is one stay at `"session"`, and
  `SessionEnds` is what lets its slot be released.
- `Limiter` treats a bucket as a plain token bucket, in whole tokens. `RedisBucket`
  shows what the script is: that bucket exactly if all clocks agree, no script runs late
  and `Burst <= 2 * Rps`, and otherwise one with the concessions `TokenBucket` names.
- `HttpProxy` composes selection, reports, statistics, quota count and billing event with an
  atomic report per call, since what overlapping reports do is the subject of
  `NodeHealth`. Its statistics call is opened by `StatsCollector`, its publishing by `Billing`.
- `Billing` implements `Charges`, `NodeHealth` implements `Breaker`, `RedisBucket`
  implements `TokenBucket`: the abstract module is the promise, its specification
  a property of the run and the statement of a theorem.

## Runs

Passing runs. `health`, `pool` and `bucket` also check the type invariant of their
module; elsewhere it is there for the reader and for the proofs.

| Run | Bounds | Shows |
|---|---|---|
| `health` | 2 reporters, thresholds 2, 32-bit limit 3 | as long as no two reports have overlapped, flag and counters agree (`Agreement`) and every step is one of `Breaker` (`BreakerSpec`); however they overlap, and across a wrapped counter, `DownIsEvicted` and `UpIsRestored` |
| `pool` | three lists (1 to 3 nodes, weights 0 to 2, with and without `ws_url`) and reloads between them | `WeightedRoundRobin`: in a window of one period no node gets more than its weight, from whatever value `rr` was left at |
| `reload` | signal, one admin call, one viewer, one edit, 2 chains; files that change, drop, add or empty a chain or do not parse | `SnapshotIsAtomic`, `FailedReloadChangesNothing`, `HupIsServed`; `ReloadTakesEffect` while reloads do not overlap |
| `bucket` | 2 callers, clocks up to one tick ahead, clocks and scripts up to one tick behind, rate 2/s, burst 5, 3 ticks a second, 4 seconds | the script implements `TokenBucket` (`BucketSpec`) |
| `quota` | 2 requests of one address, quota 1, rates and bursts 1, pushes of 2 units, one midnight, with Redis that may fail and without | `OvershootBounded` |
| `ws_session` | 2 ids, 2 subscription ids, limit 1, one message in flight | `AnswersAreExpected`, `PushesAreKnown`, `SubsNotOvercounted`, `SessionEnds` |
| `http` | 2 requests, one of whose clients may leave; nodes of weight 2 and 1, of which the first may fail and may answer probes with errors; thresholds 1; Redis answers | `EventsNameTheServer`, `StatsMatchEvents`, `QuotaMatchesEvents`, `VerdictsDeserved`; `EvictionsExplained`: a node that serves requests and probes is evicted only through a cancelled request; `EveryRequestAnswered` |
| `sessions` | 4 connections of 2 tokens, limit 2; the database changes at any time, refreshes fail | `SlotsAccounted`, `ConnectionsBounded`; `CacheFollowsDatabase` and `DisabledTokenShutOut` once the rows can be parsed |
| `billing` | 4 calls with 3 events (one delivered twice, one of a free token), one account, every chain of sinks | `ChargesSpec`, `UsageMatchesEvents`, `NothingLostSilently`, with errors, lost answers, blocked transactions and exits |
| `jwt` | 2 instances, 3 token ids, TTL 2, a rotation each tick, one crash, calls that fail before or after their effect | `OneTokenPerInstance`, `SomeTokenValid`, `ValidUntilRevoked`, `AccessReturns` |
| `stats` | 2 recorders, 2 operations, a viewer, 2 tokens (one free, one unlisted), one chain, 5 of the counters; requests with 0 or 2 successful calls and an error | `TotalsCoverTokens`, `CountsAgreeAtRest` |

One run ends in a counterexample. It states a sentence of the repository's documents
and finds a behaviour of the code that contradicts it; `findings` quotes the
sentence and describes the behaviour.

| Run | Property | Behaviour |
|---|---|---|
| `ws_writers` | `NeverPanics` | both pumps write to the client connection |

Behaviours the models have and no run singles out. The properties above are
stated so that they say exactly what holds in spite of them:

- Two overlapping reports can leave a node in rotation with its failure count at
  the threshold, or out of it with enough successes, until the next report
  (`Agreement` and `BreakerSpec` stop at the first overlap; the two liveness
  properties do not).
- WebSocket picks move the counter HTTP picks use, so the weights hold only among
  picks of one kind that follow each other.
- A reload that loaded an older file can be applied after one that loaded a newer
  file and reported success (`ReloadTakesEffect` stops at the first overlap). A SIGTERM
  that arrives while a SIGHUP waits in `sigCh` is dropped.
- The script gives away more than the token bucket in three ways, and `TokenBucket`
  concedes each of them and nothing else. Clocks that are ahead and scripts that run late
  let a caller draw on the refill of up to `MaxAhead + MaxBehind` ticks at once, beside the
  burst. A script that stores an earlier time than the one before it (two instances whose
  clocks differ, one clock that is set back, or two scripts that overtake each other) lets
  the time between be refilled again, every time it happens. And a key that expires is a
  full bucket two seconds after its last request, which `2 * Rps` tokens do not fill if
  the burst is higher. `docs/rate-limiting.md:84` promises limits that are consistent
  across instances ("多实例一致"); they are, up to these three. Without any one of them
  `bucket` has a counterexample.
- The daily quota is exceeded by requests that passed the check together and by
  batches, up to the bound of `OvershootBounded`; a failed lookup lets a request pass. The
  pushes of subscriptions are counted and billed without asking the quota, as long as
  the session lasts: what they add above it has no bound, and neither has, for the code,
  the number of messages of a session that are with the upstream (each of them is one of
  `Requests`, and the bound grows with them).
- With Redis, successes are not counted for the quota when `INCRBY` fails, which it does when
  the client left after the upstream answered, since it gets the request's context; the
  call is billed all the same. `README.md:81` and `docs/rate-limiting.md:34` of the repository
  count every success. `QuotaMatchesEvents` says what holds: those of cancelled requests may be
  missing, no others while Redis answers, and nothing is counted that is not billed or recorded as free.
- A request refused for its address has taken a token of the API token's bucket.
- A client that leaves counts as a failure of the node its request was sent to, although
  `docs/nodes.md:44` names failed health checks as what takes a node out; with low thresholds such clients
  evict a node that serves.
- A node that answers the probe below 500 with a JSON-RPC error, or with something that is
  not JSON, fails the probe, while a request with the same answer is a success of the node
  (`Probe` of nodes in `Erring`). Probes take such a node out of rotation and requests put it back
  in. `EvictionsExplained` therefore speaks of the nodes that serve both; of them it says
  that nothing but a cancelled request evicts them.
- A WebSocket upgrade whose node cannot be dialled tells the pool nothing: only HTTP
  requests and probes report (`wsproxy/handler.go:121`; `SetupFails` in `ConnGuard`).
- The retry of a request is dropped when `Next` returns the node that has just
  failed, which happens if another request has moved the counter.
- Subscribe requests whose answers are outstanding do not count against the
  subscription limit, and an unsubscribe of an unknown id lowers the count if the
  upstream accepts it (`SubsNotOvercounted` bounds the count from above only).
- One enabled row whose `denied_methods` cannot be parsed freezes the token cache
  for every token until it is repaired; sessions keep the copy of their token for
  as long as they last (`CacheFollowsDatabase` and `DisabledTokenShutOut` have
  readable rows as their premise and speak of new connections).
- Events of free tokens go through the publishers to the log and the stream, and
  only the ledger tells them apart, while `README.md:82-83`, `docs/rate-limiting.md:133` and
  `docs/websocket.md:25` of the repository keep them out of the billing records, which the
  first of them names as log, stream and `billing_events`. `NothingLostSilently` asks nothing of
  the sinks for free events; `StreamPublish` and `LogPublish` do what the code does.
- An exit drops the events whose goroutines have not finished; nothing publishes
  them again (`Exit`; the ledger stays consistent).
- A failed rotation leaves the administrators without a token until the next tick. With
  several instances, each rotation revokes the others' tokens too
  (`SomeTokenValid` speaks of rotations that succeeded, `AccessReturns` of all).

Why these bounds are enough to be interesting. Two goroutines are the fewest that
overlap. Thresholds of 2 tell "in a row" from "in total" and from "first", and an
integer limit of 3 wraps after four successes in a row. Thresholds of 1 in `http`
let a single report evict a node, so the fallback and re-entry both happen in a
run with two requests. The lists of `pool` contain unequal weights, a clamped
weight, a list without any `ws_url` and every change of total weight between
lists. One edit with two reloaders gives a stale load, a refused file and a file
that was edited under way. Four seconds of `bucket` cover two full expiries; a burst of 5 is
more than the 4 tokens a key gains before it expires, and one tick ahead and one behind are
enough for times to be stored in the wrong order and twice over. Quota 1
with two requests reaches `OvershootBounded` with equality, and one midnight is
enough for a check and a count on different days; batches larger than one are left to
the proof; pushes of two units pass the quota in one step or from either side of it. A limit of one subscription and two ids is the smallest instance in which two
subscriptions race. In `sessions` three connections contend for two slots of one token while
another token has its own. The events of `billing` stand for powers of two of calls, so no
two sets of charges have the same sum; two calls with one event meet in every order
of their statements. Three token ids are one more than the two instances can have
valid, and a life of two ticks with a rotation every tick lets tokens expire both
before and after they are revoked. In `stats` two operations, in any combination, both create the
unlisted token. The bounds are `MaxEdits`, `MaxClock`, `MaxAhead`, `MaxBehind`,
`MaxDay`, `MaxUsed`, `MaxQueue`, `MaxCrashes`, `MaxOps`, `MaxBatch` and `MaxInt32`; the first nine
restrict what the environment does, the last two what one answer holds and where
counters wrap.

`CHECK_DEADLOCK FALSE` is set for `http` and `billing`, whose requests and calls are
served once and then end. The others either run for ever or say where they stop
(`Exited`, `Ended`).

## Fairness

- `NodeHealth`: a started report finishes, since no operation in it blocks, and the
  probe loop keeps observing: its ticker fires and the probe client has a timeout.
  Requests are not assumed to come.
- `HotReload`: the main loop receives (weak fairness); a started reload goes on
  (strong fairness, since `sync.RWMutex` does not let a stream of readers starve a
  waiting writer); a started snapshot goes on. Nobody is assumed to send
  signals, and SIGTERM may be lost.
- `WsSession`: pumps and handler run. This includes that a `WriteMessage` returns,
  which the code does not enforce: it sets no write deadline, so `SessionEnds` is
  conditional on peers that read or disconnect.
- `HttpProxy`: some goroutine that can go on does (the transport gives up after its
  timeout, a publish after three seconds). One weak fairness condition over all
  requests is enough, since each has finitely many steps. Nodes and clients owe nothing.
- `TokenStore` and `Sessions`: the ticker of `loopRefresh` goes on and a refresh ends
  (its context has a timeout of ten seconds); a query that can succeed again and again does so in the end
  (strong fairness: the database does not fail for ever). A goroutine with
  its copy of a token reaches `Acquire`, which does not block. How long sessions last is
  not promised.
- `AdminJwt`: time passes and a rotation under way goes on, which includes that a call to
  the table returns: `Rotate` gets a context without a timeout, so the code does not enforce it,
  and a first rotation that hangs keeps the process from serving. The table does not refuse
  `RevokeAllActive` or `Save` for ever (strong fairness).
- `Billing` and `StatsCollector` have safety properties only.

## Proofs

Proved by TLAPS for every value of the constants that satisfies the named
assumptions.

| Theorem | Statement | Further hypotheses |
|---|---|---|
| `Balancer_proofs!TypeCorrect` | `Spec => []TypeOK` (`NodeHealth`) | none: any number of reporters |
| `Balancer_proofs!SequentialAgreement` | `Spec => []Agreement` | none; the property speaks of behaviours up to the first overlap of two reports |
| `Balancer_proofs!SequentialBreaker` | `Spec => BreakerSpec` | the same |
| `Balancer_proofs!PoolTyped` | `PoolSpec => []PoolTypeOK` | none: any lists of nodes with any weights |
| `Balancer_proofs!SharesAreKept` | `PoolSpec => []WeightedRoundRobin` | none |
| `HotReload_proofs!FailedReloadsAreHarmless` | `Spec => []FailedReloadChangesNothing` | none |
| `HotReload_proofs!SnapshotsAreAtomic` | `Spec => []SnapshotIsAtomic` | none |
| `HotReload_proofs!ReloadsTakeEffect` | `Spec => []ReloadTakesEffect` | none; the property speaks of behaviours up to the first overlap of two reloads |
| `RedisBucket_proofs!BucketTyped` | `Spec => []TypeOK` | none |
| `RedisBucket_proofs!ScriptImplementsBucket` | `Spec => BucketSpec` | none: any bounds on clocks and delays, any rate and burst |
| `Limiter_proofs!OvershootIsBounded` | `Spec => []OvershootBounded` | none; the property itself assumes that no quota lookup failed |
| `WebSocket_proofs!SlotsAreAccounted` | `Spec => []SlotsAccounted` (`ConnGuard`) | none |
| `WebSocket_proofs!ConnectionsAreBounded` | `Spec => []ConnectionsBounded` | none |
| `WebSocket_proofs!SessionSlotsAccounted` | `SessionsSpec => []SlotsAccounted` | none |
| `WebSocket_proofs!SessionsBounded` | `SessionsSpec => []ConnectionsBounded` | none |
| `WebSocket_proofs!AnswersFindTheirRequests` | `WsSpec => []AnswersAreExpected` | none |
| `WebSocket_proofs!PushesFindTheirSubscription` | `WsSpec => []PushesAreKnown` | none |
| `WebSocket_proofs!SubscriptionsNotOvercounted` | `WsSpec => []SubsNotOvercounted` | none |
| `WebSocket_proofs!SessionTyped` | `WsSpec => []WsTypeOK` | none |
| `HttpProxy_proofs!EventsAreTruthful` | `Spec => []EventsNameTheServer` | none |
| `HttpProxy_proofs!VerdictsAreDeserved` | `Spec => []VerdictsDeserved` | none |
| `HttpProxy_proofs!EvictionsAreExplained` | `Spec => []EvictionsExplained` | none |
| `HttpProxy_proofs!StatsAndEventsAgree` | `Spec => []StatsMatchEvents` | none |
| `HttpProxy_proofs!QuotaFollowsEvents` | `Spec => []QuotaMatchesEvents` | none; the lower bound speaks of a Redis that answers |
| `Accounting_proofs!ChargedOnce` | `Spec => ChargesSpec` | none |
| `Accounting_proofs!FailuresAreReported` | `Spec => []NothingLostSilently` | none |
| `Accounting_proofs!UsageFollowsEvents` | `Spec => []UsageMatchesEvents` | none |
| `Accounting_proofs!StatsTypeCorrect` | `StatsSpec => []StatsTypeOK` | none |
| `Accounting_proofs!SnapshotTotalsCover` | `StatsSpec => []TotalsCoverTokens` | none: any number of recorders, tokens, chains and operations |
| `Accounting_proofs!NoCountIsLost` | `StatsSpec => []CountsAgreeAtRest` | none |
| `AdminJwt_proofs!AtMostOneEach` | `Spec => []OneTokenPerInstance` | none; the property itself speaks of `revoke_previous` |
| `AdminJwt_proofs!OnlyRevocationEnds` | `Spec => ValidUntilRevoked` | none |
| `AdminJwt_proofs!RotationsLeaveAccess` | `Spec => []SomeTokenValid` | at least one instance, and `RevokePrevious` |

"None" means: nothing beyond the assumption that the component's module makes about
its constants (`HealthAssumption`, `ConfigAssumption`, ...), which says what the code's
configuration and types guarantee: thresholds and weights are positive, node
lists are not empty, sets of requests are finite. Where two components share a proof
module (`Balancer_proofs`, `WebSocket_proofs`, `Accounting_proofs`) each theorem speaks of
the specification it names: `Spec` is that of `NodeHealth` in the first, of `ConnGuard` in
the second and of `Billing` in the third, and the state of the other component is left free.

The restrictions within the properties are needed: without `~overlapped` TLC finds a
counterexample to `Agreement` with two reporters and one to `ReloadTakesEffect` with two
reloaders, and without any one of the concessions of `TokenBucket` one to `BucketSpec`.

The arguments.

- `NodeHealth`. `Agreement` says nothing of the middle of a report and is not inductive.
  `SeqInv` states, as long as nothing has overlapped: at most one reporter is inside a
  report; if none is, the count of the current state is below its threshold; and for
  each position of the one inside, what the flag, the counters and its local variable
  have in common (`AtStep`): after an increment `seen` equals the counter, before a
  store the threshold has been reached. The refinement maps "in service" to the flag
  corrected by a decision already taken but not yet stored, so the increment is the
  breaker's step and the store a stutter.
- `NodePool`. The property speaks of the latest picks, a ghost, and says nothing of the
  counter; `PoolInv` relates the two. `Rotation`: the k-th pick from the end returned
  the node that is due at the value `rr` had k picks before (`Back`, modulo the period),
  and there are at most as many picks as the period is long, so no two used the same
  value. `Due` follows from the nodes alone, since the loop has collected exactly the
  eligible ones unless a flag flipped under it (`Scanned`), and then the turn is void. A
  node is due at the values of an interval as long as its weight (`WeightedWithin`:
  `AtCursor` is the least node whose cumulated weight exceeds the value, and cumulated
  weights grow by one weight per node, `WeightAdds`), and an injection from its picks
  into that interval bounds them. The first pick after a change, which finds `rr`
  wherever other picks left it, is at its value modulo the new period like any other.
- `HotReload`. `LockInv`: the writer is the one reloader in the loop, there are no
  readers meanwhile, and without a writer the pools are those last committed; so a
  viewer reads committed pools only. `LoadInv`: whoever is past `config.Load` holds a
  valid file, so the early return of `ReloadNodes` is unreachable, and the pools its
  loop has reached hold what it loaded. `EffectInv`, until reloads overlap: one is under
  way at most, and once the latest edition is in force, a reload under way has loaded
  that edition, so applying it changes nothing.
- `RedisBucket`. The ghost `ideal` is the level of the abstract bucket, stepped as that
  bucket prescribes; what has to be shown is that it holds a token whenever the script
  finds one. `BucketInv` compares the two at `Base`, the earliest time the next caller can
  tell without going back: there the hash is worth at most what `ideal` holds less
  the refill from that time to the latest a caller can tell, so a caller that tells
  a later time gains at both ends alike. One that tells an earlier time gets no refill from the
  script, and its going back is refilled to `ideal`, since it moves `Base` back. While the key lives `ideal` is full
  or has gained the refill since the last script, which is what it
  has, with the gift, to be full when the key expires and the hash is a full bucket again.
- `Limiter`. The bound on the count needs to know how much may still come. `Past(d)` are
  the goroutines that have passed their check for day d and may still count; `QuotaInv` says that for
  today and later days what is counted, less what pushes added above the quota (`Checked`), is at
  most `DailyQuota - 1 + MaxBatch * |Others(d)|`,
  where `Others(d)` are those *not* past a check for d: a check that passes leaves the
  set and brings the knowledge that the count is below the quota, and a count returns to
  it and pays one batch. For past days only the full bound remains. A push raises both
  counts alike above the quota, and below it cannot reach the bound. That a check which
  finds the count below the quota finds nothing set aside is `SetAside`.
- `ConnGuard` and `Sessions`. `SlotsAccounted` counts holders with `Cardinality`;
  `GuardInv` adds the types and `count[t] <= MaxConns`, and the proof adds or removes
  one element of a finite set per step. Every step of `Sessions` is a step of
  `ConnGuard` or leaves its state alone, so its behaviours inherit both invariants.
- `WsSession`. `Paired` states who owns an id: at most one of the requests at the
  upstream, the answers in the queue, the request in the client pump's hand and the
  answer in the other's (`IdsOnce`), and whatever can still be answered is in `pending`
  (`Registered`). `Announced`: a subscription that lives at the upstream is in `subs`,
  in hand, or its answer is in the queue, and before each push, since the queue keeps
  the upstream's order; so the pump has tracked the subscription when it looks the push
  up. `Counted`: `subN` and the openings still in the queue never exceed the live
  subscriptions and the endings still in the queue. It is stated for every suffix of the
  queue, because `Track` does not count below zero: when it ignores an ending, what is
  left must balance by itself. The sets are counted by cardinality, one element in or
  out per step.
- `HttpProxy`. What is claimed of a request follows from what holds of it alone:
  `Local(r)` says, for each position of r, which of its variables belong to an answer it
  has heard. `Upright` adds that a steady node stays up, so only the cancellation of a
  request can make it fail, and its probes succeed. `CallsCounted` states both statistics as the number of pairs
  of a request past `record` and one of its successes; the events are the same pairs for
  requests past `publish`. `QuotaCounted` bounds the quota count from both sides by such pairs of
  the requests past `count`, from below without the cancelled ones; a request that is cancelled later
  only lowers that bound.
- `Billing`. `LedgerInv`: an open transaction that has inserted an event is the only
  one, and the event is not in the table (others wait at the unique key), so its commit
  is a `Charge`; one that has not inserted has found the event there. `SinksInv`: every
  sink behind a call's position has its event or has returned an error to it, and the
  first error is kept. Both survive `Exit`, which leaves no transaction open. The
  refinement mapping is the identity on the two tables. `UsageInv` is an invariant of
  `Charges`, which `Billing` inherits with the refinement: the usage of an account is
  the number of calls in its charged events.
- `StatsCollector`. The operations are sets of steps, and `Shaped` states what every one of
  them has in common: at most one add per counter and place, of one token and one chain
  (`OperationsShaped`, one lemma per operation); if it adds at one level it adds the same
  at the others, as far as the counter has them; its global add has the lowest line.
  `Queued` keeps of this what still holds of an operation half done. `Amount` is what the
  counters of a level hold plus what the operations begun still have to add there; the
  equations of `CountsAgreeAtRest` hold of amounts in every state (`Balanced`), since an
  operation begins with equal amounts due and an add moves one from due to counted. At rest
  nothing is due, and amounts are counts. `ensureToken` appears in this as a step that
  changes no counter: were the second look missing, `Balanced` would fail there.
  `GlobalFirst`: the total is ahead of the tokens by at least what is due to tokens by
  operations past their global add. `Viewing` carries it over to the view: while the
  totals are not read, what was read of the tokens is no more than the counters now
  (`Behind`), and tokens are no longer read when the totals are. The sums are
  cardinalities (`Total`): one more in a counter is one set of elements more
  (`TotalChange`), which needs no induction over the tokens.
- `AdminJwt`. `OneLive`: a token that is saved or will be is the only one of its
  instance, and an instance about to issue has none, because the revocation just before
  took it, and `Rotate` ends there if that fails. For `SomeTokenValid`, `Access` says
  that a token is valid or some instance is `Rotating`: between its revocation and its
  save, or with a failed last rotation or a token that has outlived its TTL (`life` is
  0). An instance that revokes everything is rotating itself; its save makes its token
  valid; a failure sets `life` to 0; and when a valid token expires, so does its owner's
  `life`, since the two are equal while both count (second part of `Access`).
  `ValidUntilRevoked` needs the types only (`Typed`): every action but a revocation and
  the passing of time leaves the rows of valid tokens alone (`Spared`), a crash and a
  failed `Save` included.

TLC checks each of these properties first on the runs above; `PoolInv` was also checked
as an invariant on the node lists of `pool`, and `StatsInv` on the instance of `stats`. Every
invariant the passing runs check is the statement of a theorem. What stays with TLC: liveness
(`DownIsEvicted`, `UpIsRestored`, `HupIsServed`, `SessionEnds`, `EveryRequestAnswered`,
`CacheFollowsDatabase`, `DisabledTokenShutOut`, `AccessReturns`), since the prover has no
rule for fairness here. `NeverPanics` is refuted by its run. No module with theorems
uses recursive operators.

## What is abstracted

- A node list of `HotReload` is one value, replaced whole, as `ReplaceNodes` does
  under the pool's own lock; `NodePool` has its contents.
- `HttpProxy` takes the middleware in one step: it shares nothing but counters and
  the limiter, whose inside is `Limiter`. A statistics call is one step, and only
  the global counters that depend on a request's outcome are kept. Counters of
  reports saturate at the threshold, which is all the code compares them with (their
  wrap-around is in `NodeHealth`).
- The Lua script's tokens are exact fractions; rounding of floating point is left out.
- WebSocket messages without id and batches are left out of `WsSession`; what a
  message adds to the statistics is in `StatsCollector`, what becomes of its event in
  `Billing`. An id is not reused while its answer is outstanding.
- A Redis call in `Limiter` takes effect once or not at all; the retries inside the
  client library are left out, there and for `XADD` in `Billing`.
- A token in `TokenStore` is its id and whether it is served: limits, chains and
  methods travel with it. The store read from YAML never changes and has no actions.
- `StatsCollector` keeps the counters named in `Tracked`, since no step depends on a
  counter; the tokens' metadata and times of last use are left out.
- `AdminJwt` models the Postgres table; the in-memory store serves one instance and
  is lost with it. Signatures, the truncation of times to seconds and differences
  between the clocks of instances and database are left out. An id stands for a new
  token once its old one can never be valid again.
- `InsertBillingEvent` of `internal/db`, which nothing calls.
- Logging, headers, message bytes.

## Not modelled

- **JSON-RPC parsing, method filter, client address, request context**: functions of one
  message or request without state of their own; the modules use their outcomes.
- **Configuration**: parsing and defaulting are field by field; what other modules
  depend on is in them (`Valid`, `ClampedWeight`, `Burst`).
- **Admin API**: the reload and upstreams handlers are in `HotReload`, the check of
  the caller in `AdminJwt`; the others read statistics.
- **Database connection, process wiring**: construction and connection setup; the signal
  loop is in `HotReload`, the exit in `Billing`.

## Plan

What would come next:

1. `NodePool` composed with `NodeHealth` over `ReplaceNodes`: the health of every
   node is forgotten, and late reports go to nodes nobody selects.
2. Local limiters that keep the rate of their first use, when a refresh of the token
   store changes a plan: `Limiter` with limits that change.
3. Batches and messages without id in `WsSession`; the metadata race of
   `TokenSnapshot`.
4. Proofs: of the compositions above, for any number of nodes; and that `HttpProxy`
   selects and reports as `NodePool` and `NodeHealth` do when reports do not overlap, a
   refinement in place of the shared reading of the code.
