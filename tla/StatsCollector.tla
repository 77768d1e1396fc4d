--------------------------- MODULE StatsCollector ---------------------------
(***************************************************************************)
(* The counters of internal/stats: global, per token, and per token and    *)
(* chain.  Requests add to several of them, one atomic add after the       *)
(* other, while Snapshot reads them one after the other.  c.mu protects    *)
(* the map of tokens only.                                                 *)
(*                                                                         *)
(* A goroutine is the set of the steps it has still to take, each with its *)
(* line of collector.go: straight-line code takes them by rising line, and *)
(* ensureToken stands before all who call it.                              *)
(***************************************************************************)
EXTENDS Integers, Sequences, FiniteSets

CONSTANTS Recorders, Viewer,  \* goroutines of requests and sessions; an admin call
          Tokens, Chains,
          FreeTokens,         \* tokens that are billing_free
          Listed,             \* tokens of the token store (ListMeta)
          Tracked,            \* the counters kept; no step depends on another
          OkCalls, ErrCalls,  \* successful and failed calls a request may have
          BillUnits,          \* notification_bill_units
          MaxOps              \* bound on the operations of all recorders

Counters == {"Requests", "Proxied", "SuccessCalls", "RPCErrors", "UpstreamErrors", "AuthFailed",
             "MethodDenied", "RateLimited", "DomainRejected", "BillableCalls", "FreeCalls",
             "WSConnections", "WSNotifications"}

ASSUME StatsAssumption ==
  /\ IsFiniteSet(Recorders) /\ IsFiniteSet(Tokens) /\ IsFiniteSet(Chains)
  /\ Viewer \notin Recorders
  /\ FreeTokens \union Listed \subseteq Tokens
  /\ Tracked \subseteq Counters
  /\ OkCalls \union ErrCalls \subseteq Nat
  /\ BillUnits \in Nat \ {0} /\ MaxOps \in Nat

VARIABLES known,    \* the tokens in c.tokens
          metrics,  \* the atomics, by place
          todo,     \* the steps each goroutine has before it
          reading,  \* does Snapshot hold c.mu
          unvisited,  \* places Snapshot has not come to
          view,     \* what it has read
          ops       \* operations begun

statsVars == <<known, metrics, todo, reading, unvisited, view, ops>>

\* A place is the path to a set of counters.
Global == <<>>
Of(t) == <<t>>
On(t, ch) == <<t, ch>>
TokenPlaces == {Of(t) : t \in Tokens}
ChainPlaces(t) == {On(t, ch) : ch \in Chains}
Places == {Global} \union TokenPlaces \union UNION {ChainPlaces(t) : t \in Tokens}

Zeros == [p \in Places |-> [c \in Tracked |-> 0]]

StatsInit ==
  /\ known = Listed          \* RegisterTokens
  /\ metrics = Zeros
  /\ todo = [g \in Recorders \union {Viewer} |-> {}]
  /\ reading = FALSE
  /\ unvisited = {}
  /\ view = Zeros
  /\ ops = 0

----------------------------------------------------------------------------
(* The operations, as sets of steps *)

Step(line, op, p, c, n) == [line |-> line, op |-> op, at |-> p, counter |-> c, n |-> n]

Kept(steps) == {s \in steps : s.counter \in Tracked \union {"-"}}

\* Adds of 1 to counters of one place, from this line on.
Adds(line, p, counters) == {Step(line + i - 1, "add", p, counters[i], 1) : i \in DOMAIN counters}
EnsureToken(line, t) == {Step(line, "ensure", Of(t), "-", 0)}
Everywhere(line, t, ch, c, n) ==
  {Step(line, "add", Global, c, n), Step(line + 1, "add", Of(t), c, n),
   Step(line + 2, "add", On(t, ch), c, n)}

Billed(line, t, ch, n) ==
  IF t \in FreeTokens THEN Everywhere(line + 4, t, ch, "FreeCalls", n)
                      ELSE Everywhere(line, t, ch, "BillableCalls", n)

IncDomainRejected == Adds(150, Global, <<"DomainRejected">>)

IncAuthFailed == Adds(155, Global, <<"AuthFailed", "Requests">>)

\* IncMethodDenied and, ten lines on, IncRateLimited.
IncRefused(t, c) ==
  Adds(161, Global, <<c, "Requests">>) \union EnsureToken(164, t)
    \union Adds(165, Of(t), <<c, "Requests">>)

Outcome(t, ch, ok, errs, failed) ==
  IF failed THEN Everywhere(197, t, ch, "UpstreamErrors", 1)
  ELSE (IF ok > 0 THEN Everywhere(203, t, ch, "SuccessCalls", ok) \union Billed(207, t, ch, ok)
        ELSE {})
       \union (IF errs > 0 THEN Everywhere(217, t, ch, "RPCErrors", errs) ELSE {})

RecordProxyTokenFirst(t, ch, ok, errs, failed) ==
  LET counts == <<"Requests", "Proxied">> IN
  EnsureToken(182, t) \union Adds(183, Of(t), counts) \union Adds(185, On(t, ch), counts)
    \union Adds(187, Global, counts) \union Outcome(t, ch, ok, errs, failed)

RecordProxy(t, ch, ok, errs, failed) ==
  LET counts == <<"Requests", "Proxied">> IN
  Adds(182, Global, counts) \union EnsureToken(186, t) \union Adds(187, Of(t), counts)
    \union Adds(192, On(t, ch), counts) \union Outcome(t, ch, ok, errs, failed)

RecordWSConnect(t, ch) ==
  Adds(225, Global, <<"WSConnections">>) \union EnsureToken(227, t)
    \union Adds(228, Of(t), <<"WSConnections">>) \union Adds(231, On(t, ch), <<"WSConnections">>)

RecordWSNotification(t, ch) ==
  LET counts(line, p) ==
        {Step(line, "add", p, "WSNotifications", 1), Step(line + 1, "add", p, "SuccessCalls", BillUnits)}
  IN counts(243, Global) \union EnsureToken(247, t) \union counts(248, Of(t))
       \union counts(253, On(t, ch)) \union Billed(258, t, ch, BillUnits)

Operations ==
  {IncDomainRejected, IncAuthFailed}
    \union {IncRefused(t, c) : t \in Tokens, c \in {"MethodDenied", "RateLimited"}}
    \union {RecordProxy(t, ch, ok, errs, failed) :
              t \in Tokens, ch \in Chains, ok \in OkCalls, errs \in ErrCalls, failed \in BOOLEAN}
    \union {RecordWSConnect(t, ch) : t \in Tokens, ch \in Chains}
    \union {RecordWSNotification(t, ch) : t \in Tokens, ch \in Chains}

----------------------------------------------------------------------------
(* The steps *)

Call(r) ==                   \* a request or a session calls the collector
  /\ todo[r] = {} /\ ops < MaxOps
  /\ \E steps \in Operations : todo' = [todo EXCEPT ![r] = Kept(steps)]
  /\ ops' = ops + 1
  /\ UNCHANGED <<known, metrics, reading, unvisited, view>>

\* The step that is next, and going on after it.
Ready(g, op) == {s \in todo[g] : s.op = op /\ \A o \in todo[g] : s.line <= o.line}

Continue(g, s, steps) == todo' = [todo EXCEPT ![g] = (@ \ {s}) \union steps]

Add(r) ==
  \E s \in Ready(r, "add") :
    /\ metrics' = [metrics EXCEPT ![s.at][s.counter] = @ + s.n]
    /\ Continue(r, s, {})
    /\ UNCHANGED <<known, reading, unvisited, view, ops>>

FindToken(g) ==              \* ensureToken: look under c.mu.RLock
  \E s \in Ready(g, "ensure") :
    /\ Continue(g, s, {IF Head(s.at) \in known THEN Step(127, "refresh", s.at, "-", 0)
                                               ELSE Step(132, "create", s.at, "-", 0)})
    /\ UNCHANGED <<known, metrics, reading, unvisited, view, ops>>

RefreshMeta(g) ==            \* st.meta = meta under c.mu.Lock; the meta data is left out
  \E s \in Ready(g, "refresh") :
    /\ ~reading
    /\ Continue(g, s, {})
    /\ UNCHANGED <<known, metrics, reading, unvisited, view, ops>>

CreateUnchecked(g) ==
  \E s \in Ready(g, "create") :
    /\ ~reading
    /\ known' = known \union {Head(s.at)}
    /\ metrics' = [p \in Places |-> IF p # Global /\ Head(p) = Head(s.at) THEN Zeros[p] ELSE metrics[p]]
    /\ Continue(g, s, {})
    /\ UNCHANGED <<reading, unvisited, view, ops>>

CreateToken(g) ==            \* it looks again under c.mu.Lock; a new state counts from 0
  \E s \in Ready(g, "create") :
    /\ ~reading
    /\ known' = known \union {Head(s.at)}
    /\ Continue(g, s, {})
    /\ UNCHANGED <<metrics, reading, unvisited, view, ops>>

----------------------------------------------------------------------------
(* Snapshot: the listed tokens are ensured; then, under c.mu.RLock, the     *)
(* tokens in any order, each with its chains, and last the global counters. *)

FieldOrder == <<"Requests", "Proxied", "SuccessCalls", "RPCErrors", "UpstreamErrors", "AuthFailed",
                "MethodDenied", "RateLimited", "DomainRejected", "BillableCalls", "FreeCalls",
                "WSConnections", "WSNotifications">>

Reads(p) == Kept({Step(45 + i, "read", p, FieldOrder[i], 0) : i \in DOMAIN FieldOrder})

BeginSnapshot ==
  /\ todo[Viewer] = {} /\ ~reading
  /\ todo' = [todo EXCEPT ![Viewer] =
                (UNION {EnsureToken(282, t) : t \in Listed}) \union {Step(285, "rlock", Global, "-", 0)}]
  /\ view' = Zeros
  /\ UNCHANGED <<known, metrics, reading, unvisited, ops>>

RLock ==
  \E s \in Ready(Viewer, "rlock") :
    /\ reading' = TRUE
    /\ unvisited' = {Of(t) : t \in known}
    /\ Continue(Viewer, s, {})
    /\ UNCHANGED <<known, metrics, view, ops>>

Visit(steps) ==
  /\ reading /\ todo[Viewer] = {}
  /\ todo' = [todo EXCEPT ![Viewer] = steps]
  /\ UNCHANGED <<known, metrics, reading, view, ops>>

VisitToken ==                \* the next token, when the chains of the last one are read
  /\ unvisited \subseteq TokenPlaces
  /\ \E t \in Tokens :
       /\ Of(t) \in unvisited
       /\ unvisited' = (unvisited \ {Of(t)}) \union ChainPlaces(t)
       /\ Visit(Reads(Of(t)))

VisitChain ==
  \E p \in unvisited \ TokenPlaces :
    /\ unvisited' = unvisited \ {p}
    /\ Visit(Reads(p))

VisitTotal ==
  /\ unvisited = {}
  /\ UNCHANGED unvisited
  /\ Visit(Reads(Global) \union {Step(319, "runlock", Global, "-", 0)})

Read ==
  \E s \in Ready(Viewer, "read") :
    /\ view' = [view EXCEPT ![s.at][s.counter] = metrics[s.at][s.counter]]
    /\ Continue(Viewer, s, {})
    /\ UNCHANGED <<known, metrics, reading, unvisited, ops>>

RUnlock ==
  \E s \in Ready(Viewer, "runlock") :
    /\ reading' = FALSE
    /\ Continue(Viewer, s, {})
    /\ UNCHANGED <<known, metrics, unvisited, view, ops>>

Snapshot == BeginSnapshot \/ RLock \/ VisitToken \/ VisitChain \/ VisitTotal \/ Read \/ RUnlock

Ensure(g) == FindToken(g) \/ RefreshMeta(g) \/ CreateToken(g)

StatsNext ==
  \/ \E r \in Recorders : Call(r) \/ Add(r) \/ Ensure(r)
  \/ Snapshot \/ Ensure(Viewer)

StatsSpec == StatsInit /\ [][StatsNext]_statsVars

----------------------------------------------------------------------------
(* Properties *)

Steps == [line : Nat, op : {"add", "ensure", "refresh", "create", "rlock", "read", "runlock"},
          at : Places, counter : Counters \union {"-"}, n : Nat]

StatsTypeOK ==
  /\ Listed \subseteq known /\ known \subseteq Tokens
  /\ {metrics, view} \subseteq [Places -> [Tracked -> Nat]]
  /\ todo \in [Recorders \union {Viewer} -> SUBSET Steps]
  /\ reading \in BOOLEAN
  /\ unvisited \subseteq Places
  /\ ops \in 0 .. MaxOps

\* The sum of the values of a function, counted.
Total(f) == Cardinality(UNION {{x} \X (1 .. f[x]) : x \in DOMAIN f})

SumOver(m, places, c) == Total([p \in places |-> m[p][c]])

(***************************************************************************)
(* A snapshot taken while requests count is not of one moment, but its     *)
(* totals never fall short of its tokens: every operation adds to the      *)
(* global counter first, and Snapshot reads it last.                       *)
(***************************************************************************)
TotalsCoverTokens ==
  ~reading /\ todo[Viewer] = {} =>
    \A c \in Tracked : SumOver(view, TokenPlaces, c) <= view[Global][c]

(***************************************************************************)
(* Once every operation has finished no count is missing anywhere, though  *)
(* several requests created the token's state together (ensureToken): the  *)
(* chains add up to the token, the tokens and the failed authentications   *)
(* to the total, the billable and free calls to the successful ones.       *)
(***************************************************************************)
CountsAgreeAtRest ==
  (\A r \in Recorders : todo[r] = {}) =>
    /\ {"Requests", "AuthFailed"} \subseteq Tracked =>
         metrics[Global]["Requests"] =
           SumOver(metrics, TokenPlaces, "Requests") + metrics[Global]["AuthFailed"]
    /\ \A c \in Tracked \intersect {"SuccessCalls", "BillableCalls", "FreeCalls"} :
         /\ metrics[Global][c] = SumOver(metrics, TokenPlaces, c)
         /\ \A t \in Tokens : metrics[Of(t)][c] = SumOver(metrics, ChainPlaces(t), c)
    /\ {"SuccessCalls", "BillableCalls", "FreeCalls"} \subseteq Tracked =>
         \A p \in Places :
           metrics[p]["SuccessCalls"] = metrics[p]["BillableCalls"] + metrics[p]["FreeCalls"]
=============================================================================
