------------------------------ MODULE Billing ------------------------------
(***************************************************************************)
(* Billing events on their way to the sinks (internal/billing) and the     *)
(* ledger in Postgres (internal/db).  Every answered request with a        *)
(* success starts a goroutine that calls Publish once, with a timeout of   *)
(* three seconds and no retry; the sinks are called one after the other.   *)
(* A sink may fail, an answer of the database may be lost, and the process *)
(* may exit under the goroutines, which main does not wait for.            *)
(***************************************************************************)
EXTENDS Integers, Sequences, FiniteSetsExt

CONSTANTS Calls, EventOf,    \* calls of Publish, and the event each carries
          Events, Accounts,  \* billing events; pairs of an API token and a day
          AccountOf, Units,  \* the account of an event, the calls it stands for
          Billable           \* the events of tokens that are not billing_free

\* The gateway publishes an event once.  Two calls with one event are the
\* repeated delivery that docs/database.md speaks of.
ASSUME BillingAssumption ==
  /\ EventOf \in [Calls -> Events]
  /\ AccountOf \in [Events -> Accounts]
  /\ Units \in [Events -> Nat \ {0}]
  /\ Billable \subseteq Events

VARIABLES sinks,     \* the publishers, in order
          pc, at,    \* position of each call, and the sink it is at
          firstErr,  \* has a sink returned an error
          inserted,  \* did its INSERT add a row (RowsAffected() > 0)
          stream,    \* events in the Redis stream
          billing_events, usage_daily,  \* the committed rows
          errors     \* ghost: pairs of a call and a sink that returned an error to it

tables == <<billing_events, usage_daily>>
vars == <<sinks, pc, at, firstErr, inserted, stream, tables, errors>>

\* NewPublisher, for billing.publisher and which of Redis and Postgres exist.
NewPublisher(publisher, redis, db) ==
  LET log == <<"log">>
      first == CASE publisher = "redis_stream" -> IF redis THEN <<"stream">> ELSE log
                 [] publisher = "postgres" -> IF db THEN <<>> ELSE log
                 [] OTHER -> log
  IN first \o IF db THEN <<"ledger">> ELSE <<>>

Init ==
  /\ \E publisher \in {"redis_stream", "postgres", "log"}, redis, db \in BOOLEAN :
       sinks = NewPublisher(publisher, redis, db)
  /\ pc = [c \in Calls |-> "idle"]
  /\ at = [c \in Calls |-> 1]
  /\ firstErr = [c \in Calls |-> FALSE]
  /\ inserted = [c \in Calls |-> FALSE]
  /\ stream = {}
  /\ billing_events = {}
  /\ usage_daily = [a \in Accounts |-> [success |-> 0, billable |-> 0]]
  /\ errors = {}

Account(c) == AccountOf[EventOf[c]]

Goto(c, from, to) == pc[c] = from /\ pc' = [pc EXCEPT ![c] = to]

AddUsage(c, billable) ==
  usage_daily' = [usage_daily EXCEPT ![Account(c)] =
                    [success |-> @.success + Units[EventOf[c]], billable |-> @.billable + billable]]

----------------------------------------------------------------------------
(* MultiPublisher.Publish: the loop over the sinks *)

Spawn(c) ==                  \* go func() { ... Publish(ctx, ev) ... }
  /\ Goto(c, "idle", "publish")
  /\ UNCHANGED <<sinks, at, firstErr, inserted, stream, tables, errors>>

AtSink(c, sink) == pc[c] = "publish" /\ sinks[at[c]] = sink

ReturnLastErr(c, err) ==
  /\ firstErr' = [firstErr EXCEPT ![c] = err]
  /\ errors' = IF err THEN errors \union {<<c, sinks[at[c]]>>} ELSE errors
  /\ inserted' = [inserted EXCEPT ![c] = FALSE]
  /\ IF at[c] < Len(sinks)
     THEN at' = [at EXCEPT ![c] = @ + 1] /\ pc' = [pc EXCEPT ![c] = "publish"]
     ELSE pc' = [pc EXCEPT ![c] = "done"] /\ UNCHANGED at

\* The sink returns, with an error or with nil; the next one is called either way.
Return(c, err) ==
  /\ firstErr' = [firstErr EXCEPT ![c] = @ \/ err]
  /\ errors' = IF err THEN errors \union {<<c, sinks[at[c]]>>} ELSE errors
  /\ inserted' = [inserted EXCEPT ![c] = FALSE]
  /\ IF at[c] < Len(sinks)
     THEN at' = [at EXCEPT ![c] = @ + 1] /\ pc' = [pc EXCEPT ![c] = "publish"]
     ELSE pc' = [pc EXCEPT ![c] = "done"] /\ UNCHANGED at

LogPublish(c) ==
  /\ AtSink(c, "log")
  /\ Return(c, FALSE)
  /\ UNCHANGED <<sinks, stream, tables>>

StreamPublish(c) ==          \* XADD; it may be carried out and its answer lost
  /\ AtSink(c, "stream")
  /\ \/ stream' = stream \union {EventOf[c]} /\ \E err \in BOOLEAN : Return(c, err)
     \/ UNCHANGED stream /\ Return(c, TRUE)
  /\ UNCHANGED <<sinks, tables>>

----------------------------------------------------------------------------
(* PostgresPublisher.Publish.  External: Postgres lets a statement wait for *)
(* the transaction that holds the row it needs.                             *)

\* An open transaction holds the event's key once it has inserted it, and the
\* account's usage row once it has updated that.
HoldsEvent(d, e) == pc[d] \in {"upsert", "commit"} /\ inserted[d] /\ EventOf[d] = e
HoldsUsage(d, a) == pc[d] = "commit" /\ inserted[d] /\ Account(d) = a

IncrUsageDaily(c) ==         \* a free token's event: one statement
  /\ AtSink(c, "ledger") /\ EventOf[c] \notin Billable
  /\ \/ /\ \A d \in Calls : ~HoldsUsage(d, Account(c))
        /\ AddUsage(c, 0)
        /\ \E err \in BOOLEAN : Return(c, err)
     \/ Return(c, TRUE) /\ UNCHANGED usage_daily
  /\ UNCHANGED <<sinks, stream, billing_events>>

Begin(c) ==
  /\ AtSink(c, "ledger") /\ EventOf[c] \in Billable
  /\ \/ Goto(c, "publish", "insert") /\ UNCHANGED <<at, firstErr, inserted, errors>>
     \/ Return(c, TRUE)
  /\ UNCHANGED <<sinks, stream, tables>>

InsertIgnoresConflict(c) ==
  /\ \A d \in Calls : ~HoldsEvent(d, EventOf[c])
  /\ inserted' = [inserted EXCEPT ![c] = TRUE]
  /\ Goto(c, "insert", "upsert")
  /\ UNCHANGED <<sinks, at, firstErr, stream, tables, errors>>

InsertOutsideTx(c) ==
  /\ \A d \in Calls : ~HoldsEvent(d, EventOf[c])
  /\ inserted' = [inserted EXCEPT ![c] = EventOf[c] \notin billing_events]
  /\ Goto(c, "insert", IF inserted'[c] THEN "upsert" ELSE "commit")
  /\ billing_events' = billing_events \union {EventOf[c]}
  /\ UNCHANGED <<sinks, at, firstErr, stream, usage_daily, errors>>

Insert(c) ==                 \* ON CONFLICT (event_id) DO NOTHING
  /\ \A d \in Calls : ~HoldsEvent(d, EventOf[c])
  /\ inserted' = [inserted EXCEPT ![c] = EventOf[c] \notin billing_events]
  /\ Goto(c, "insert", IF inserted'[c] THEN "upsert" ELSE "commit")
  /\ UNCHANGED <<sinks, at, firstErr, stream, tables, errors>>

Upsert(c) ==                 \* the day's usage; other transactions see it at commit
  /\ \A d \in Calls : ~HoldsUsage(d, Account(c))
  /\ Goto(c, "upsert", "commit")
  /\ UNCHANGED <<sinks, at, firstErr, inserted, stream, tables, errors>>

Commit(c) ==                 \* it may be carried out and its answer lost
  /\ pc[c] = "commit"
  /\ IF inserted[c]
     THEN billing_events' = billing_events \union {EventOf[c]} /\ AddUsage(c, Units[EventOf[c]])
     ELSE UNCHANGED tables
  /\ \E err \in BOOLEAN : Return(c, err)
  /\ UNCHANGED <<sinks, stream>>

\* A statement or the commit fails, or the three seconds are over: the deferred Rollback.
Rollback(c) ==
  /\ pc[c] \in {"insert", "upsert", "commit"}
  /\ Return(c, TRUE)
  /\ UNCHANGED <<sinks, stream, tables>>

RecordBillableSuccess(c) == Begin(c) \/ Insert(c) \/ Upsert(c) \/ Commit(c) \/ Rollback(c)

----------------------------------------------------------------------------
\* main returns, or the process dies: goroutines end where they are, open
\* transactions are rolled back.  What has not been spawned belongs to the next run.
Exit ==
  /\ \E c \in Calls : pc[c] \notin {"idle", "done", "lost"}
  /\ pc' = [c \in Calls |-> IF pc[c] \in {"idle", "done"} THEN pc[c] ELSE "lost"]
  /\ inserted' = [c \in Calls |-> FALSE]
  /\ UNCHANGED <<sinks, at, firstErr, stream, tables, errors>>

Publish(c) ==
  LogPublish(c) \/ StreamPublish(c) \/ IncrUsageDaily(c) \/ RecordBillableSuccess(c)

Next == Exit \/ \E c \in Calls : Spawn(c) \/ Publish(c)

Spec == Init /\ [][Next]_vars

----------------------------------------------------------------------------
(* Properties *)

TypeOK ==
  /\ sinks \in Seq({"log", "stream", "ledger"}) /\ sinks # <<>>
  /\ pc \in [Calls -> {"idle", "publish", "insert", "upsert", "commit", "done", "lost"}]
  /\ at \in [Calls -> DOMAIN sinks]
  /\ {firstErr, inserted} \subseteq [Calls -> BOOLEAN]
  /\ stream \subseteq Events
  /\ billing_events \subseteq Billable
  /\ usage_daily \in [Accounts -> [success : Nat, billable : Nat]]
  /\ errors \subseteq Calls \X {"log", "stream", "ledger"}

(***************************************************************************)
(* docs/database.md: an event is charged once however often it is          *)
(* delivered, and its row and the day's usage appear in one step, whatever *)
(* fails in between (RecordBillableSuccess).                               *)
(***************************************************************************)
Ledger == INSTANCE Charges
ChargesSpec == Ledger!Spec

\* The calls of a's events, as pairs of an event and a number.
ChargedCalls(a) ==
  UNION {{e} \X (1 .. Units[e]) : e \in {f \in billing_events : AccountOf[f] = a}}
Charged(a) == Cardinality(ChargedCalls(a))

(***************************************************************************)
(* usage_daily can be recomputed from billing_events: the billable count   *)
(* of every token and day is the sum of its events, at every moment and    *)
(* after every crash (RecordBillableSuccess, IncrUsageDaily).              *)
(***************************************************************************)
UsageMatchesEvents ==
  \A a \in Accounts :
    usage_daily[a].billable = Charged(a) /\ usage_daily[a].success >= Charged(a)

\* Has the sink what it must have of the event?  That is asked of billable events
\* only: the stream gets free ones too, and the ledger keeps of them only usage,
\* which cannot be told from that of others.
Stored(e, sink) ==
  e \in Billable =>
    CASE sink = "stream" -> e \in stream
      [] sink = "ledger" -> e \in billing_events
      [] OTHER -> TRUE

(***************************************************************************)
(* A sink that fails does not keep a billable event from the others, and   *)
(* the caller of Publish hears of it: when Publish has returned, each sink *)
(* has the event or has returned an error; and Publish, of whatever event, *)
(* returned an error if any sink did (MultiPublisher).                     *)
(***************************************************************************)
NothingLostSilently ==
  \A c \in Calls : pc[c] = "done" =>
    /\ \A i \in DOMAIN sinks : Stored(EventOf[c], sinks[i]) \/ <<c, sinks[i]>> \in errors
    /\ firstErr[c] <=> \E i \in DOMAIN sinks : <<c, sinks[i]>> \in errors
=============================================================================
