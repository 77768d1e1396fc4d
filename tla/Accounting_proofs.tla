------------------------- MODULE Accounting_proofs -------------------------
(***************************************************************************)
(* What is charged and what is counted.  Billing: the ledger charges every *)
(* event at most once, and no sink loses an event without an error, for    *)
(* any number of calls, events and accounts and any choice of sinks (Init, *)
(* Next and Spec are Billing's).  StatsCollector: no count is lost and a   *)
(* snapshot's totals cover its tokens, for any number of requests, tokens  *)
(* and chains (StatsSpec).                                                 *)
(***************************************************************************)
EXTENDS Billing, StatsCollector, SequenceTheorems, FiniteSetTheorems, TLAPS

Sinks == {"log", "stream", "ledger"}
InTx == {"insert", "upsert", "commit"}

Typed ==
  /\ sinks \in Seq(Sinks) /\ sinks # <<>>
  /\ pc \in [Calls -> {"idle", "publish", "done", "lost"} \union InTx]
  /\ at \in [Calls -> DOMAIN sinks]
  /\ firstErr \in [Calls -> BOOLEAN]
  /\ inserted \in [Calls -> BOOLEAN]

\* An open transaction that has inserted an event is the only one, and the event
\* is not in the table; one that has not inserted found it there.
LedgerInv ==
  /\ \A c \in Calls :
       /\ pc[c] \in InTx => EventOf[c] \in Billable /\ sinks[at[c]] = "ledger"
       /\ pc[c] = "upsert" => inserted[c]
       /\ HoldsEvent(c, EventOf[c]) => EventOf[c] \notin billing_events
       /\ pc[c] = "commit" /\ ~inserted[c] => EventOf[c] \in billing_events
  /\ \A c, d \in Calls :
       HoldsEvent(c, EventOf[c]) /\ HoldsEvent(d, EventOf[d]) /\ EventOf[c] = EventOf[d] => c = d

\* The sinks behind a call have its event, or have returned an error to it.
SinksInv ==
  \A c \in Calls :
    /\ \A i \in DOMAIN sinks : i < at[c] \/ pc[c] = "done" =>
         Stored(EventOf[c], sinks[i]) \/ <<c, sinks[i]>> \in errors
    /\ firstErr[c] <=> \E i \in DOMAIN sinks : <<c, sinks[i]>> \in errors

BillingInv == Typed /\ LedgerInv /\ SinksInv

\* NewPublisher returns one sink at least.
LEMMA SomeSink ==
  ASSUME NEW publisher, NEW redis \in BOOLEAN, NEW db \in BOOLEAN
  PROVE  /\ NewPublisher(publisher, redis, db) \in Seq(Sinks)
         /\ NewPublisher(publisher, redis, db) # <<>>
<1> DEFINE log == <<"log">>
           first == CASE publisher = "redis_stream" -> IF redis THEN <<"stream">> ELSE log
                      [] publisher = "postgres" -> IF db THEN <<>> ELSE log
                      [] OTHER -> log
           last == IF db THEN <<"ledger">> ELSE <<>>
<1>1. first \in {<<"stream">>, <<"log">>, <<>>} /\ (first = <<>> => db)
  BY DEF Sinks
<1>2. NewPublisher(publisher, redis, db) = first \o last
  BY DEF NewPublisher
<1>3. <<"stream">> \in Seq(Sinks) /\ <<"log">> \in Seq(Sinks) /\ <<"ledger">> \in Seq(Sinks)
      /\ <<>> \in Seq(Sinks)
  BY DEF Sinks
<1>4. last \in {<<"ledger">>, <<>>} /\ (db => last = <<"ledger">>)
  OBVIOUS
<1> HIDE DEF first, last
<1>5. first \in Seq(Sinks) /\ last \in Seq(Sinks)
  BY <1>1, <1>3, <1>4
<1>6. first \o last \in Seq(Sinks) /\ Len(first \o last) = Len(first) + Len(last)
  BY <1>5
<1>7. Len(first) + Len(last) > 0
  BY <1>1, <1>4
<1> QED
  BY <1>2, <1>6, <1>7

\* Before the first event the tables and the stream are empty.
LEMMA BillingInit == Init => BillingInv
<1> SUFFICES ASSUME Init PROVE BillingInv
  OBVIOUS
<1>1. sinks \in Seq(Sinks) /\ sinks # <<>>
  BY SomeSink DEF Init
<1>2. 1 \in DOMAIN sinks
  BY <1>1
<1> QED
  BY <1>1, <1>2 DEF Init, BillingInv, Typed, LedgerInv, SinksInv, HoldsEvent, InTx

\* The sink of a call has returned: it stored the event or returned an error,
\* and if it added the event's row, no other open transaction holds that.
LEMMA ReturnInv ==
  ASSUME BillingInv, NEW c \in Calls, NEW err \in BOOLEAN,
         pc[c] \in {"publish"} \union InTx,
         Return(c, err), UNCHANGED sinks,
         stream \subseteq stream',
         billing_events \subseteq billing_events',
         billing_events' \subseteq billing_events \union {EventOf[c]},
         EventOf[c] \in billing_events' =>
           (EventOf[c] \in billing_events \/ HoldsEvent(c, EventOf[c])),
         err \/ (/\ sinks[at[c]] = "stream" => EventOf[c] \in stream'
                 /\ sinks[at[c]] = "ledger" =>
                      (EventOf[c] \in Billable => EventOf[c] \in billing_events'))
  PROVE  BillingInv'
<1>1. Typed
  BY DEF BillingInv
<1>2. /\ at[c] \in 1..Len(sinks) /\ Len(sinks) \in Nat /\ DOMAIN sinks = 1..Len(sinks)
      /\ \A d \in Calls : at[d] \in 1..Len(sinks)
  BY <1>1 DEF Typed
<1>3. /\ firstErr' = [firstErr EXCEPT ![c] = firstErr[c] \/ err]
      /\ inserted' = [inserted EXCEPT ![c] = FALSE]
      /\ errors' = IF err THEN errors \union {<<c, sinks[at[c]]>>} ELSE errors
  BY DEF Return
<1>4. /\ at' \in [Calls -> DOMAIN sinks]
      /\ pc' \in [Calls -> {"idle", "publish", "done", "lost"} \union InTx]
      /\ pc'[c] \in {"publish", "done"}
      /\ \A d \in Calls \ {c} : pc'[d] = pc[d] /\ at'[d] = at[d]
      /\ \A i \in DOMAIN sinks : (i < at'[c] \/ pc'[c] = "done") => (i < at[c] \/ i = at[c])
  <2>1. CASE at[c] < Len(sinks)
    <3>1. at' = [at EXCEPT ![c] = at[c] + 1] /\ pc' = [pc EXCEPT ![c] = "publish"]
      BY <2>1 DEF Return
    <3>2. at[c] + 1 \in DOMAIN sinks
      BY <1>2, <2>1
    <3> QED
      BY <1>1, <1>2, <3>1, <3>2 DEF Typed
  <2>2. CASE ~(at[c] < Len(sinks))
    <3>1. pc' = [pc EXCEPT ![c] = "done"] /\ at' = at
      BY <2>2 DEF Return
    <3>2. at[c] = Len(sinks)
      BY <1>2, <2>2
    <3> QED
      BY <1>1, <1>2, <3>1, <3>2 DEF Typed
  <2> QED
    BY <2>1, <2>2
<1>5. Typed'
  BY <1>1, <1>3, <1>4 DEF Typed
<1>6. \A d \in Calls : ~HoldsEvent(c, EventOf[c])'
                       /\ (d # c => (HoldsEvent(d, EventOf[d])' <=> HoldsEvent(d, EventOf[d])))
  BY <1>1, <1>3, <1>4 DEF HoldsEvent, Typed
<1>7. LedgerInv'
  <2>1. ASSUME NEW d \in Calls
        PROVE  /\ pc'[d] \in InTx => (EventOf[d] \in Billable /\ sinks[at'[d]] = "ledger")
               /\ pc'[d] = "upsert" => inserted'[d]
               /\ (pc'[d] = "commit" /\ ~inserted'[d]) => EventOf[d] \in billing_events'
    BY <1>1, <1>3, <1>4 DEF BillingInv, LedgerInv, Typed, InTx
  <2>2. ASSUME NEW d \in Calls, HoldsEvent(d, EventOf[d])'
        PROVE  EventOf[d] \notin billing_events'
    <3>1. d # c /\ HoldsEvent(d, EventOf[d])
      BY <1>6, <2>2
    <3>2. EventOf[d] \notin billing_events
      BY <3>1 DEF BillingInv, LedgerInv
    <3>3. SUFFICES ASSUME EventOf[d] = EventOf[c], EventOf[c] \in billing_events' PROVE FALSE
      BY <3>2
    <3>4. HoldsEvent(c, EventOf[c])
      BY <3>2, <3>3
    <3> QED
      BY <3>1, <3>3, <3>4 DEF BillingInv, LedgerInv
  <2>3. ASSUME NEW d \in Calls, NEW e \in Calls, HoldsEvent(d, EventOf[d])',
               HoldsEvent(e, EventOf[e])', EventOf[d] = EventOf[e]
        PROVE  d = e
    <3>1. HoldsEvent(d, EventOf[d]) /\ HoldsEvent(e, EventOf[e])
      BY <1>6, <2>3
    <3> QED
      BY <2>3, <3>1 DEF BillingInv, LedgerInv
  <2> QED
    BY <1>3, <2>1, <2>2, <2>3 DEF LedgerInv
<1>8. SinksInv'
  <2> SUFFICES ASSUME NEW d \in Calls
               PROVE  /\ \A i \in DOMAIN sinks : (i < at'[d] \/ pc'[d] = "done") =>
                           (Stored(EventOf[d], sinks[i])' \/ <<d, sinks[i]>> \in errors')
                      /\ firstErr'[d] <=> \E i \in DOMAIN sinks : <<d, sinks[i]>> \in errors'
    BY DEF SinksInv, Stored
  <2>1. \A i \in DOMAIN sinks : Stored(EventOf[d], sinks[i]) => Stored(EventOf[d], sinks[i])'
    BY DEF Stored
  <2>2. ASSUME NEW i \in DOMAIN sinks, i < at'[d] \/ pc'[d] = "done"
        PROVE  Stored(EventOf[d], sinks[i])' \/ <<d, sinks[i]>> \in errors'
    <3>1. CASE d # c \/ i < at[c]
      BY <1>3, <1>4, <2>1, <2>2, <3>1 DEF BillingInv, SinksInv
    <3>2. CASE d = c /\ i = at[c]
      BY <1>3, <3>2 DEF Stored
    <3> QED
      BY <1>4, <2>2, <3>1, <3>2
  <2>3. firstErr'[d] <=> \E i \in DOMAIN sinks : <<d, sinks[i]>> \in errors'
    <3>1. CASE d # c \/ ~err
      BY <1>1, <1>3, <3>1 DEF BillingInv, SinksInv, Typed
    <3>2. CASE d = c /\ err
      BY <1>1, <1>2, <1>3, <3>2 DEF Typed
    <3> QED
      BY <3>1, <3>2
  <2> QED
    BY <2>2, <2>3
<1> QED
  BY <1>5, <1>7, <1>8 DEF BillingInv

\* A step in which no sink returns: nothing is stored and no call ends.
LEMMA BetweenReturns ==
  ASSUME BillingInv, UNCHANGED <<sinks, at, firstErr, stream, tables, errors>>,
         \A d \in Calls : pc'[d] = "done" => pc[d] = "done"
  PROVE  SinksInv'
BY DEF BillingInv, SinksInv, Stored, tables

\* The one statement that can make an open transaction hold the event.
LEMMA InsertInv ==
  ASSUME BillingInv, NEW c \in Calls, Insert(c)
  PROVE  BillingInv'
<1>1. Typed /\ LedgerInv
  BY DEF BillingInv
<1>2. /\ pc[c] = "insert"
      /\ inserted' = [inserted EXCEPT ![c] = EventOf[c] \notin billing_events]
      /\ pc' = [pc EXCEPT ![c] = IF inserted'[c] THEN "upsert" ELSE "commit"]
      /\ UNCHANGED <<sinks, at, firstErr, stream, tables, errors>>
      /\ \A d \in Calls : ~HoldsEvent(d, EventOf[c])
  BY DEF Insert, Goto
<1>3. inserted'[c] = (EventOf[c] \notin billing_events)
  BY <1>1, <1>2 DEF Typed
<1>4. Typed'
  BY <1>1, <1>2 DEF Typed, InTx
<1>5. SinksInv'
  BY <1>1, <1>2, BetweenReturns DEF Typed
<1>6. \A d \in Calls \ {c} : pc'[d] = pc[d] /\ inserted'[d] = inserted[d]
  BY <1>1, <1>2 DEF Typed
<1>7. pc'[c] \in {"upsert", "commit"} /\ (pc'[c] = "upsert" <=> inserted'[c])
  BY <1>1, <1>2 DEF Typed
<1>8. LedgerInv'
  <2>1. ASSUME NEW d \in Calls
        PROVE  /\ pc'[d] \in InTx => (EventOf[d] \in Billable /\ sinks'[at'[d]] = "ledger")
               /\ pc'[d] = "upsert" => inserted'[d]
               /\ HoldsEvent(d, EventOf[d])' => EventOf[d] \notin billing_events'
               /\ (pc'[d] = "commit" /\ ~inserted'[d]) => EventOf[d] \in billing_events'
    <3>1. CASE d = c
      BY <1>1, <1>2, <1>3, <1>7, <3>1 DEF LedgerInv, InTx, HoldsEvent, tables
    <3>2. CASE d # c
      BY <1>1, <1>2, <1>6, <3>2 DEF LedgerInv, HoldsEvent, tables
    <3> QED
      BY <3>1, <3>2
  <2>2. ASSUME NEW d \in Calls, NEW e \in Calls, HoldsEvent(d, EventOf[d])',
               HoldsEvent(e, EventOf[e])', EventOf[d] = EventOf[e], d # e
        PROVE  FALSE
    <3>1. \A x \in Calls \ {c} : HoldsEvent(x, EventOf[x])' => HoldsEvent(x, EventOf[x])
      BY <1>6 DEF HoldsEvent
    <3>2. CASE d # c /\ e # c
      BY <1>1, <2>2, <3>1, <3>2 DEF LedgerInv
    <3>3. CASE d = c \/ e = c
      BY <1>2, <2>2, <3>1, <3>3
    <3> QED
      BY <3>2, <3>3
  <2> QED
    BY <2>1, <2>2 DEF LedgerInv
<1> QED
  BY <1>4, <1>5, <1>8 DEF BillingInv

\* Publish and its transaction go on; nothing new is held.
LEMMA MoveInv ==
  ASSUME BillingInv, NEW c \in Calls,
         NEW from \in {"idle", "publish", "upsert"}, NEW to \in {"publish", "insert", "commit"},
         <<from, to>> \in {<<"idle", "publish">>, <<"publish", "insert">>, <<"upsert", "commit">>},
         to = "insert" => (EventOf[c] \in Billable /\ sinks[at[c]] = "ledger"),
         Goto(c, from, to),
         UNCHANGED <<sinks, at, firstErr, inserted, stream, tables, errors>>
  PROVE  BillingInv'
<1>1. Typed /\ LedgerInv
  BY DEF BillingInv
<1>2. pc[c] = from /\ pc' = [pc EXCEPT ![c] = to]
  BY DEF Goto
<1>3. Typed'
  BY <1>1, <1>2 DEF Typed, InTx
<1>4. SinksInv'
  BY <1>1, <1>2, BetweenReturns DEF Typed
<1>5. \A d \in Calls : HoldsEvent(d, EventOf[d])' <=> HoldsEvent(d, EventOf[d])
  BY <1>1, <1>2 DEF Typed, HoldsEvent
<1>6. LedgerInv'
  <2>1. \A d \in Calls :
          /\ pc'[d] \in InTx => (EventOf[d] \in Billable /\ sinks'[at'[d]] = "ledger")
          /\ pc'[d] = "upsert" => inserted'[d]
          /\ (pc'[d] = "commit" /\ ~inserted'[d]) => EventOf[d] \in billing_events'
    BY <1>1, <1>2 DEF LedgerInv, Typed, InTx, tables
  <2> QED
    BY <1>1, <1>5, <2>1 DEF LedgerInv, tables
<1> QED
  BY <1>3, <1>4, <1>6 DEF BillingInv

\* When the process ends no transaction is left, and no call returns.
LEMMA ExitInv == ASSUME BillingInv, Exit PROVE BillingInv'
<1>1. Typed
  BY DEF BillingInv
<1>2. /\ pc' = [c \in Calls |-> IF pc[c] \in {"idle", "done"} THEN pc[c] ELSE "lost"]
      /\ inserted' = [c \in Calls |-> FALSE]
      /\ UNCHANGED <<sinks, at, firstErr, stream, tables, errors>>
  BY DEF Exit
<1>3. Typed'
  BY <1>1, <1>2 DEF Typed
<1>4. SinksInv'
  BY <1>2, BetweenReturns
<1>5. LedgerInv'
  BY <1>2 DEF LedgerInv, HoldsEvent, InTx
<1> QED
  BY <1>3, <1>4, <1>5 DEF BillingInv

\* One case per sink and per statement of the transaction.
LEMMA PublishInv ==
  ASSUME BillingInv, NEW c \in Calls, Publish(c)
  PROVE  BillingInv'
<1>1. Typed /\ LedgerInv
  BY DEF BillingInv
<1>2. CASE LogPublish(c)
  <2>1. pc[c] = "publish" /\ sinks[at[c]] = "log" /\ Return(c, FALSE)
        /\ UNCHANGED <<sinks, stream, tables>>
    BY <1>2 DEF LogPublish, AtSink
  <2> QED
    BY <2>1, ReturnInv DEF tables
<1>3. CASE StreamPublish(c)
  <2>1. pc[c] = "publish" /\ sinks[at[c]] = "stream" /\ UNCHANGED <<sinks, tables>>
    BY <1>3 DEF StreamPublish, AtSink
  <2>2. PICK err \in BOOLEAN :
          /\ Return(c, err)
          /\ \/ stream' = stream \union {EventOf[c]}
             \/ stream' = stream /\ err
    BY <1>3 DEF StreamPublish
  <2> QED
    BY <2>1, <2>2, ReturnInv DEF tables
<1>4. CASE IncrUsageDaily(c)
  <2>1. pc[c] = "publish" /\ sinks[at[c]] = "ledger" /\ EventOf[c] \notin Billable
        /\ UNCHANGED <<sinks, stream, billing_events>>
    BY <1>4 DEF IncrUsageDaily, AtSink
  <2>2. PICK err \in BOOLEAN : Return(c, err)
    BY <1>4 DEF IncrUsageDaily
  <2> QED
    BY <2>1, <2>2, ReturnInv
<1>5. CASE Begin(c)
  <2>1. pc[c] = "publish" /\ sinks[at[c]] = "ledger" /\ EventOf[c] \in Billable
        /\ UNCHANGED <<sinks, stream, tables>>
    BY <1>5 DEF Begin, AtSink
  <2>2. CASE Return(c, TRUE)
    BY <2>1, <2>2, ReturnInv DEF tables
  <2>3. CASE Goto(c, "publish", "insert") /\ UNCHANGED <<at, firstErr, inserted, errors>>
    BY <2>1, <2>3, MoveInv
  <2> QED
    BY <1>5, <2>2, <2>3 DEF Begin
<1>6. CASE Insert(c)
  BY <1>6, InsertInv
<1>7. CASE Upsert(c)
  BY <1>7, MoveInv DEF Upsert
<1>8. CASE Commit(c)
  <2>1. pc[c] = "commit" /\ UNCHANGED <<sinks, stream>>
    BY <1>8 DEF Commit
  <2>2. PICK err \in BOOLEAN : Return(c, err)
    BY <1>8 DEF Commit
  <2>3. billing_events' = IF inserted[c] THEN billing_events \union {EventOf[c]} ELSE billing_events
    BY <1>8 DEF Commit, tables
  <2>4. EventOf[c] \in billing_events'
    BY <1>1, <2>1, <2>3 DEF LedgerInv
  <2>5. inserted[c] => HoldsEvent(c, EventOf[c])
    BY <2>1 DEF HoldsEvent
  <2>6. sinks[at[c]] = "ledger" /\ pc[c] \in InTx
    BY <1>1, <2>1 DEF LedgerInv, InTx
  <2> QED
    BY <2>1, <2>2, <2>3, <2>4, <2>5, <2>6, ReturnInv
<1>9. CASE Rollback(c)
  BY <1>9, ReturnInv DEF Rollback, InTx, tables
<1> QED
  BY <1>2, <1>3, <1>4, <1>5, <1>6, <1>7, <1>8, <1>9 DEF Publish, RecordBillableSuccess

LEMMA BillingStep == BillingInv /\ [Next]_vars => BillingInv'
<1> SUFFICES ASSUME BillingInv, [Next]_vars PROVE BillingInv'
  OBVIOUS
<1>1. CASE Exit
  BY <1>1, ExitInv
<1>2. ASSUME NEW c \in Calls, Spawn(c) PROVE BillingInv'
  BY <1>2, MoveInv DEF Spawn
<1>3. ASSUME NEW c \in Calls, Publish(c) PROVE BillingInv'
  BY <1>3, PublishInv
<1>4. CASE UNCHANGED vars
  <2> SUFFICES Typed' /\ LedgerInv' /\ SinksInv'
    BY DEF BillingInv
  <2>1. UNCHANGED <<sinks, pc, at, firstErr, inserted, stream, billing_events, errors>>
    BY <1>4 DEF vars, tables
  <2>2. Typed'
    BY <2>1 DEF BillingInv, Typed
  <2>3. LedgerInv'
    BY <2>1 DEF BillingInv, LedgerInv, HoldsEvent
  <2> QED
    BY <1>4, <2>2, <2>3, BetweenReturns DEF vars
<1> QED
  BY <1>1, <1>2, <1>3, <1>4 DEF Next

LEMMA BillingInvariant == Spec => []BillingInv
<1> QED
  BY BillingInit, BillingStep, PTL DEF Spec

(***************************************************************************)
(* When Publish has returned, each sink has the event or has returned an   *)
(* error, and Publish returned an error if any of them did: MultiPublisher *)
(* goes on after a failing sink, whatever the sinks and however answers    *)
(* are lost.                                                               *)
(***************************************************************************)
THEOREM FailuresAreReported == Spec => []NothingLostSilently
<1>1. BillingInv => NothingLostSilently
  BY DEF BillingInv, SinksInv, NothingLostSilently
<1> QED
  BY <1>1, BillingInvariant, PTL

----------------------------------------------------------------------------
(* The ledger implements Charges. *)

\* A transaction that commits an inserted row is a charge; others change nothing.
LEMMA CommitCharges ==
  ASSUME BillingInv, NEW c \in Calls, Commit(c)
  PROVE  [Ledger!Next]_(Ledger!vars)
<1>1. EventOf[c] \in Events
  BY BillingAssumption
<1>2. CASE inserted[c]
  <2>1. HoldsEvent(c, EventOf[c]) /\ pc[c] \in InTx
    BY <1>2 DEF Commit, HoldsEvent, InTx
  <2>2. EventOf[c] \in Billable \ billing_events
    BY <2>1 DEF BillingInv, LedgerInv
  <2>3. /\ billing_events' = billing_events \union {EventOf[c]}
        /\ AddUsage(c, Units[EventOf[c]])
    BY <1>2 DEF Commit
  <2>4. Ledger!Charge(EventOf[c])
    BY <2>2, <2>3 DEF Ledger!Charge, Ledger!AddUsage, AddUsage, Account
  <2> QED
    BY <1>1, <2>4 DEF Ledger!Next
<1>3. CASE ~inserted[c]
  BY <1>3 DEF Commit, tables, Ledger!vars
<1> QED
  BY <1>2, <1>3

\* The statement for a free token's event is one step of the ledger.
LEMMA FreeUsage ==
  ASSUME NEW c \in Calls, IncrUsageDaily(c)
  PROVE  [Ledger!Next]_(Ledger!vars)
<1>1. EventOf[c] \in Events \ Billable /\ UNCHANGED billing_events
  BY BillingAssumption DEF IncrUsageDaily
<1>2. CASE AddUsage(c, 0)
  <2>1. Ledger!UseFree(EventOf[c])
    BY <1>1, <1>2 DEF Ledger!UseFree, Ledger!AddUsage, AddUsage, Account
  <2> QED
    BY <1>1, <2>1 DEF Ledger!Next
<1>3. CASE UNCHANGED usage_daily
  BY <1>1, <1>3 DEF Ledger!vars
<1> QED
  BY <1>2, <1>3 DEF IncrUsageDaily

LEMMA LedgerStep == BillingInv /\ [Next]_vars => [Ledger!Next]_(Ledger!vars)
<1> SUFFICES ASSUME BillingInv, [Next]_vars PROVE [Ledger!Next]_(Ledger!vars)
  OBVIOUS
<1>1. CASE UNCHANGED tables
  BY <1>1 DEF tables, Ledger!vars
<1>2. ASSUME NEW c \in Calls, Publish(c) PROVE [Ledger!Next]_(Ledger!vars)
  <2>1. CASE Commit(c)
    BY <2>1, CommitCharges
  <2>2. CASE IncrUsageDaily(c)
    BY <2>2, FreeUsage
  <2>3. CASE LogPublish(c) \/ StreamPublish(c) \/ Begin(c) \/ Insert(c) \/ Upsert(c) \/ Rollback(c)
    BY <1>1, <2>3 DEF LogPublish, StreamPublish, Begin, Insert, Upsert, Rollback
  <2> QED
    BY <1>2, <2>1, <2>2, <2>3 DEF Publish, RecordBillableSuccess
<1>3. (Exit \/ UNCHANGED vars \/ \E c \in Calls : Spawn(c)) => UNCHANGED tables
  BY DEF Exit, Spawn, vars
<1> QED
  BY <1>1, <1>2, <1>3 DEF Next

(***************************************************************************)
(* An event is charged once however often it is delivered, and its row and *)
(* the day's usage appear in one step (RecordBillableSuccess), for any     *)
(* number of concurrent deliveries, failures and crashes.                  *)
(***************************************************************************)
THEOREM ChargedOnce == Spec => ChargesSpec
<1>1. Init => Ledger!Init
  BY DEF Init, Ledger!Init
<1> QED
  BY <1>1, BillingInvariant, LedgerStep, PTL DEF Spec, ChargesSpec, Ledger!Spec

----------------------------------------------------------------------------
(* The usage of the ledger can be recomputed from its events. *)

UsageInv ==
  /\ usage_daily \in [Accounts -> [success : Nat, billable : Nat]]
  /\ \A a \in Accounts : IsFiniteSet(ChargedCalls(a))
  /\ UsageMatchesEvents

LEMMA UsageInit == Init => UsageInv
<1> SUFFICES ASSUME Init, NEW a \in Accounts
             PROVE  /\ usage_daily \in [Accounts -> [success : Nat, billable : Nat]]
                    /\ IsFiniteSet(ChargedCalls(a))
                    /\ usage_daily[a].billable = Charged(a)
                    /\ usage_daily[a].success >= Charged(a)
  BY DEF UsageInv, UsageMatchesEvents, Init
<1>1. usage_daily = [b \in Accounts |-> [success |-> 0, billable |-> 0]]
  BY DEF Init
<1>2. ChargedCalls(a) = {}
  BY DEF Init, ChargedCalls
<1>3. IsFiniteSet(ChargedCalls(a)) /\ Charged(a) = 0
  BY <1>2, FS_EmptySet DEF Charged
<1> QED
  BY <1>1, <1>3

\* The usage row of the event's account grows by the event's calls, no other does.
LEMMA UsageAdded ==
  ASSUME UsageInv, NEW e \in Events, NEW n \in Nat, Ledger!AddUsage(e, n)
  PROVE  /\ usage_daily' \in [Accounts -> [success : Nat, billable : Nat]]
         /\ usage_daily'[AccountOf[e]].success = usage_daily[AccountOf[e]].success + Units[e]
         /\ usage_daily'[AccountOf[e]].billable = usage_daily[AccountOf[e]].billable + n
         /\ \A a \in Accounts \ {AccountOf[e]} : usage_daily'[a] = usage_daily[a]
<1>1. AccountOf[e] \in Accounts /\ Units[e] \in Nat
  BY BillingAssumption
<1>2. usage_daily \in [Accounts -> [success : Nat, billable : Nat]]
  BY DEF UsageInv
<1>3. PICK row : row = [success |-> usage_daily[AccountOf[e]].success + Units[e],
                        billable |-> usage_daily[AccountOf[e]].billable + n]
  OBVIOUS
<1>4. row \in [success : Nat, billable : Nat]
  BY <1>1, <1>2, <1>3
<1>5. usage_daily' = [usage_daily EXCEPT ![AccountOf[e]] = row]
  BY <1>3 DEF Ledger!AddUsage
<1> QED
  BY <1>1, <1>2, <1>3, <1>4, <1>5

\* A charge adds the calls of one event, which were not there, to one account.
LEMMA ChargeCounts ==
  ASSUME UsageInv, NEW e \in Events, Ledger!Charge(e)
  PROVE  UsageInv'
<1> DEFINE new == {e} \X (1 .. Units[e])
<1>1. /\ e \notin billing_events /\ billing_events' = billing_events \union {e}
      /\ Ledger!AddUsage(e, Units[e])
  BY DEF Ledger!Charge
<1>2. PICK n \in Nat : n = Units[e]
  BY BillingAssumption
<1>3. IsFiniteSet(new) /\ Cardinality(new) = n
  <2>1. IsFiniteSet(1 .. n) /\ Cardinality(1 .. n) = IF 1 > n THEN 0 ELSE n - 1 + 1
    BY 1 \in Int, n \in Int, FS_Interval
  <2>2. IsFiniteSet({e}) /\ Cardinality({e}) = 1
    BY FS_Singleton
  <2>3. IsFiniteSet(new) /\ Cardinality(new) = 1 * Cardinality(1 .. n)
    BY <1>2, <2>1, <2>2, FS_Product
  <2> QED
    BY <2>1, <2>3
<1>4. /\ usage_daily' \in [Accounts -> [success : Nat, billable : Nat]]
      /\ usage_daily'[AccountOf[e]].success = usage_daily[AccountOf[e]].success + n
      /\ usage_daily'[AccountOf[e]].billable = usage_daily[AccountOf[e]].billable + n
      /\ \A a \in Accounts \ {AccountOf[e]} : usage_daily'[a] = usage_daily[a]
  BY <1>1, <1>2, UsageAdded
<1>5. ASSUME NEW a \in Accounts
      PROVE  /\ IsFiniteSet(ChargedCalls(a)')
             /\ usage_daily'[a].billable = Cardinality(ChargedCalls(a)')
             /\ usage_daily'[a].success >= Cardinality(ChargedCalls(a)')
  <2>1. /\ IsFiniteSet(ChargedCalls(a)) /\ usage_daily[a].billable = Cardinality(ChargedCalls(a))
        /\ usage_daily[a].success >= Cardinality(ChargedCalls(a))
    BY DEF UsageInv, UsageMatchesEvents, Charged
  <2>2. Cardinality(ChargedCalls(a)) \in Nat /\ usage_daily[a].success \in Nat
    BY <2>1, FS_CardinalityType DEF UsageInv
  <2>3. CASE a # AccountOf[e]
    <3>1. ChargedCalls(a)' = ChargedCalls(a)
      BY <1>1, <2>3 DEF ChargedCalls
    <3> QED
      BY <1>4, <2>1, <2>3, <3>1
  <2>4. CASE a = AccountOf[e]
    <3>1. ChargedCalls(a)' = ChargedCalls(a) \union new
      BY <1>1, <2>4 DEF ChargedCalls
    <3>2. ChargedCalls(a) \cap new = {}
      BY <1>1 DEF ChargedCalls
    <3> HIDE DEF new
    <3>3. /\ IsFiniteSet(ChargedCalls(a) \union new)
          /\ Cardinality(ChargedCalls(a) \union new)
               = Cardinality(ChargedCalls(a)) + Cardinality(new) - Cardinality(ChargedCalls(a) \cap new)
      BY <1>3, <2>1, FS_Union
    <3>4. Cardinality(ChargedCalls(a) \cap new) = 0
      BY <3>2, FS_EmptySet
    <3> QED
      BY <1>3, <1>4, <2>1, <2>2, <2>4, <3>1, <3>3, <3>4
  <2> QED
    BY <2>3, <2>4
<1> QED
  BY <1>4, <1>5 DEF UsageInv, UsageMatchesEvents, Charged

LEMMA FreeUsageCounts ==
  ASSUME UsageInv, NEW e \in Events, Ledger!UseFree(e)
  PROVE  UsageInv'
<1>1. Ledger!AddUsage(e, 0) /\ UNCHANGED billing_events
  BY DEF Ledger!UseFree
<1>2. Units[e] \in Nat
  BY BillingAssumption
<1>3. /\ usage_daily' \in [Accounts -> [success : Nat, billable : Nat]]
      /\ usage_daily'[AccountOf[e]].success = usage_daily[AccountOf[e]].success + Units[e]
      /\ usage_daily'[AccountOf[e]].billable = usage_daily[AccountOf[e]].billable + 0
      /\ \A a \in Accounts \ {AccountOf[e]} : usage_daily'[a] = usage_daily[a]
  BY <1>1, UsageAdded
<1>4. ASSUME NEW a \in Accounts
      PROVE  /\ IsFiniteSet(ChargedCalls(a)')
             /\ usage_daily'[a].billable = Cardinality(ChargedCalls(a)')
             /\ usage_daily'[a].success >= Cardinality(ChargedCalls(a)')
  <2>1. /\ IsFiniteSet(ChargedCalls(a)) /\ usage_daily[a].billable = Cardinality(ChargedCalls(a))
        /\ usage_daily[a].success >= Cardinality(ChargedCalls(a))
    BY DEF UsageInv, UsageMatchesEvents, Charged
  <2>2. Cardinality(ChargedCalls(a)) \in Nat /\ usage_daily[a].success \in Nat
        /\ usage_daily[a].billable \in Nat
    BY <2>1, FS_CardinalityType DEF UsageInv
  <2>3. ChargedCalls(a)' = ChargedCalls(a)
    BY <1>1 DEF ChargedCalls
  <2> QED
    BY <1>2, <1>3, <2>1, <2>2, <2>3
<1> QED
  BY <1>3, <1>4 DEF UsageInv, UsageMatchesEvents, Charged

(***************************************************************************)
(* usage_daily can be recomputed from billing_events at every moment and   *)
(* after every crash (RecordBillableSuccess, IncrUsageDaily), for any      *)
(* number of concurrent deliveries and any units: every step of the ledger *)
(* is one of Charges, and those keep the two tables together.              *)
(***************************************************************************)
THEOREM UsageFollowsEvents == Spec => []UsageMatchesEvents
<1>1. UsageInv /\ [Ledger!Next]_(Ledger!vars) => UsageInv'
  <2> SUFFICES ASSUME UsageInv, [Ledger!Next]_(Ledger!vars) PROVE UsageInv'
    OBVIOUS
  <2>1. CASE UNCHANGED Ledger!vars
    BY <2>1 DEF Ledger!vars, UsageInv, UsageMatchesEvents, Charged, ChargedCalls
  <2>2. CASE Ledger!Next
    BY <2>2, ChargeCounts, FreeUsageCounts DEF Ledger!Next
  <2> QED
    BY <2>1, <2>2
<1>2. BillingInv /\ UsageInv /\ [Next]_vars => UsageInv'
  BY <1>1, LedgerStep
<1>3. UsageInv => UsageMatchesEvents
  BY DEF UsageInv
<1> QED
  BY <1>2, <1>3, UsageInit, BillingInvariant, PTL DEF Spec

----------------------------------------------------------------------------
(* Sums, counted *)

Tally(f) == UNION {{x} \X (1 .. f[x]) : x \in DOMAIN f}

\* The units of one argument.
LEMMA TallyOfOne ==
  ASSUME NEW x, NEW n \in Nat
  PROVE  IsFiniteSet({x} \X (1 .. n)) /\ Cardinality({x} \X (1 .. n)) = n
<1>1. IsFiniteSet(1 .. n) /\ Cardinality(1 .. n) = n
  BY FS_Interval, 1 \in Int
<1>2. IsFiniteSet({x}) /\ Cardinality({x}) = 1
  BY FS_Singleton
<1>3. IsFiniteSet({x} \X (1 .. n)) /\ Cardinality({x} \X (1 .. n)) = Cardinality({x}) * Cardinality(1 .. n)
  BY ONLY <1>1, <1>2, FS_Product
<1> QED
  BY <1>1, <1>2, <1>3

\* A sum over a finite set is a natural number.
LEMMA TotalType ==
  ASSUME NEW D, IsFiniteSet(D), NEW f \in [D -> Nat]
  PROVE  IsFiniteSet(Tally(f)) /\ Total(f) \in Nat /\ Total(f) = Cardinality(Tally(f))
<1> DEFINE parts == {{x} \X (1 .. f[x]) : x \in D}
           g == [x \in D |-> {x} \X (1 .. f[x])]
<1>1. g \in Surjection(D, parts)
  BY DEF Surjection
<1>2. IsFiniteSet(parts)
  <2> HIDE DEF g, parts
  <2> QED
    BY <1>1, FS_Surjection
<1>3. ASSUME NEW T \in parts PROVE IsFiniteSet(T)
  <2>1. PICK x \in D : T = {x} \X (1 .. f[x])
    OBVIOUS
  <2>2. f[x] \in Nat
    OBVIOUS
  <2> QED
    BY ONLY <2>1, <2>2, TallyOfOne
<1>4. IsFiniteSet(UNION parts)
  <2> HIDE DEF parts
  <2> QED
    BY <1>2, <1>3, FS_UNION
<1>5. Tally(f) = UNION parts
  BY DEF Tally
<1> QED
  BY <1>4, <1>5, FS_CardinalityType DEF Total, Tally

\* One argument more or less.
LEMMA TotalSplit ==
  ASSUME NEW D, IsFiniteSet(D), NEW f \in [D -> Nat], NEW x \in D
  PROVE  Total(f) = Total([y \in D \ {x} |-> f[y]]) + f[x]
<1> DEFINE h == [y \in D \ {x} |-> f[y]]
           one == {x} \X (1 .. f[x])
<1>1. IsFiniteSet(D \ {x})
  BY FS_RemoveElement
<1>2. h \in [D \ {x} -> Nat]
  OBVIOUS
<1>3. IsFiniteSet(Tally(h)) /\ Total(h) = Cardinality(Tally(h)) /\ Total(h) \in Nat
  <2> HIDE DEF h
  <2> QED
    BY <1>1, <1>2, TotalType
<1>4. IsFiniteSet(one) /\ Cardinality(one) = f[x] /\ f[x] \in Nat
  BY TallyOfOne
<1>5. Tally(f) = Tally(h) \union one
  BY DEF Tally
<1>6. Tally(h) \intersect one = {}
  <2>1. \A u \in Tally(h) : u[1] # x
    BY DEF Tally
  <2>2. \A u \in one : u[1] = x
    OBVIOUS
  <2> QED
    BY <2>1, <2>2
<1>7. Cardinality(Tally(f)) = Cardinality(Tally(h)) + Cardinality(one) - Cardinality({})
  <2> HIDE DEF h, one
  <2> QED
    BY <1>3, <1>4, <1>5, <1>6, FS_Union
<1> QED
  BY <1>3, <1>4, <1>7, TotalType, FS_EmptySet

\* A value of one argument changed.
LEMMA TotalChange ==
  ASSUME NEW D, IsFiniteSet(D), NEW f \in [D -> Nat], NEW g \in [D -> Nat], NEW x \in D,
         \A y \in D \ {x} : f[y] = g[y]
  PROVE  Total(f) - f[x] = Total(g) - g[x]
<1>1. [y \in D \ {x} |-> f[y]] = [y \in D \ {x} |-> g[y]]
  OBVIOUS
<1>2. Total(f) = Total([y \in D \ {x} |-> f[y]]) + f[x]
  BY TotalSplit
<1>3. Total(g) = Total([y \in D \ {x} |-> g[y]]) + g[x]
  BY TotalSplit
<1>4. [y \in D \ {x} |-> f[y]] \in [D \ {x} -> Nat] /\ IsFiniteSet(D \ {x})
  BY FS_RemoveElement
<1>5. Total([y \in D \ {x} |-> f[y]]) \in Nat
  BY <1>4, TotalType
<1> QED
  BY <1>1, <1>2, <1>3, <1>5

\* Nothing sums up to nothing.
LEMMA TotalOfNothing == ASSUME NEW f, \A x \in DOMAIN f : f[x] = 0 PROVE Total(f) = 0
<1>1. Tally(f) = {}
  BY DEF Tally
<1> QED
  BY <1>1, FS_EmptySet DEF Total, Tally

\* A sum of one value.
LEMMA TotalOfOne ==
  ASSUME NEW x, NEW f, DOMAIN f = {x}, f[x] \in Nat
  PROVE  Total(f) = f[x]
<1>1. Tally(f) = {x} \X (1 .. f[x])
  BY DEF Tally
<1> QED
  BY <1>1, TallyOfOne DEF Total, Tally

\* Sums grow with their values.
LEMMA TotalGrows ==
  ASSUME NEW D, IsFiniteSet(D), NEW f \in [D -> Nat], NEW g \in [D -> Nat],
         \A x \in D : f[x] <= g[x]
  PROVE  Total(f) <= Total(g)
<1>1. Tally(f) \subseteq Tally(g)
  BY DEF Tally
<1> QED
  BY <1>1, TotalType, FS_Subset

----------------------------------------------------------------------------
(* The shape of an operation *)

CallCounters == {"SuccessCalls", "BillableCalls", "FreeCalls"}

\* The adds to one counter at some of the places, and what they add.
Match(S, places, c) == {s \in S : s.op = "add" /\ s.at \in places /\ s.counter = c}
Owes(S, places, c, n) == \E s \in Match(S, places, c) : s.n = n

\* A counter is added to once globally, once for the token, once for the chain,
Once(S) ==
  \A s, u \in S :
    s.op = "add" /\ u.op = "add" /\ s.counter = u.counter /\ Len(s.at) = Len(u.at) => s = u

\* the same everywhere and first globally.
Ordered(S) ==
  \A s, u \in S :
    s.op = "add" /\ u.op = "add" /\ s.counter = u.counter /\ s.at = Global /\ u.at \in TokenPlaces
      => s.line < u.line /\ s.n = u.n

Fronted(S) == \A c, n : Owes(S, TokenPlaces, c, n) => Owes(S, {Global}, c, n)

\* Whose calls and requests are counted at one level are counted at the others.
CallsEven(S) ==
  /\ \A c \in CallCounters, n \in Nat :
       /\ Owes(S, {Global}, c, n) <=> Owes(S, TokenPlaces, c, n)
       /\ \A t \in Tokens : Owes(S, {Of(t)}, c, n) <=> Owes(S, ChainPlaces(t), c, n)
  /\ \A p \in Places, n, m \in Nat :
       /\ Owes(S, {p}, "SuccessCalls", n)
            <=> Owes(S, {p}, "BillableCalls", n) \/ Owes(S, {p}, "FreeCalls", n)
       /\ ~(Owes(S, {p}, "BillableCalls", n) /\ Owes(S, {p}, "FreeCalls", m))

RequestsEven(S) ==
  \A n, m \in Nat :
    /\ Owes(S, {Global}, "Requests", n)
         <=> Owes(S, TokenPlaces, "Requests", n) \/ Owes(S, {Global}, "AuthFailed", n)
    /\ ~(Owes(S, TokenPlaces, "Requests", n) /\ Owes(S, {Global}, "AuthFailed", m))

Formed(S) ==
  \A s \in S :
    /\ s \in Steps /\ s.op \in {"add", "ensure"}
    /\ s.op = "add" => s.counter \in Counters
    /\ s.op = "ensure" => s.at \in TokenPlaces

Shaped(S) ==
  Formed(S) /\ Once(S) /\ Ordered(S) /\ Fronted(S) /\ CallsEven(S) /\ RequestsEven(S)

\* The fields of a step.
LEMMA StepFields ==
  \A l, o, p, c, n :
    /\ Step(l, o, p, c, n).line = l /\ Step(l, o, p, c, n).op = o /\ Step(l, o, p, c, n).at = p
    /\ Step(l, o, p, c, n).counter = c /\ Step(l, o, p, c, n).n = n
BY DEF Step

LEMMA StepType ==
  ASSUME NEW l \in Nat, NEW o \in {"add", "ensure", "refresh", "create", "rlock", "read", "runlock"},
         NEW p \in Places, NEW c \in Counters \union {"-"}, NEW n \in Nat
  PROVE  Step(l, o, p, c, n) \in Steps
BY DEF Step, Steps

\* Places are told apart by their tokens and chains.
LEMMA PlaceFacts ==
  /\ Len(Global) = 0 /\ Global \in Places
  /\ \A t : Len(Of(t)) = 1 /\ Head(Of(t)) = t
  /\ \A t, ch : Len(On(t, ch)) = 2
  /\ \A t, u : Of(t) = Of(u) => t = u
  /\ \A t, ch, u, dh : On(t, ch) = On(u, dh) => t = u /\ ch = dh
BY DEF Global, Of, On, Places

LEMMA PlaceSets ==
  /\ TokenPlaces \subseteq Places /\ \A t \in Tokens : ChainPlaces(t) \subseteq Places
  /\ \A p : p \in TokenPlaces <=> \E t \in Tokens : p = Of(t)
  /\ \A p, t : p \in ChainPlaces(t) <=> \E ch \in Chains : p = On(t, ch)
BY DEF Places, TokenPlaces, ChainPlaces

\* Operations put together from parts that count different things.
LEMMA ShapedUnion ==
  ASSUME NEW S, NEW T, Shaped(S), Shaped(T),
         \A s \in S, u \in T : s.op = "add" /\ u.op = "add" => s.counter # u.counter
  PROVE  Shaped(S \union T)
<1>1. Formed(S \union T)
  BY DEF Shaped, Formed
<1>2. Once(S \union T)
  BY DEF Shaped, Once
<1>3. Ordered(S \union T)
  BY DEF Shaped, Ordered
<1>4. \A places, c, n : Owes(S \union T, places, c, n) <=> Owes(S, places, c, n) \/ Owes(T, places, c, n)
  BY DEF Owes, Match
<1>5. \A c, places, other, m, n : ~(Owes(S, places, c, n) /\ Owes(T, other, c, m))
  BY DEF Owes, Match
<1>6. Fronted(S \union T)
  BY <1>4 DEF Shaped, Fronted
<1>7. CallsEven(S \union T)
  <2>1. CallsEven(S) /\ CallsEven(T)
    BY DEF Shaped
  <2> QED
    BY <1>4, <1>5, <2>1 DEF CallsEven
<1>8. RequestsEven(S \union T)
  <2>1. RequestsEven(S) /\ RequestsEven(T)
    BY DEF Shaped
  <2> QED
    BY <1>4, <1>5, <2>1 DEF RequestsEven
<1> QED
  BY <1>1, <1>2, <1>3, <1>6, <1>7, <1>8 DEF Shaped

\* A part that adds nothing.
LEMMA ShapedEmpty ==
  ASSUME NEW S, Formed(S), \A s \in S : s.op # "add"
  PROVE  Shaped(S)
<1>1. \A places, c, n : ~Owes(S, places, c, n)
  BY DEF Owes, Match
<1> QED
  BY <1>1 DEF Shaped, Once, Ordered, Fronted, CallsEven, RequestsEven

\* One count at the three levels, on these lines.
Spread(l1, l2, l3, t, ch, c, n) ==
  {Step(l1, "add", Global, c, n), Step(l2, "add", Of(t), c, n), Step(l3, "add", On(t, ch), c, n)}

Among(t, ch, places) == Global \in places \/ Of(t) \in places \/ On(t, ch) \in places

\* Where the three places are found.
LEMMA AmongFacts ==
  ASSUME NEW t \in Tokens, NEW ch \in Chains
  PROVE  /\ Among(t, ch, {Global}) /\ Among(t, ch, TokenPlaces)
         /\ \A u : Among(t, ch, {Of(u)}) <=> u = t
         /\ \A u : Among(t, ch, ChainPlaces(u)) <=> u = t
<1>1. /\ Global \notin TokenPlaces /\ Of(t) \in TokenPlaces
      /\ \A u : Global # Of(u) /\ On(t, ch) # Of(u)
      /\ \A u : Global \notin ChainPlaces(u) /\ Of(t) \notin ChainPlaces(u)
  <2>1. \A u, v, dh : Of(u) # On(v, dh) /\ Global # Of(u) /\ Global # On(v, dh)
    BY PlaceFacts
  <2> QED
    BY <2>1, PlaceSets
<1>2. \A u : On(t, ch) \in ChainPlaces(u) <=> u = t
  BY PlaceFacts, PlaceSets
<1>3. \A u : Of(t) = Of(u) => t = u
  BY PlaceFacts
<1> QED
  BY <1>1, <1>2, <1>3 DEF Among

LEMMA OwesSpread ==
  ASSUME NEW l1, NEW l2, NEW l3, NEW t, NEW ch, NEW c, NEW n
  PROVE  \A places, d, m :
           Owes(Spread(l1, l2, l3, t, ch, c, n), places, d, m)
             <=> d = c /\ m = n /\ Among(t, ch, places)
<1> DEFINE S == Spread(l1, l2, l3, t, ch, c, n)
<1>1. \A s \in S : s.op = "add" /\ s.counter = c /\ s.n = n /\ s.at \in {Global, Of(t), On(t, ch)}
  BY StepFields DEF Spread
<1>2. \A p \in {Global, Of(t), On(t, ch)} :
        \E s \in S : s.op = "add" /\ s.counter = c /\ s.n = n /\ s.at = p
  BY StepFields DEF Spread
<1> HIDE DEF S
<1>3. \A places, d, m : Owes(S, places, d, m) <=> d = c /\ m = n /\ Among(t, ch, places)
  BY <1>1, <1>2 DEF Owes, Match, Among
<1> QED
  BY <1>3 DEF S

\* What every such part is like.
LEMMA SpreadOrder ==
  ASSUME NEW l1 \in Nat, NEW l2 \in Nat, NEW l3 \in Nat, l1 < l2,
         NEW t \in Tokens, NEW ch \in Chains, NEW c \in Counters, NEW n \in Nat
  PROVE  LET S == Spread(l1, l2, l3, t, ch, c, n) IN
         Formed(S) /\ Once(S) /\ Ordered(S) /\ \A s \in S : s.op = "add" /\ s.counter = c
<1> DEFINE S == Spread(l1, l2, l3, t, ch, c, n)
           a == Step(l1, "add", Global, c, n)
           b == Step(l2, "add", Of(t), c, n)
           d == Step(l3, "add", On(t, ch), c, n)
<1>1. S = {a, b, d}
  BY DEF Spread
<1>2. /\ a.op = "add" /\ b.op = "add" /\ d.op = "add"
      /\ a.counter = c /\ b.counter = c /\ d.counter = c
      /\ a.at = Global /\ b.at = Of(t) /\ d.at = On(t, ch)
      /\ a.line = l1 /\ b.line = l2 /\ a.n = n /\ b.n = n
  BY StepFields
<1>3. Global \in Places /\ Of(t) \in Places /\ On(t, ch) \in Places
  BY PlaceSets, PlaceFacts
<1>4. a \in Steps /\ b \in Steps /\ d \in Steps
  BY <1>3, StepType
<1>5. Len(a.at) = 0 /\ Len(b.at) = 1 /\ Len(d.at) = 2
  BY <1>2, PlaceFacts
<1>6. Global \notin TokenPlaces /\ On(t, ch) \notin TokenPlaces
  <2>1. \A u : Global # Of(u) /\ On(t, ch) # Of(u)
    BY PlaceFacts
  <2> QED
    BY <2>1, PlaceSets
<1> HIDE DEF a, b, d, S
<1>10. /\ Len(a.at) # Len(b.at) /\ Len(a.at) # Len(d.at) /\ Len(b.at) # Len(d.at)
       /\ b.at # Global /\ d.at # Global
  <2>1. Len(a.at) # Len(b.at) /\ Len(a.at) # Len(d.at) /\ Len(b.at) # Len(d.at)
    BY ONLY <1>5
  <2> QED
    BY ONLY <1>2, <2>1
<1>7. Formed(S) /\ \A s \in S : s.op = "add" /\ s.counter = c
  BY <1>1, <1>2, <1>4 DEF Formed
<1>8. Once(S)
  BY ONLY <1>1, <1>10, Zenon DEF Once
<1>9. Ordered(S)
  BY <1>1, <1>2, <1>6, <1>10 DEF Ordered
<1> QED
  BY <1>7, <1>8, <1>9 DEF S

\* A counter that is on its own.
LEMMA ShapedSpread ==
  ASSUME NEW l1 \in Nat, NEW l2 \in Nat, NEW l3 \in Nat, l1 < l2,
         NEW t \in Tokens, NEW ch \in Chains, NEW n \in Nat,
         NEW c \in Counters, c \notin CallCounters \union {"AuthFailed"}
  PROVE  Shaped(Spread(l1, l2, l3, t, ch, c, n))
<1> DEFINE S == Spread(l1, l2, l3, t, ch, c, n)
<1>1. \A places, d, m : Owes(S, places, d, m) <=> d = c /\ m = n /\ Among(t, ch, places)
  BY OwesSpread
<1>2. Formed(S) /\ Once(S) /\ Ordered(S)
  BY SpreadOrder
<1> HIDE DEF S
<1>3. Fronted(S)
  BY <1>1, AmongFacts DEF Fronted
<1>4. CallsEven(S)
  BY <1>1 DEF CallsEven, CallCounters
<1>5. RequestsEven(S)
  BY <1>1, AmongFacts DEF RequestsEven
<1> QED
  BY <1>2, <1>3, <1>4, <1>5 DEF Shaped, S

\* Successful calls, and whether they are billed.
LEMMA ShapedCalls ==
  ASSUME NEW l1 \in Nat, NEW l2 \in Nat, NEW l3 \in Nat, l1 < l2,
         NEW k1 \in Nat, NEW k2 \in Nat, NEW k3 \in Nat, k1 < k2,
         NEW t \in Tokens, NEW ch \in Chains, NEW n \in Nat,
         NEW c \in {"BillableCalls", "FreeCalls"}
  PROVE  Shaped(Spread(l1, l2, l3, t, ch, "SuccessCalls", n) \union Spread(k1, k2, k3, t, ch, c, n))
<1> DEFINE A == Spread(l1, l2, l3, t, ch, "SuccessCalls", n)
           B == Spread(k1, k2, k3, t, ch, c, n)
           S == A \union B
<1>1. /\ Formed(A) /\ Once(A) /\ Ordered(A) /\ \A s \in A : s.op = "add" /\ s.counter = "SuccessCalls"
      /\ Formed(B) /\ Once(B) /\ Ordered(B) /\ \A s \in B : s.op = "add" /\ s.counter = c
  <2>1. "SuccessCalls" \in Counters /\ c \in Counters
    BY DEF Counters
  <2> QED
    BY <2>1, SpreadOrder
<1>2. \A places, d, m : Owes(S, places, d, m)
        <=> d \in {"SuccessCalls", c} /\ m = n /\ Among(t, ch, places)
  <2>1. /\ \A places, d, m : Owes(A, places, d, m) <=> d = "SuccessCalls" /\ m = n /\ Among(t, ch, places)
        /\ \A places, d, m : Owes(B, places, d, m) <=> d = c /\ m = n /\ Among(t, ch, places)
    BY OwesSpread
  <2> HIDE DEF A, B
  <2>2. \A places, d, m : Owes(S, places, d, m) <=> Owes(A, places, d, m) \/ Owes(B, places, d, m)
    BY DEF Owes, Match
  <2> HIDE DEF S
  <2> QED
    BY <2>1, <2>2
<1> HIDE DEF A, B
<1>3. Formed(S) /\ Once(S) /\ Ordered(S)
  BY <1>1 DEF Formed, Once, Ordered
<1> HIDE DEF S
<1>4. Fronted(S)
  BY <1>2, AmongFacts DEF Fronted
<1>5. CallsEven(S)
  BY <1>2, AmongFacts DEF CallsEven, CallCounters
<1>6. RequestsEven(S)
  BY <1>2 DEF RequestsEven
<1> QED
  BY <1>3, <1>4, <1>5, <1>6 DEF Shaped, S, A, B

\* A count that is kept globally and for the token only.
LEMMA ShapedPair ==
  ASSUME NEW l1 \in Nat, NEW l2 \in Nat, l1 < l2, NEW t \in Tokens,
         NEW c \in Counters, c \notin CallCounters \union {"AuthFailed"}
  PROVE  Shaped({Step(l1, "add", Global, c, 1), Step(l2, "add", Of(t), c, 1)})
<1> DEFINE a == Step(l1, "add", Global, c, 1)
           b == Step(l2, "add", Of(t), c, 1)
           S == {a, b}
<1>1. /\ a.op = "add" /\ b.op = "add" /\ a.counter = c /\ b.counter = c
      /\ a.at = Global /\ b.at = Of(t) /\ a.line = l1 /\ b.line = l2 /\ a.n = 1 /\ b.n = 1
  BY StepFields
<1>2. Global \in Places /\ Of(t) \in Places /\ Of(t) \in TokenPlaces /\ Global \notin TokenPlaces
      /\ Of(t) # Global
  BY PlaceSets, PlaceFacts
<1>3. a \in Steps /\ b \in Steps
  BY <1>2, StepType
<1>4. Len(a.at) # Len(b.at)
  BY <1>1, PlaceFacts
<1> HIDE DEF a, b
<1>5. Formed(S)
  BY <1>1, <1>3 DEF Formed
<1>6. Once(S)
  BY ONLY <1>4, Zenon DEF Once
<1>7. Ordered(S)
  BY <1>1, <1>2 DEF Ordered
<1>8. /\ \A places, d, m : Owes(S, places, d, m) => d = c /\ m = 1
      /\ Owes(S, {Global}, c, 1) /\ Owes(S, TokenPlaces, c, 1)
  BY <1>1, <1>2 DEF Owes, Match
<1> HIDE DEF S
<1>9. Fronted(S)
  BY <1>8 DEF Fronted
<1>10. CallsEven(S)
  BY <1>8 DEF CallsEven, CallCounters
<1>11. RequestsEven(S)
  BY <1>8 DEF RequestsEven
<1> QED
  BY <1>5, <1>6, <1>7, <1>9, <1>10, <1>11 DEF Shaped, S, a, b

\* A global count alone.
LEMMA ShapedGlobal ==
  ASSUME NEW l \in Nat, NEW c \in Counters, c \notin CallCounters \union {"Requests", "AuthFailed"}
  PROVE  Shaped({Step(l, "add", Global, c, 1)})
<1> DEFINE a == Step(l, "add", Global, c, 1)
           S == {a}
<1>1. a.op = "add" /\ a.counter = c /\ a.at = Global /\ a \in Steps
  BY StepFields, StepType, PlaceFacts
<1>2. Global \notin TokenPlaces
  <2>1. \A u : Global # Of(u)
    BY PlaceFacts
  <2> QED
    BY <2>1, PlaceSets
<1> HIDE DEF a
<1>3. Formed(S) /\ Once(S) /\ Ordered(S)
  BY <1>1, <1>2 DEF Formed, Once, Ordered
<1>4. \A places, d, m : Owes(S, places, d, m) => d = c /\ Global \in places
  BY <1>1 DEF Owes, Match
<1> HIDE DEF S
<1>5. Fronted(S)
  BY <1>2, <1>4 DEF Fronted
<1>6. CallsEven(S)
  BY <1>4 DEF CallsEven, CallCounters
<1>7. RequestsEven(S)
  BY <1>4 DEF RequestsEven
<1> QED
  BY <1>3, <1>5, <1>6, <1>7 DEF Shaped, S, a

\* A request nobody is known to have made.
LEMMA ShapedAuth ==
  ASSUME NEW l \in Nat, NEW k \in Nat
  PROVE  Shaped({Step(l, "add", Global, "AuthFailed", 1), Step(k, "add", Global, "Requests", 1)})
<1> DEFINE a == Step(l, "add", Global, "AuthFailed", 1)
           b == Step(k, "add", Global, "Requests", 1)
           S == {a, b}
<1>1. /\ a.op = "add" /\ a.counter = "AuthFailed" /\ a.at = Global /\ a.n = 1
      /\ b.op = "add" /\ b.counter = "Requests" /\ b.at = Global /\ b.n = 1
  BY StepFields
<1>2. a \in Steps /\ b \in Steps
  BY StepType, PlaceFacts DEF Counters
<1>3. Global \notin TokenPlaces
  <2>1. \A u : Global # Of(u)
    BY PlaceFacts
  <2> QED
    BY <2>1, PlaceSets
<1>4. "AuthFailed" \in Counters /\ "Requests" \in Counters
  BY DEF Counters
<1> HIDE DEF a, b
<1>5. Formed(S) /\ Once(S) /\ Ordered(S)
  BY <1>1, <1>2, <1>3, <1>4 DEF Formed, Once, Ordered
<1>6. \A places, d, m : Owes(S, places, d, m)
        <=> d \in {"AuthFailed", "Requests"} /\ m = 1 /\ Global \in places
  BY <1>1 DEF Owes, Match
<1> HIDE DEF S
<1>7. Fronted(S)
  BY <1>3, <1>6 DEF Fronted
<1>8. CallsEven(S)
  BY <1>6 DEF CallsEven, CallCounters
<1>9. RequestsEven(S)
  BY <1>3, <1>6 DEF RequestsEven
<1> QED
  BY <1>5, <1>7, <1>8, <1>9 DEF Shaped, S, a, b

\* Parts together with what they count.
Counting(S, counted) == Shaped(S) /\ \A s \in S : s.op = "add" => s.counter \in counted

LEMMA CountingUnion ==
  ASSUME NEW S, NEW T, NEW C, NEW D, Counting(S, C), Counting(T, D), C \intersect D = {}
  PROVE  Counting(S \union T, C \union D)
BY ShapedUnion DEF Counting

LEMMA CountingMore ==
  ASSUME NEW S, NEW C, NEW D, Counting(S, C), C \subseteq D
  PROVE  Counting(S, D)
BY DEF Counting

LEMMA CountingEnsure ==
  ASSUME NEW l \in Nat, NEW t \in Tokens
  PROVE  Counting(EnsureToken(l, t), {})
<1> DEFINE a == Step(l, "ensure", Of(t), "-", 0)
<1>1. a.op = "ensure" /\ a \in Steps /\ a.at \in TokenPlaces
  BY StepFields, StepType, PlaceSets
<1>2. EnsureToken(l, t) = {a}
  BY DEF EnsureToken
<1> HIDE DEF a
<1>3. Formed({a}) /\ \A s \in {a} : s.op # "add"
  BY <1>1 DEF Formed
<1> QED
  BY <1>2, <1>3, ShapedEmpty DEF Counting

LEMMA CountingSpread ==
  ASSUME NEW l1 \in Nat, NEW l2 \in Nat, NEW l3 \in Nat, l1 < l2,
         NEW t \in Tokens, NEW ch \in Chains, NEW n \in Nat,
         NEW c \in Counters, c \notin CallCounters \union {"AuthFailed"}
  PROVE  Counting(Spread(l1, l2, l3, t, ch, c, n), {c})
<1>1. Shaped(Spread(l1, l2, l3, t, ch, c, n))
  BY ShapedSpread
<1>2. \A s \in Spread(l1, l2, l3, t, ch, c, n) : s.op = "add" /\ s.counter = c
  BY SpreadOrder
<1> QED
  BY <1>1, <1>2 DEF Counting

\* The calls of Outcome and of a notification.
LEMMA CountingCalls ==
  ASSUME NEW l1 \in Nat, NEW l2 \in Nat, NEW l3 \in Nat, l1 < l2, NEW k \in Nat,
         NEW t \in Tokens, NEW ch \in Chains, NEW n \in Nat
  PROVE  Counting(Spread(l1, l2, l3, t, ch, "SuccessCalls", n) \union Billed(k, t, ch, n), CallCounters)
<1>1. PICK b \in {"BillableCalls", "FreeCalls"}, m \in Nat :
          Billed(k, t, ch, n) = Spread(m, m + 1, m + 2, t, ch, b, n)
  BY k + 4 \in Nat DEF Billed, Everywhere, Spread
<1>2. /\ \A s \in Spread(l1, l2, l3, t, ch, "SuccessCalls", n) : s.counter = "SuccessCalls"
      /\ \A s \in Spread(m, m + 1, m + 2, t, ch, b, n) : s.counter = b
  BY StepFields DEF Spread
<1>3. m + 1 \in Nat /\ m + 2 \in Nat /\ m < m + 1
  OBVIOUS
<1>4. Shaped(Spread(l1, l2, l3, t, ch, "SuccessCalls", n) \union Spread(m, m + 1, m + 2, t, ch, b, n))
  BY <1>3, ShapedCalls
<1> QED
  BY <1>1, <1>2, <1>4 DEF Counting, CallCounters

\* Adds of one and of two counters.
LEMMA AddsOfOne == \A l \in Nat : \A p, c : Adds(l, p, <<c>>) = {Step(l, "add", p, c, 1)}
<1> SUFFICES ASSUME NEW l \in Nat, NEW p, NEW c
             PROVE  Adds(l, p, <<c>>) = {Step(l, "add", p, c, 1)}
  OBVIOUS
<1>1. DOMAIN <<c>> = {1} /\ <<c>>[1] = c /\ l + 1 - 1 = l
  OBVIOUS
<1> QED
  BY <1>1 DEF Adds

LEMMA AddsOfTwo ==
  \A l, k \in Nat : k = l + 1 =>
    \A p, c, d : Adds(l, p, <<c, d>>) = {Step(l, "add", p, c, 1), Step(k, "add", p, d, 1)}
<1> SUFFICES ASSUME NEW l \in Nat, NEW k \in Nat, k = l + 1, NEW p, NEW c, NEW d
             PROVE  Adds(l, p, <<c, d>>) = {Step(l, "add", p, c, 1), Step(k, "add", p, d, 1)}
  OBVIOUS
<1>1. DOMAIN <<c, d>> = {1, 2} /\ <<c, d>>[1] = c /\ <<c, d>>[2] = d /\ l + 1 - 1 = l /\ l + 2 - 1 = k
  OBVIOUS
<1> QED
  BY <1>1 DEF Adds

LEMMA RefusedShaped ==
  ASSUME NEW t \in Tokens, NEW c \in {"MethodDenied", "RateLimited"}
  PROVE  Shaped(IncRefused(t, c))
<1> DEFINE A == {Step(161, "add", Global, c, 1), Step(165, "add", Of(t), c, 1)}
           B == {Step(162, "add", Global, "Requests", 1), Step(166, "add", Of(t), "Requests", 1)}
<1>1. IncRefused(t, c) = (A \union B) \union EnsureToken(164, t)
  <2>1. /\ Adds(161, Global, <<c, "Requests">>)
             = {Step(161, "add", Global, c, 1), Step(162, "add", Global, "Requests", 1)}
        /\ Adds(165, Of(t), <<c, "Requests">>)
             = {Step(165, "add", Of(t), c, 1), Step(166, "add", Of(t), "Requests", 1)}
    BY AddsOfTwo
  <2> QED
    BY <2>1 DEF IncRefused
<1>2. /\ c \in Counters /\ "Requests" \in Counters
      /\ c \notin CallCounters \union {"AuthFailed"} /\ "Requests" \notin CallCounters \union {"AuthFailed"}
  BY DEF Counters, CallCounters
<1>3. Shaped(A) /\ Shaped(B)
  BY <1>2, ShapedPair
<1>4. (\A s \in A : s.counter = c) /\ (\A s \in B : s.counter = "Requests")
  BY StepFields
<1> HIDE DEF A, B
<1>5. Counting(A, {c}) /\ Counting(B, {"Requests"})
  BY <1>3, <1>4 DEF Counting
<1>6. Counting(A \union B, {c} \union {"Requests"})
  BY <1>5, CountingUnion
<1>7. Counting((A \union B) \union EnsureToken(164, t), ({c} \union {"Requests"}) \union {})
  BY <1>6, CountingEnsure, CountingUnion
<1> QED
  BY <1>1, <1>7 DEF Counting

LEMMA OutcomeCounting ==
  ASSUME NEW t \in Tokens, NEW ch \in Chains, NEW ok \in Nat, NEW errs \in Nat, NEW failed \in BOOLEAN
  PROVE  Counting(Outcome(t, ch, ok, errs, failed), CallCounters \union {"UpstreamErrors", "RPCErrors"})
<1> DEFINE C == CallCounters \union {"UpstreamErrors", "RPCErrors"}
           A == IF ok > 0 THEN Spread(203, 204, 205, t, ch, "SuccessCalls", ok) \union Billed(207, t, ch, ok)
                ELSE {}
           B == IF errs > 0 THEN Spread(217, 218, 219, t, ch, "RPCErrors", errs) ELSE {}
<1>1. \A l \in Nat : \A c, n : Everywhere(l, t, ch, c, n) = Spread(l, l + 1, l + 2, t, ch, c, n)
  BY DEF Everywhere, Spread
<1>2. /\ "UpstreamErrors" \in Counters /\ "RPCErrors" \in Counters
      /\ "UpstreamErrors" \notin CallCounters \union {"AuthFailed"}
      /\ "RPCErrors" \notin CallCounters \union {"AuthFailed"}
  BY DEF Counters, CallCounters
<1>3. ASSUME failed PROVE Counting(Outcome(t, ch, ok, errs, failed), C)
  <2>1. Outcome(t, ch, ok, errs, failed) = Spread(197, 198, 199, t, ch, "UpstreamErrors", 1)
    BY <1>1, <1>3 DEF Outcome
  <2>2. Counting(Spread(197, 198, 199, t, ch, "UpstreamErrors", 1), {"UpstreamErrors"})
    BY <1>2, CountingSpread
  <2> QED
    BY <2>1, <2>2, CountingMore
<1>4. ASSUME ~failed PROVE Counting(Outcome(t, ch, ok, errs, failed), C)
  <2>1. Outcome(t, ch, ok, errs, failed) = A \union B
    BY <1>1, <1>4 DEF Outcome
  <2>2. Counting({}, {})
    BY ShapedEmpty DEF Counting, Formed
  <2>3. Counting(A, CallCounters)
    BY <2>2, CountingCalls, CountingMore
  <2>4. Counting(B, {"RPCErrors"})
    BY <1>2, <2>2, CountingSpread, CountingMore
  <2> HIDE DEF A, B
  <2>5. Counting(A \union B, CallCounters \union {"RPCErrors"})
    BY <1>2, <2>3, <2>4, CountingUnion
  <2> QED
    BY <2>1, <2>5, CountingMore
<1> QED
  BY <1>3, <1>4

LEMMA RecordProxyShaped ==
  ASSUME NEW t \in Tokens, NEW ch \in Chains, NEW ok \in Nat, NEW errs \in Nat, NEW failed \in BOOLEAN
  PROVE  Shaped(RecordProxy(t, ch, ok, errs, failed))
<1> DEFINE A == Spread(182, 187, 192, t, ch, "Requests", 1)
           B == Spread(183, 188, 193, t, ch, "Proxied", 1)
           E == EnsureToken(186, t)
           O == Outcome(t, ch, ok, errs, failed)
<1>1. RecordProxy(t, ch, ok, errs, failed) = ((A \union B) \union E) \union O
  <2>1. \A p, c, d :
          /\ Adds(182, p, <<c, d>>) = {Step(182, "add", p, c, 1), Step(183, "add", p, d, 1)}
          /\ Adds(187, p, <<c, d>>) = {Step(187, "add", p, c, 1), Step(188, "add", p, d, 1)}
          /\ Adds(192, p, <<c, d>>) = {Step(192, "add", p, c, 1), Step(193, "add", p, d, 1)}
    BY AddsOfTwo
  <2> QED
    BY <2>1 DEF RecordProxy, Spread
<1>2. /\ "Requests" \in Counters /\ "Proxied" \in Counters
      /\ {"Requests", "Proxied"} \intersect (CallCounters \union {"AuthFailed"}) = {}
      /\ {"Requests", "Proxied"} \intersect (CallCounters \union {"UpstreamErrors", "RPCErrors"}) = {}
  BY DEF Counters, CallCounters
<1>3. Counting(A, {"Requests"}) /\ Counting(B, {"Proxied"})
  BY <1>2, CountingSpread
<1>4. Counting(E, {})
  BY CountingEnsure
<1>5. Counting(O, CallCounters \union {"UpstreamErrors", "RPCErrors"})
  BY OutcomeCounting
<1> HIDE DEF A, B, E, O
<1>6. Counting(A \union B, {"Requests"} \union {"Proxied"})
  BY <1>3, CountingUnion
<1>7. Counting((A \union B) \union E, ({"Requests"} \union {"Proxied"}) \union {})
  BY <1>4, <1>6, CountingUnion
<1>8. Counting((A \union B) \union E, {"Requests", "Proxied"})
  BY <1>7, CountingMore
<1>9. Counting(((A \union B) \union E) \union O,
               {"Requests", "Proxied"} \union (CallCounters \union {"UpstreamErrors", "RPCErrors"}))
  BY <1>2, <1>5, <1>8, CountingUnion
<1> QED
  BY <1>1, <1>9 DEF Counting

LEMMA ConnectShaped ==
  ASSUME NEW t \in Tokens, NEW ch \in Chains
  PROVE  Shaped(RecordWSConnect(t, ch))
<1> DEFINE A == Spread(225, 228, 231, t, ch, "WSConnections", 1)
           E == EnsureToken(227, t)
<1>1. RecordWSConnect(t, ch) = A \union E
  <2>1. \A p, c :
          /\ Adds(225, p, <<c>>) = {Step(225, "add", p, c, 1)}
          /\ Adds(228, p, <<c>>) = {Step(228, "add", p, c, 1)}
          /\ Adds(231, p, <<c>>) = {Step(231, "add", p, c, 1)}
    BY AddsOfOne
  <2> QED
    BY <2>1 DEF RecordWSConnect, Spread
<1>2. "WSConnections" \in Counters /\ "WSConnections" \notin CallCounters \union {"AuthFailed"}
  BY DEF Counters, CallCounters
<1>3. Counting(A, {"WSConnections"}) /\ Counting(E, {})
  BY <1>2, CountingSpread, CountingEnsure
<1> HIDE DEF A, E
<1>4. Counting(A \union E, {"WSConnections"} \union {})
  BY <1>3, CountingUnion
<1> QED
  BY <1>1, <1>4 DEF Counting

LEMMA NotificationShaped ==
  ASSUME NEW t \in Tokens, NEW ch \in Chains
  PROVE  Shaped(RecordWSNotification(t, ch))
<1> DEFINE A == Spread(243, 248, 253, t, ch, "WSNotifications", 1)
           C == Spread(244, 249, 254, t, ch, "SuccessCalls", BillUnits) \union Billed(258, t, ch, BillUnits)
           E == EnsureToken(247, t)
<1>1. RecordWSNotification(t, ch) = (A \union C) \union E
  BY DEF RecordWSNotification, Spread
<1>2. "WSNotifications" \in Counters /\ "WSNotifications" \notin CallCounters \union {"AuthFailed"}
  BY DEF Counters, CallCounters
<1>3. Counting(A, {"WSNotifications"}) /\ Counting(E, {}) /\ Counting(C, CallCounters)
  <2>1. Counting(A, {"WSNotifications"})
    BY <1>2, CountingSpread
  <2>2. BillUnits \in Nat
    BY StatsAssumption
  <2>3. 244 \in Nat /\ 249 \in Nat /\ 254 \in Nat /\ 258 \in Nat /\ 244 < 249
    OBVIOUS
  <2>4. ASSUME NEW n \in Nat
        PROVE  Counting(Spread(244, 249, 254, t, ch, "SuccessCalls", n) \union Billed(258, t, ch, n),
                        CallCounters)
    <3>1. \A l1, l2, l3, k \in Nat : l1 < l2 =>
            Counting(Spread(l1, l2, l3, t, ch, "SuccessCalls", n) \union Billed(k, t, ch, n), CallCounters)
      BY CountingCalls
    <3> QED
      BY ONLY <2>3, <3>1
  <2>5. Counting(C, CallCounters)
    BY <2>2, <2>4
  <2> QED
    BY <2>1, <2>5, CountingEnsure
<1> HIDE DEF A, C, E
<1>4. Counting(A \union C, {"WSNotifications"} \union CallCounters)
  BY <1>2, <1>3, CountingUnion
<1>5. Counting((A \union C) \union E, ({"WSNotifications"} \union CallCounters) \union {})
  BY <1>3, <1>4, CountingUnion
<1> QED
  BY <1>1, <1>5 DEF Counting

\* Every operation of the collector is of this shape.
LEMMA OperationsShaped == \A S \in Operations : Shaped(S)
<1>1. Shaped(IncDomainRejected)
  <2>1. IncDomainRejected = {Step(150, "add", Global, "DomainRejected", 1)}
    BY AddsOfOne DEF IncDomainRejected
  <2>2. "DomainRejected" \in Counters
        /\ "DomainRejected" \notin CallCounters \union {"Requests", "AuthFailed"}
    BY DEF Counters, CallCounters
  <2> QED
    BY <2>1, <2>2, ShapedGlobal
<1>2. Shaped(IncAuthFailed)
  <2>1. IncAuthFailed
          = {Step(155, "add", Global, "AuthFailed", 1), Step(156, "add", Global, "Requests", 1)}
    BY AddsOfTwo DEF IncAuthFailed
  <2> QED
    BY <2>1, ShapedAuth
<1>3. OkCalls \subseteq Nat /\ ErrCalls \subseteq Nat
  BY StatsAssumption
<1>4. ASSUME NEW S \in Operations
      PROVE  \/ S = IncDomainRejected \/ S = IncAuthFailed
             \/ \E t \in Tokens, c \in {"MethodDenied", "RateLimited"} : S = IncRefused(t, c)
             \/ \E t \in Tokens, ch \in Chains, ok \in OkCalls, errs \in ErrCalls, failed \in BOOLEAN :
                  S = RecordProxy(t, ch, ok, errs, failed)
             \/ \E t \in Tokens, ch \in Chains : S = RecordWSConnect(t, ch)
             \/ \E t \in Tokens, ch \in Chains : S = RecordWSNotification(t, ch)
  BY DEF Operations
<1> QED
  BY <1>1, <1>2, <1>3, <1>4, RefusedShaped, RecordProxyShaped, ConnectShaped, NotificationShaped

----------------------------------------------------------------------------
(* The inductive invariant *)

\* Every step counts a counter that is kept; the steps of ensureToken know a token.
StatsTyped ==
  /\ StatsTypeOK
  /\ \A g \in Recorders \union {Viewer} : \A s \in todo[g] :
       /\ s.op \in {"add", "read"} => s.counter \in Tracked
       /\ s.op \in {"ensure", "refresh", "create"} => s.at \in TokenPlaces

Queued == \A r \in Recorders : Once(todo[r]) /\ Ordered(todo[r])

\* What a goroutine has still to add to one counter at places of one level,
AmountOf(steps) == IF steps = {} THEN 0 ELSE (CHOOSE s \in steps : TRUE).n

Due(S, places, c) == AmountOf(Match(S, places, c))

\* and what it has added to the total only.
Ahead(S, c) == IF Match(S, {Global}, c) = {} THEN Due(S, TokenPlaces, c) ELSE 0

\* A count with what is still to come: the operations begun, not those finished.
Amount(places, c) ==
  SumOver(metrics, places, c) + Total([r \in Recorders |-> Due(todo[r], places, c)])

Balanced ==
  /\ {"Requests", "AuthFailed"} \subseteq Tracked =>
       Amount({Global}, "Requests") = Amount(TokenPlaces, "Requests") + Amount({Global}, "AuthFailed")
  /\ \A c \in Tracked \intersect CallCounters :
       /\ Amount({Global}, c) = Amount(TokenPlaces, c)
       /\ \A t \in Tokens : Amount({Of(t)}, c) = Amount(ChainPlaces(t), c)
  /\ CallCounters \subseteq Tracked =>
       \A p \in Places :
         Amount({p}, "SuccessCalls") = Amount({p}, "BillableCalls") + Amount({p}, "FreeCalls")

\* A total is ahead of its tokens by what its requests have still to add to these.
GlobalFirst ==
  \A c \in Tracked :
    SumOver(metrics, TokenPlaces, c) + Total([r \in Recorders |-> Ahead(todo[r], c)])
      <= metrics[Global][c]

\* What is read is behind what is counted.
Behind == \A p \in Places, c \in Tracked : view[p][c] <= metrics[p][c]

Shown(c) == SumOver(view, TokenPlaces, c) <= view[Global][c]

Locking == Step(285, "rlock", Global, "-", 0)
Unlocking == Step(319, "runlock", Global, "-", 0)

\* While the totals are read the tokens are not.
Viewing ==
  /\ ~reading =>
       /\ \A s \in todo[Viewer] :
            s = Locking \/ (s.op \in {"ensure", "refresh", "create"} /\ s.line < Locking.line)
       /\ \A c \in Tracked : Shown(c)
  /\ reading =>
       /\ \A s \in todo[Viewer] : s = Unlocking \/ (s.op = "read" /\ s.line < Unlocking.line)
       /\ Unlocking \in todo[Viewer] =>
            /\ \A s \in todo[Viewer] : s.at = Global
            /\ \A c \in Tracked : Shown(c) \/ \E s \in todo[Viewer] : s.op = "read" /\ s.counter = c

StatsInv == StatsTyped /\ Queued /\ Balanced /\ GlobalFirst /\ Behind /\ Viewing

----------------------------------------------------------------------------
(* What is still to be added *)

\* Places of one level: an operation adds to one of them.
Level(places) == \A p, q \in places : Len(p) = Len(q)

LEMMA LevelFacts ==
  /\ \A p : Level({p})
  /\ Level(TokenPlaces)
  /\ \A t : Level(ChainPlaces(t))
<1>1. \A p : Level({p})
  BY DEF Level
<1>2. Level(TokenPlaces)
  BY PlaceFacts, PlaceSets DEF Level
<1>3. \A t : Level(ChainPlaces(t))
  BY PlaceFacts, PlaceSets DEF Level
<1> QED
  BY <1>1, <1>2, <1>3

LEMMA PlacesFinite ==
  /\ \A p : IsFiniteSet({p})
  /\ IsFiniteSet(TokenPlaces)
  /\ \A t : IsFiniteSet(ChainPlaces(t))
<1>1. IsFiniteSet(TokenPlaces)
  <2> DEFINE f == [t \in Tokens |-> Of(t)]
  <2>1. f \in Surjection(Tokens, TokenPlaces)
    BY DEF Surjection, TokenPlaces
  <2> HIDE DEF f
  <2> QED
    BY <2>1, FS_Surjection, StatsAssumption
<1>2. ASSUME NEW t PROVE IsFiniteSet(ChainPlaces(t))
  <2> DEFINE f == [ch \in Chains |-> On(t, ch)]
  <2>1. f \in Surjection(Chains, ChainPlaces(t))
    BY DEF Surjection, ChainPlaces
  <2> HIDE DEF f
  <2> QED
    BY <2>1, FS_Surjection, StatsAssumption
<1> QED
  BY <1>1, <1>2, FS_Singleton

\* The one add that is meant.
LEMMA DueOfOne ==
  ASSUME NEW S, Once(S), NEW places, Level(places), NEW c, NEW s \in Match(S, places, c)
  PROVE  Match(S, places, c) = {s} /\ Due(S, places, c) = s.n
<1>1. \A u \in Match(S, places, c) : u = s
  BY DEF Match, Once, Level
<1>2. (CHOOSE u \in Match(S, places, c) : TRUE) = s
  BY <1>1
<1> QED
  BY <1>1, <1>2 DEF Due, AmountOf

LEMMA DueOfNone ==
  ASSUME NEW S, NEW places, NEW c, Match(S, places, c) = {}
  PROVE  Due(S, places, c) = 0
BY DEF Due, AmountOf

LEMMA DueType ==
  ASSUME NEW S, S \subseteq Steps, NEW places, NEW c
  PROVE  Due(S, places, c) \in Nat /\ Ahead(S, c) \in Nat
<1>1. \A s \in Steps : s.n \in Nat
  BY DEF Steps
<1>2. \A other : Due(S, other, c) \in Nat
  <2>1. ASSUME NEW other, Match(S, other, c) # {} PROVE Due(S, other, c) \in Nat
    <3>1. (CHOOSE s \in Match(S, other, c) : TRUE) \in Match(S, other, c)
      BY <2>1
    <3>2. Match(S, other, c) \subseteq Steps
      BY DEF Match
    <3> QED
      BY <1>1, <2>1, <3>1, <3>2 DEF Due, AmountOf
  <2> QED
    BY <2>1 DEF Due, AmountOf
<1> QED
  BY <1>2 DEF Ahead

\* What is due is what is owed.
LEMMA DueOwed ==
  ASSUME NEW S, Once(S), NEW places, Level(places), NEW c
  PROVE  /\ \A n : Owes(S, places, c, n) => Due(S, places, c) = n
         /\ (\A n \in Nat : ~Owes(S, places, c, n)) /\ S \subseteq Steps => Due(S, places, c) = 0
<1>1. ASSUME NEW n, Owes(S, places, c, n) PROVE Due(S, places, c) = n
  BY <1>1, DueOfOne DEF Owes
<1>2. ASSUME \A n \in Nat : ~Owes(S, places, c, n), S \subseteq Steps
      PROVE  Due(S, places, c) = 0
  <2>1. \A s \in S : s.n \in Nat
    BY <1>2 DEF Steps
  <2>2. Match(S, places, c) = {}
    BY <1>2, <2>1 DEF Owes, Match
  <2> QED
    BY <2>2, DueOfNone
<1> QED
  BY <1>1, <1>2

\* What is owed is nothing or one amount.
LEMMA DueCases ==
  ASSUME NEW S, Once(S), S \subseteq Steps, NEW places, Level(places), NEW c
  PROVE  LET debts == {n \in Nat : Owes(S, places, c, n)} IN
         /\ Due(S, places, c) \in Nat
         /\ debts = {Due(S, places, c)} \/ (debts = {} /\ Due(S, places, c) = 0)
<1>1. Due(S, places, c) \in Nat
  BY DueType
<1>2. ASSUME NEW n \in Nat, Owes(S, places, c, n)
      PROVE  {m \in Nat : Owes(S, places, c, m)} = {Due(S, places, c)}
  BY <1>2, DueOwed
<1> QED
  BY <1>1, <1>2, DueOwed

\* An amount that is owed on one of two accounts.
LEMMA DueSum ==
  ASSUME NEW S, Once(S), S \subseteq Steps,
         NEW X, Level(X), NEW c, NEW Y, Level(Y), NEW d, NEW Z, Level(Z), NEW e,
         \A n \in Nat : Owes(S, X, c, n) <=> Owes(S, Y, d, n) \/ Owes(S, Z, e, n),
         \A n, m \in Nat : ~(Owes(S, Y, d, n) /\ Owes(S, Z, e, m))
  PROVE  Due(S, X, c) = Due(S, Y, d) + Due(S, Z, e)
<1> DEFINE P == {n \in Nat : Owes(S, X, c, n)}
           Q == {n \in Nat : Owes(S, Y, d, n)}
           R == {n \in Nat : Owes(S, Z, e, n)}
           x == Due(S, X, c)
           y == Due(S, Y, d)
           z == Due(S, Z, e)
<1>1. /\ x \in Nat /\ (P = {x} \/ (P = {} /\ x = 0))
      /\ y \in Nat /\ (Q = {y} \/ (Q = {} /\ y = 0))
      /\ z \in Nat /\ (R = {z} \/ (R = {} /\ z = 0))
  BY DueCases
<1>2. P = Q \union R /\ (Q = {} \/ R = {})
  OBVIOUS
<1> HIDE DEF P, Q, R, x, y, z
<1>3. CASE Q = {}
  <2>1. P = R /\ y = 0
    BY <1>1, <1>2, <1>3
  <2>2. x = z
    BY <1>1, <2>1
  <2> QED
    BY <1>1, <2>1, <2>2 DEF x, y, z
<1>4. CASE R = {}
  <2>1. P = Q /\ z = 0
    BY <1>1, <1>2, <1>4
  <2>2. x = y
    BY <1>1, <2>1
  <2> QED
    BY <1>1, <2>1, <2>2 DEF x, y, z
<1> QED
  BY <1>2, <1>3, <1>4

LEMMA DueSame ==
  ASSUME NEW S, Once(S), S \subseteq Steps, NEW X, Level(X), NEW Y, Level(Y), NEW c,
         \A n \in Nat : Owes(S, X, c, n) <=> Owes(S, Y, c, n)
  PROVE  Due(S, X, c) = Due(S, Y, c)
<1>1. {n \in Nat : Owes(S, X, c, n)} = {n \in Nat : Owes(S, Y, c, n)}
  OBVIOUS
<1> QED
  BY <1>1, DueCases

\* An operation owes as much at one level as at the others.
LEMMA DueEven ==
  ASSUME NEW S, Shaped(S)
  PROVE  /\ Due(S, {Global}, "Requests")
              = Due(S, TokenPlaces, "Requests") + Due(S, {Global}, "AuthFailed")
         /\ \A c \in CallCounters :
              /\ Due(S, {Global}, c) = Due(S, TokenPlaces, c)
              /\ \A t \in Tokens : Due(S, {Of(t)}, c) = Due(S, ChainPlaces(t), c)
         /\ \A p \in Places :
              Due(S, {p}, "SuccessCalls") = Due(S, {p}, "BillableCalls") + Due(S, {p}, "FreeCalls")
<1>1. Once(S) /\ S \subseteq Steps /\ CallsEven(S) /\ RequestsEven(S)
  BY DEF Shaped, Formed
<1>2. Due(S, {Global}, "Requests") = Due(S, TokenPlaces, "Requests") + Due(S, {Global}, "AuthFailed")
  <2>1. /\ \A n \in Nat : Owes(S, {Global}, "Requests", n)
             <=> Owes(S, TokenPlaces, "Requests", n) \/ Owes(S, {Global}, "AuthFailed", n)
        /\ \A n, m \in Nat : ~(Owes(S, TokenPlaces, "Requests", n) /\ Owes(S, {Global}, "AuthFailed", m))
    BY <1>1 DEF RequestsEven
  <2>2. Level({Global}) /\ Level(TokenPlaces) /\ Level({Global})
    BY LevelFacts
  <2>3. ASSUME NEW c, NEW e, NEW X, Level(X), NEW Y, Level(Y),
               \A n \in Nat : Owes(S, X, c, n) <=> Owes(S, Y, c, n) \/ Owes(S, X, e, n),
               \A n, m \in Nat : ~(Owes(S, Y, c, n) /\ Owes(S, X, e, m))
        PROVE  Due(S, X, c) = Due(S, Y, c) + Due(S, X, e)
    BY <1>1, <2>3, DueSum
  <2> QED
    BY ONLY <2>1, <2>2, <2>3
<1>3. ASSUME NEW c \in CallCounters
      PROVE  /\ Due(S, {Global}, c) = Due(S, TokenPlaces, c)
             /\ \A t \in Tokens : Due(S, {Of(t)}, c) = Due(S, ChainPlaces(t), c)
  BY <1>1, LevelFacts, DueSame DEF CallsEven
<1>4. ASSUME NEW p \in Places
      PROVE  Due(S, {p}, "SuccessCalls") = Due(S, {p}, "BillableCalls") + Due(S, {p}, "FreeCalls")
  <2>1. /\ \A n \in Nat : Owes(S, {p}, "SuccessCalls", n)
             <=> Owes(S, {p}, "BillableCalls", n) \/ Owes(S, {p}, "FreeCalls", n)
        /\ \A n, m \in Nat : ~(Owes(S, {p}, "BillableCalls", n) /\ Owes(S, {p}, "FreeCalls", m))
    BY <1>1 DEF CallsEven
  <2>2. Level({p}) /\ Level({p}) /\ Level({p})
    BY LevelFacts
  <2> QED
    BY ONLY <1>1, <2>1, <2>2, DueSum
<1> QED
  BY <1>2, <1>3, <1>4

\* Nobody is ahead before the operation, nor at its start.
LEMMA AheadAtStart ==
  /\ \A c : Ahead({}, c) = 0 /\ \A places : Due({}, places, c) = 0
  /\ \A S : Shaped(S) => \A c : Ahead(S, c) = 0
<1>1. \A c, places : Match({}, places, c) = {}
  BY DEF Match
<1>2. ASSUME NEW S, Shaped(S), NEW c PROVE Ahead(S, c) = 0
  <2>1. CASE Match(S, {Global}, c) = {}
    <3>1. Match(S, TokenPlaces, c) = {}
      BY <1>2, <2>1 DEF Shaped, Fronted, Owes
    <3> QED
      BY <3>1, DueOfNone DEF Ahead
  <2>2. CASE Match(S, {Global}, c) # {}
    BY <2>2 DEF Ahead
  <2> QED
    BY <2>1, <2>2
<1> QED
  BY <1>1, <1>2, DueOfNone DEF Ahead

----------------------------------------------------------------------------
(* Types *)

LEMMA KeptFacts ==
  ASSUME NEW S
  PROVE  /\ Kept(S) \subseteq S
         /\ \A s \in Kept(S) : s.counter \in Tracked \union {"-"}
         /\ \A c \in Tracked : \A places : Match(Kept(S), places, c) = Match(S, places, c)
BY DEF Kept, Match

\* The reads of a place are of all that is kept, in the lines before the unlock.
LEMMA ReadsFacts ==
  ASSUME NEW p \in Places
  PROVE  /\ \A s \in Reads(p) : /\ s \in Steps /\ s.op = "read" /\ s.at = p
                                /\ s.counter \in Tracked /\ s.line < Unlocking.line
         /\ \A c \in Tracked : \E s \in Reads(p) : s.op = "read" /\ s.counter = c
<1>1. DOMAIN FieldOrder = 1 .. 13
  BY DEF FieldOrder
<1>2. \A i \in 1 .. 13 : FieldOrder[i] \in Counters
  BY DEF FieldOrder, Counters
<1>3. \A c \in Counters : \E i \in 1 .. 13 : FieldOrder[i] = c
  <2>1. /\ FieldOrder[1] = "Requests" /\ FieldOrder[2] = "Proxied" /\ FieldOrder[3] = "SuccessCalls"
        /\ FieldOrder[4] = "RPCErrors" /\ FieldOrder[5] = "UpstreamErrors"
        /\ FieldOrder[6] = "AuthFailed" /\ FieldOrder[7] = "MethodDenied"
        /\ FieldOrder[8] = "RateLimited" /\ FieldOrder[9] = "DomainRejected"
        /\ FieldOrder[10] = "BillableCalls" /\ FieldOrder[11] = "FreeCalls"
        /\ FieldOrder[12] = "WSConnections" /\ FieldOrder[13] = "WSNotifications"
    BY DEF FieldOrder
  <2> QED
    BY <2>1 DEF Counters
<1>4. "-" \notin Counters /\ Tracked \subseteq Counters
  BY StatsAssumption DEF Counters
<1>5. Unlocking.line = 319
  BY StepFields DEF Unlocking
<1>6. ASSUME NEW s \in Reads(p)
      PROVE  s \in Steps /\ s.op = "read" /\ s.at = p /\ s.counter \in Tracked /\ s.line < Unlocking.line
  <2>1. PICK i \in 1 .. 13 : s = Step(45 + i, "read", p, FieldOrder[i], 0)
    BY <1>1 DEF Reads, Kept
  <2>2. s.counter = FieldOrder[i] /\ s.op = "read" /\ s.at = p /\ s.line = 45 + i
    BY <2>1, StepFields
  <2>3. s.counter \in Tracked
    BY <1>2, <1>4, <2>2 DEF Reads, Kept
  <2>4. s \in Steps
    BY <1>2, <2>1, StepType, 45 + i \in Nat
  <2> QED
    BY <1>5, <2>2, <2>3, <2>4
<1>7. ASSUME NEW c \in Tracked PROVE \E s \in Reads(p) : s.op = "read" /\ s.counter = c
  <2>1. PICK i \in 1 .. 13 : FieldOrder[i] = c
    BY <1>3, <1>4
  <2>2. Step(45 + i, "read", p, c, 0).counter = c /\ Step(45 + i, "read", p, c, 0).op = "read"
    BY StepFields
  <2>3. Step(45 + i, "read", p, c, 0) \in Reads(p)
    BY <1>1, <2>1, <2>2 DEF Reads, Kept
  <2> QED
    BY <2>2, <2>3
<1> QED
  BY <1>6, <1>7

\* What a goroutine's steps are like.
WellTyped(S) ==
  \A s \in S : /\ s \in Steps
               /\ s.op \in {"add", "read"} => s.counter \in Tracked
               /\ s.op \in {"ensure", "refresh", "create"} => s.at \in TokenPlaces

LEMMA TypedAs ==
  StatsTyped <=> /\ Listed \subseteq known /\ known \subseteq Tokens
            /\ metrics \in [Places -> [Tracked -> Nat]] /\ view \in [Places -> [Tracked -> Nat]]
            /\ DOMAIN todo = Recorders \union {Viewer}
            /\ todo = [g \in Recorders \union {Viewer} |-> todo[g]]
            /\ \A g \in Recorders \union {Viewer} : WellTyped(todo[g])
            /\ reading \in BOOLEAN /\ unvisited \subseteq Places /\ ops \in 0 .. MaxOps
BY DEF StatsTyped, StatsTypeOK, WellTyped

LEMMA ZerosType == Zeros \in [Places -> [Tracked -> Nat]]
BY DEF Zeros

\* Going on keeps the type.
LEMMA TodoTyped ==
  ASSUME StatsTyped, NEW g \in Recorders \union {Viewer}, NEW S, WellTyped(S),
         todo' = [todo EXCEPT ![g] = S]
  PROVE  /\ DOMAIN todo' = Recorders \union {Viewer}
         /\ todo' = [q \in Recorders \union {Viewer} |-> todo'[q]]
         /\ \A q \in Recorders \union {Viewer} : WellTyped(todo'[q])
         /\ todo'[g] = S /\ \A q \in (Recorders \union {Viewer}) \ {g} : todo'[q] = todo[q]
BY TypedAs

LEMMA ContinueTyped ==
  ASSUME StatsTyped, NEW g \in Recorders \union {Viewer}, NEW s, NEW S, WellTyped(S), Continue(g, s, S)
  PROVE  /\ DOMAIN todo' = Recorders \union {Viewer}
         /\ todo' = [q \in Recorders \union {Viewer} |-> todo'[q]]
         /\ \A q \in Recorders \union {Viewer} : WellTyped(todo'[q])
         /\ todo'[g] = (todo[g] \ {s}) \union S
         /\ \A q \in (Recorders \union {Viewer}) \ {g} : todo'[q] = todo[q]
<1>1. todo' = [todo EXCEPT ![g] = (todo[g] \ {s}) \union S]
  BY DEF Continue
<1>2. WellTyped(todo[g])
  BY TypedAs
<1>3. WellTyped((todo[g] \ {s}) \union S)
  BY <1>2 DEF WellTyped
<1> QED
  BY <1>1, <1>3, TodoTyped

LEMMA NothingTyped == WellTyped({})
BY DEF WellTyped

\* The steps that ensureToken goes on with.
LEMMA EnsureTyped ==
  /\ \A p \in TokenPlaces : /\ WellTyped({Step(127, "refresh", p, "-", 0)})
                            /\ WellTyped({Step(132, "create", p, "-", 0)})
                            /\ Head(p) \in Tokens
  /\ \A t \in Tokens : WellTyped(EnsureToken(282, t))
  /\ WellTyped({Locking}) /\ WellTyped({Unlocking})
<1>1. ASSUME NEW p \in TokenPlaces
      PROVE  /\ WellTyped({Step(127, "refresh", p, "-", 0)})
             /\ WellTyped({Step(132, "create", p, "-", 0)})
             /\ Head(p) \in Tokens
  <2>1. p \in Places /\ Head(p) \in Tokens
    BY PlaceSets, PlaceFacts
  <2>2. Step(127, "refresh", p, "-", 0) \in Steps /\ Step(132, "create", p, "-", 0) \in Steps
    BY <2>1, StepType
  <2> QED
    BY <2>1, <2>2, StepFields DEF WellTyped
<1>2. ASSUME NEW t \in Tokens PROVE WellTyped(EnsureToken(282, t))
  <2>1. Of(t) \in TokenPlaces /\ Of(t) \in Places
    BY PlaceSets
  <2>2. Step(282, "ensure", Of(t), "-", 0) \in Steps
    BY <2>1, StepType
  <2> QED
    BY <2>1, <2>2, StepFields DEF WellTyped, EnsureToken
<1>3. WellTyped({Locking}) /\ WellTyped({Unlocking})
  <2>1. Locking \in Steps
    BY StepType, PlaceFacts DEF Locking
  <2>2. Unlocking \in Steps
    BY StepType, PlaceFacts DEF Unlocking
  <2> QED
    BY <2>1, <2>2, StepFields DEF WellTyped, Locking, Unlocking
<1> QED
  BY <1>1, <1>2, <1>3

TypedAfter ==
  /\ Listed \subseteq known' /\ known' \subseteq Tokens
  /\ metrics' \in [Places -> [Tracked -> Nat]] /\ view' \in [Places -> [Tracked -> Nat]]
  /\ DOMAIN todo' = Recorders \union {Viewer}
  /\ todo' = [g \in Recorders \union {Viewer} |-> todo'[g]]
  /\ \A g \in Recorders \union {Viewer} : WellTyped(todo'[g])
  /\ reading' \in BOOLEAN /\ unvisited' \subseteq Places /\ ops' \in 0 .. MaxOps

LEMMA TypedAfterAs == TypedAfter => StatsTyped'
BY DEF TypedAfter, StatsTyped, StatsTypeOK, WellTyped

LEMMA TypedInit == StatsInit => StatsTyped
<1> SUFFICES ASSUME StatsInit PROVE StatsTyped
  OBVIOUS
<1>1. /\ known = Listed /\ metrics = Zeros /\ view = Zeros /\ reading = FALSE /\ unvisited = {} /\ ops = 0
      /\ todo = [g \in Recorders \union {Viewer} |-> {}]
  BY DEF StatsInit
<1>2. Listed \subseteq Tokens /\ 0 \in 0 .. MaxOps
  BY StatsAssumption
<1> QED
  BY <1>1, <1>2, ZerosType, NothingTyped, TypedAs

\* An addition.
LEMMA MetricsAdd ==
  ASSUME NEW m \in [Places -> [Tracked -> Nat]], NEW p \in Places, NEW c \in Tracked, NEW n \in Nat,
         NEW after, after = [m EXCEPT ![p][c] = @ + n]
  PROVE  /\ after \in [Places -> [Tracked -> Nat]]
         /\ after[p][c] = m[p][c] + n
         /\ \A q \in Places, d \in Tracked : q # p \/ d # c => after[q][d] = m[q][d]
OBVIOUS

LEMMA ViewRead ==
  ASSUME NEW m \in [Places -> [Tracked -> Nat]], NEW p \in Places, NEW c \in Tracked, NEW n \in Nat,
         NEW after, after = [m EXCEPT ![p][c] = n]
  PROVE  /\ after \in [Places -> [Tracked -> Nat]]
         /\ after[p][c] = n
         /\ \A q \in Places, d \in Tracked : q # p \/ d # c => after[q][d] = m[q][d]
OBVIOUS

LEMMA TypedNext ==
  ASSUME StatsTyped, [StatsNext]_statsVars
  PROVE  StatsTyped'
<1> USE TypedAs, TypedAfterAs
<1>1. ASSUME NEW r \in Recorders, Call(r) PROVE StatsTyped'
  <2>1. PICK X \in Operations : todo' = [todo EXCEPT ![r] = Kept(X)]
    BY <1>1 DEF Call
  <2>2. WellTyped(Kept(X))
    <3>1. Formed(X)
      BY OperationsShaped DEF Shaped
    <3>2. "-" \notin Counters
      BY DEF Counters
    <3> QED
      BY <3>1, <3>2, KeptFacts DEF WellTyped, Formed
  <2>3. ops' \in 0 .. MaxOps
    BY <1>1, StatsAssumption DEF Call
  <2> QED
    BY <1>1, <2>1, <2>2, <2>3, TodoTyped DEF Call, TypedAfter
<1>2. ASSUME NEW r \in Recorders, Add(r) PROVE StatsTyped'
  <2>1. PICK s \in Ready(r, "add") :
          /\ metrics' = [metrics EXCEPT ![s.at][s.counter] = @ + s.n]
          /\ Continue(r, s, {}) /\ UNCHANGED <<known, reading, unvisited, view, ops>>
    BY <1>2 DEF Add
  <2>2. s.at \in Places /\ s.counter \in Tracked /\ s.n \in Nat
    BY DEF Ready, WellTyped, Steps
  <2>3. metrics' \in [Places -> [Tracked -> Nat]]
    BY <2>1, <2>2, MetricsAdd
  <2> QED
    BY <2>1, <2>3, ContinueTyped, NothingTyped DEF TypedAfter
<1>3. ASSUME NEW g \in Recorders \union {Viewer}, FindToken(g) PROVE StatsTyped'
  <2>1. PICK s \in Ready(g, "ensure") :
          /\ Continue(g, s, {IF Head(s.at) \in known THEN Step(127, "refresh", s.at, "-", 0)
                                                     ELSE Step(132, "create", s.at, "-", 0)})
          /\ UNCHANGED <<known, metrics, reading, unvisited, view, ops>>
    BY <1>3 DEF FindToken
  <2>2. s.at \in TokenPlaces
    BY DEF Ready, WellTyped
  <2>3. PICK S : WellTyped(S) /\ Continue(g, s, S)
    BY <2>1, <2>2, EnsureTyped
  <2> QED
    BY <2>1, <2>3, ContinueTyped DEF TypedAfter
<1>4. ASSUME NEW g \in Recorders \union {Viewer}, RefreshMeta(g) PROVE StatsTyped'
  BY <1>4, ContinueTyped, NothingTyped DEF RefreshMeta, TypedAfter
<1>5. ASSUME NEW g \in Recorders \union {Viewer}, CreateToken(g) PROVE StatsTyped'
  <2>1. PICK s \in Ready(g, "create") :
          /\ known' = known \union {Head(s.at)} /\ Continue(g, s, {})
          /\ UNCHANGED <<metrics, reading, unvisited, view, ops>>
    BY <1>5 DEF CreateToken
  <2>2. s.at \in TokenPlaces
    BY DEF Ready, WellTyped
  <2>3. Head(s.at) \in Tokens
    BY <2>2, EnsureTyped
  <2> QED
    BY <2>1, <2>3, ContinueTyped, NothingTyped DEF TypedAfter
<1>6. CASE BeginSnapshot
  <2> DEFINE S == (UNION {EnsureToken(282, t) : t \in Listed}) \union {Step(285, "rlock", Global, "-", 0)}
  <2>1. WellTyped(S)
    <3>1. \A t \in Listed : WellTyped(EnsureToken(282, t))
      BY EnsureTyped, StatsAssumption
    <3>2. WellTyped({Step(285, "rlock", Global, "-", 0)})
      BY EnsureTyped DEF Locking
    <3> QED
      BY <3>1, <3>2 DEF WellTyped
  <2>2. todo' = [todo EXCEPT ![Viewer] = S]
    BY <1>6 DEF BeginSnapshot
  <2> HIDE DEF S
  <2> QED
    BY <1>6, <2>1, <2>2, TodoTyped, ZerosType DEF BeginSnapshot, TypedAfter
<1>7. CASE RLock
  <2>1. {Of(t) : t \in known} \subseteq Places
    BY PlaceSets
  <2> QED
    BY <1>7, <2>1, ContinueTyped, NothingTyped DEF RLock, TypedAfter
<1>8. ASSUME NEW S, WellTyped(S), Visit(S), unvisited' \subseteq Places PROVE StatsTyped'
  BY <1>8, TodoTyped DEF Visit, TypedAfter
<1>9. CASE VisitToken
  <2>1. PICK t \in Tokens : unvisited' = (unvisited \ {Of(t)}) \union ChainPlaces(t) /\ Visit(Reads(Of(t)))
    BY <1>9 DEF VisitToken
  <2>2. WellTyped(Reads(Of(t)))
    BY ReadsFacts, PlaceSets DEF WellTyped
  <2> QED
    BY <1>8, <2>1, <2>2, PlaceSets
<1>10. CASE VisitChain
  <2>1. PICK p \in unvisited \ TokenPlaces : unvisited' = unvisited \ {p} /\ Visit(Reads(p))
    BY <1>10 DEF VisitChain
  <2>2. WellTyped(Reads(p))
    BY ReadsFacts DEF WellTyped
  <2> QED
    BY <1>8, <2>1, <2>2
<1>11. CASE VisitTotal
  <2>1. WellTyped(Reads(Global) \union {Unlocking})
    BY ReadsFacts, EnsureTyped, PlaceFacts DEF WellTyped
  <2> QED
    BY <1>8, <1>11, <2>1 DEF VisitTotal, Unlocking
<1>12. CASE Read
  <2>1. PICK s \in Ready(Viewer, "read") :
          /\ view' = [view EXCEPT ![s.at][s.counter] = metrics[s.at][s.counter]]
          /\ Continue(Viewer, s, {}) /\ UNCHANGED <<known, metrics, reading, unvisited, ops>>
    BY <1>12 DEF Read
  <2>2. s.at \in Places /\ s.counter \in Tracked /\ metrics[s.at][s.counter] \in Nat
    BY DEF Ready, WellTyped, Steps
  <2>3. view' \in [Places -> [Tracked -> Nat]]
    BY <2>1, <2>2, ViewRead
  <2> QED
    BY <2>1, <2>3, ContinueTyped, NothingTyped DEF TypedAfter
<1>13. CASE RUnlock
  BY <1>13, ContinueTyped, NothingTyped DEF RUnlock, TypedAfter
<1>14. CASE UNCHANGED statsVars
  BY <1>14 DEF statsVars, TypedAfter
<1> QED
  BY <1>1, <1>2, <1>3, <1>4, <1>5, <1>6, <1>7, <1>9, <1>10, <1>11, <1>12, <1>13, <1>14
  DEF StatsNext, Snapshot, Ensure

----------------------------------------------------------------------------
(* Steps that count nothing *)

Adding(S) == {s \in S : s.op = "add"}

Quiet == metrics' = metrics /\ \A r \in Recorders : Adding(todo'[r]) = Adding(todo[r])

\* Only the adds of a goroutine matter for what is due.
LEMMA AddingFacts ==
  ASSUME NEW S, NEW T, Adding(S) = Adding(T)
  PROVE  /\ \A places, c : Match(S, places, c) = Match(T, places, c)
         /\ \A places, c : Due(S, places, c) = Due(T, places, c)
         /\ \A c : Ahead(S, c) = Ahead(T, c)
         /\ Once(S) => Once(T)
         /\ Ordered(S) => Ordered(T)
<1>1. \A R, places, c : Match(R, places, c) = {s \in Adding(R) : s.at \in places /\ s.counter = c}
  BY DEF Match, Adding
<1>2. \A places, c : Match(S, places, c) = Match(T, places, c)
  BY <1>1
<1>3. \A places, c : Due(S, places, c) = Due(T, places, c)
  BY <1>2 DEF Due
<1>4. \A c : Ahead(S, c) = Ahead(T, c)
  BY <1>2, <1>3 DEF Ahead
<1>5. \A R : Once(R) <=> \A s, u \in Adding(R) : s.counter = u.counter /\ Len(s.at) = Len(u.at) => s = u
  BY DEF Once, Adding
<1>6. \A R : Ordered(R) <=> \A s, u \in Adding(R) :
        s.counter = u.counter /\ s.at = Global /\ u.at \in TokenPlaces => s.line < u.line /\ s.n = u.n
  BY DEF Ordered, Adding
<1> QED
  BY <1>2, <1>3, <1>4, <1>5, <1>6

\* A request begins, adds, or does something that is of no account.
LEMMA Kinds ==
  ASSUME StatsTyped, [StatsNext]_statsVars
  PROVE  (\E r \in Recorders : Call(r) \/ Add(r)) \/ Quiet
<1> USE TypedAs
<1>1. Viewer \notin Recorders
  BY StatsAssumption
<1>2. ASSUME NEW g \in Recorders \union {Viewer}, NEW s \in todo[g], s.op # "add",
             NEW S, WellTyped(S), Adding(S) = {}, Continue(g, s, S), metrics' = metrics
      PROVE  Quiet
  <2>1. /\ todo'[g] = (todo[g] \ {s}) \union S
        /\ \A q \in (Recorders \union {Viewer}) \ {g} : todo'[q] = todo[q]
    BY <1>2, ContinueTyped
  <2>2. Adding(todo'[g]) = Adding(todo[g])
    BY <1>2, <2>1 DEF Adding
  <2> QED
    BY <1>2, <2>1, <2>2 DEF Quiet
<1>3. ASSUME NEW S, todo' = [todo EXCEPT ![Viewer] = S], metrics' = metrics
      PROVE  Quiet
  BY <1>1, <1>3 DEF Quiet
<1>4. Adding({}) = {} /\ WellTyped({})
  BY NothingTyped DEF Adding
<1>5. ASSUME NEW g \in Recorders \union {Viewer}, FindToken(g) PROVE Quiet
  <2>1. PICK s \in Ready(g, "ensure") :
          /\ Continue(g, s, {IF Head(s.at) \in known THEN Step(127, "refresh", s.at, "-", 0)
                                                     ELSE Step(132, "create", s.at, "-", 0)})
          /\ UNCHANGED <<known, metrics, reading, unvisited, view, ops>>
    BY <1>5 DEF FindToken
  <2>2. s \in todo[g] /\ s.op # "add" /\ s.at \in TokenPlaces
    BY DEF Ready, WellTyped
  <2>3. /\ Adding({Step(127, "refresh", s.at, "-", 0)}) = {}
        /\ Adding({Step(132, "create", s.at, "-", 0)}) = {}
    BY StepFields DEF Adding
  <2>4. PICK S : WellTyped(S) /\ Adding(S) = {} /\ Continue(g, s, S)
    BY <2>1, <2>2, <2>3, EnsureTyped
  <2> QED
    BY <1>2, <2>1, <2>2, <2>4
<1>6. ASSUME NEW g \in Recorders \union {Viewer}, RefreshMeta(g) PROVE Quiet
  <2>1. PICK s \in Ready(g, "refresh") : Continue(g, s, {}) /\ metrics' = metrics
    BY <1>6 DEF RefreshMeta
  <2> QED
    BY <1>2, <1>4, <2>1 DEF Ready
<1>7. ASSUME NEW g \in Recorders \union {Viewer}, CreateToken(g) PROVE Quiet
  <2>1. PICK s \in Ready(g, "create") : Continue(g, s, {}) /\ metrics' = metrics
    BY <1>7 DEF CreateToken
  <2> QED
    BY <1>2, <1>4, <2>1 DEF Ready
<1>8. CASE Snapshot
  <2>1. metrics' = metrics
    BY <1>8 DEF Snapshot, BeginSnapshot, RLock, VisitToken, VisitChain, VisitTotal, Visit, Read, RUnlock
  <2>2. \E S : todo' = [todo EXCEPT ![Viewer] = S]
    BY <1>8 DEF Snapshot, BeginSnapshot, RLock, VisitToken, VisitChain, VisitTotal, Visit, Read, RUnlock,
      Continue
  <2> QED
    BY <1>3, <2>1, <2>2
<1>9. CASE UNCHANGED statsVars
  BY <1>9 DEF statsVars, Quiet
<1> QED
  BY <1>5, <1>6, <1>7, <1>8, <1>9 DEF StatsNext, Ensure

\* A call: a new set of steps, of the shape of an operation.
LEMMA CallStep ==
  ASSUME StatsTyped, NEW r \in Recorders, Call(r)
  PROVE  \E X : /\ Shaped(X) /\ todo[r] = {} /\ todo'[r] = Kept(X) /\ metrics' = metrics
                /\ \A q \in Recorders \ {r} : todo'[q] = todo[q]
<1>1. PICK X \in Operations : todo' = [todo EXCEPT ![r] = Kept(X)]
  BY DEF Call
<1>2. Shaped(X)
  BY OperationsShaped
<1> QED
  BY <1>1, <1>2, TypedAs DEF Call

\* An add: one step less, and the count that it makes.
LEMMA AddStep ==
  ASSUME StatsTyped, NEW r \in Recorders, Add(r)
  PROVE  \E s \in todo[r] :
           /\ s.op = "add" /\ \A o \in todo[r] : s.line <= o.line
           /\ s.at \in Places /\ s.counter \in Tracked /\ s.n \in Nat
           /\ todo'[r] = todo[r] \ {s} /\ \A q \in Recorders \ {r} : todo'[q] = todo[q]
           /\ metrics'[s.at][s.counter] = metrics[s.at][s.counter] + s.n
           /\ \A p \in Places, c \in Tracked :
                p # s.at \/ c # s.counter => metrics'[p][c] = metrics[p][c]
<1>1. PICK s \in Ready(r, "add") :
        metrics' = [metrics EXCEPT ![s.at][s.counter] = @ + s.n] /\ Continue(r, s, {})
  BY DEF Add
<1>2. s \in todo[r] /\ s.op = "add" /\ \A o \in todo[r] : s.line <= o.line
  BY DEF Ready
<1>3. s.at \in Places /\ s.counter \in Tracked /\ s.n \in Nat
  BY <1>2, TypedAs DEF WellTyped, Steps
<1>4. todo'[r] = todo[r] \ {s} /\ \A q \in Recorders \ {r} : todo'[q] = todo[q]
  BY <1>1, ContinueTyped, NothingTyped
<1>5. /\ metrics'[s.at][s.counter] = metrics[s.at][s.counter] + s.n
      /\ \A p \in Places, c \in Tracked :
           p # s.at \/ c # s.counter => metrics'[p][c] = metrics[p][c]
  BY <1>1, <1>3, MetricsAdd, TypedAs
<1> QED
  BY <1>2, <1>3, <1>4, <1>5

LEMMA QueuedNext ==
  ASSUME StatsTyped, Queued, [StatsNext]_statsVars
  PROVE  Queued'
<1>1. ASSUME NEW r \in Recorders, Call(r) PROVE Queued'
  <2>1. PICK X : /\ Shaped(X) /\ todo'[r] = Kept(X)
                 /\ \A q \in Recorders \ {r} : todo'[q] = todo[q]
    BY <1>1, CallStep
  <2>2. Once(Kept(X)) /\ Ordered(Kept(X))
    BY <2>1, KeptFacts DEF Shaped, Once, Ordered
  <2> QED
    BY <2>1, <2>2 DEF Queued
<1>2. ASSUME NEW r \in Recorders, Add(r) PROVE Queued'
  <2>1. PICK s : todo'[r] = todo[r] \ {s} /\ \A q \in Recorders \ {r} : todo'[q] = todo[q]
    BY <1>2, AddStep
  <2>2. Once(todo[r] \ {s}) /\ Ordered(todo[r] \ {s})
    BY DEF Queued, Once, Ordered
  <2> QED
    BY <2>1, <2>2 DEF Queued
<1>3. CASE Quiet
  <2>1. \A r \in Recorders : Once(todo'[r]) /\ Ordered(todo'[r])
    BY <1>3, AddingFacts DEF Quiet, Queued
  <2> QED
    BY <2>1 DEF Queued
<1> QED
  BY <1>1, <1>2, <1>3, Kinds

----------------------------------------------------------------------------
(* Counts that agree *)

Counts(m, places, c) == [p \in places |-> m[p][c]]
Dues(places, c) == [r \in Recorders |-> Due(todo[r], places, c)]

LEMMA CountsType ==
  ASSUME NEW m \in [Places -> [Tracked -> Nat]], NEW places \in SUBSET Places, NEW c \in Tracked
  PROVE  Counts(m, places, c) \in [places -> Nat]
BY DEF Counts

LEMMA DuesType ==
  ASSUME StatsTyped, NEW places, NEW c
  PROVE  Dues(places, c) \in [Recorders -> Nat]
<1>1. \A r \in Recorders : todo[r] \subseteq Steps
  BY TypedAs DEF WellTyped
<1> QED
  BY <1>1, DueType DEF Dues

LEMMA DuesTypeAfter ==
  ASSUME StatsTyped', NEW places, NEW c
  PROVE  [r \in Recorders |-> Due(todo'[r], places, c)] \in [Recorders -> Nat]
<1>1. \A r \in Recorders : todo'[r] \subseteq Steps
  BY DEF StatsTyped, StatsTypeOK
<1> QED
  BY <1>1, DueType

LEMMA TotalAdded ==
  ASSUME NEW D, IsFiniteSet(D), NEW f \in [D -> Nat], NEW g \in [D -> Nat], NEW x \in D, NEW n \in Nat,
         \A y \in D \ {x} : f[y] = g[y], g[x] = f[x] + n
  PROVE  Total(g) = Total(f) + n
<1>1. Total(f) - f[x] = Total(g) - g[x]
  BY TotalChange
<1>2. Total(f) \in Nat /\ Total(g) \in Nat /\ f[x] \in Nat
  BY TotalType
<1> QED
  BY <1>1, <1>2

\* One count of one place is more by n.
Raised(m, m2, p, c, n) ==
  /\ m \in [Places -> [Tracked -> Nat]] /\ m2 \in [Places -> [Tracked -> Nat]]
  /\ p \in Places /\ c \in Tracked /\ n \in Nat
  /\ m2[p][c] = m[p][c] + n
  /\ \A q \in Places, d \in Tracked : q # p \/ d # c => m2[q][d] = m[q][d]

\* A sum in which one place counts more.
LEMMA SumAfterAdd ==
  ASSUME NEW m, NEW m2, NEW p, NEW c, NEW n, Raised(m, m2, p, c, n),
         NEW places, places \subseteq Places, IsFiniteSet(places), NEW d \in Tracked
  PROVE  /\ SumOver(m, places, d) \in Nat /\ SumOver(m2, places, d) \in Nat
         /\ p \in places /\ d = c => SumOver(m2, places, d) = SumOver(m, places, d) + n
         /\ p \notin places \/ d # c => SumOver(m2, places, d) = SumOver(m, places, d)
<1> DEFINE f == Counts(m, places, d)
           g == Counts(m2, places, d)
<1>0. /\ m \in [Places -> [Tracked -> Nat]] /\ m2 \in [Places -> [Tracked -> Nat]]
      /\ p \in Places /\ c \in Tracked /\ n \in Nat
      /\ m2[p][c] = m[p][c] + n
      /\ \A q \in Places, e \in Tracked : q # p \/ e # c => m2[q][e] = m[q][e]
  BY DEF Raised
<1>1. f \in [places -> Nat] /\ g \in [places -> Nat]
  BY <1>0, CountsType
<1>2. SumOver(m, places, d) = Total(f) /\ SumOver(m2, places, d) = Total(g)
  BY DEF SumOver, Counts
<1>3. \A q \in places : f[q] = m[q][d] /\ g[q] = m2[q][d]
  BY DEF Counts
<1> HIDE DEF f, g
<1>4. Total(f) \in Nat /\ Total(g) \in Nat
  BY <1>1, TotalType
<1>5. ASSUME p \in places, d = c PROVE Total(g) = Total(f) + n
  <2>1. \A q \in places \ {p} : f[q] = g[q]
    BY <1>0, <1>3
  <2>2. g[p] = f[p] + n
    BY <1>0, <1>3, <1>5
  <2>3. n \in Nat /\ IsFiniteSet(places)
    BY <1>0
  <2> QED
    BY ONLY <1>1, <1>5, <2>1, <2>2, <2>3, TotalAdded
<1>6. ASSUME p \notin places \/ d # c PROVE g = f
  <2>1. \A q \in places : f[q] = g[q]
    BY <1>0, <1>3, <1>6
  <2> QED
    BY <1>1, <2>1
<1> QED
  BY <1>2, <1>4, <1>5, <1>6

\* What is due when one goroutine has changed.
LEMMA DueAfter ==
  ASSUME NEW F \in [Recorders -> Nat], NEW G \in [Recorders -> Nat], NEW r \in Recorders,
         \A q \in Recorders \ {r} : F[q] = G[q]
  PROVE  Total(F) \in Nat /\ Total(G) \in Nat /\ Total(G) = Total(F) - F[r] + G[r]
<1>1. IsFiniteSet(Recorders)
  BY StatsAssumption
<1>2. Total(F) \in Nat /\ Total(G) \in Nat
  BY <1>1, TotalType
<1>3. Total(F) - F[r] = Total(G) - G[r]
  BY <1>1, TotalChange
<1>4. F[r] \in Nat /\ G[r] \in Nat
  OBVIOUS
<1> QED
  BY <1>2, <1>3, <1>4

\* An add moves what was due to the count.
LEMMA AmountAdded ==
  ASSUME StatsTyped, StatsTyped', Queued, NEW r \in Recorders, Add(r),
         NEW places \in SUBSET Places, Level(places), IsFiniteSet(places), NEW c \in Tracked
  PROVE  SumOver(metrics', places, c) + Total([q \in Recorders |-> Due(todo'[q], places, c)])
           = Amount(places, c)
<1> DEFINE F == Dues(places, c)
           G == [q \in Recorders |-> Due(todo'[q], places, c)]
<1>1. PICK s \in todo[r] :
        /\ s.op = "add" /\ s.at \in Places /\ s.counter \in Tracked /\ s.n \in Nat
        /\ todo'[r] = todo[r] \ {s} /\ \A q \in Recorders \ {r} : todo'[q] = todo[q]
        /\ metrics'[s.at][s.counter] = metrics[s.at][s.counter] + s.n
        /\ \A p \in Places, d \in Tracked : p # s.at \/ d # s.counter => metrics'[p][d] = metrics[p][d]
  BY AddStep
<1>2. F \in [Recorders -> Nat] /\ G \in [Recorders -> Nat]
  BY DuesType, DuesTypeAfter
<1>3. Amount(places, c) = SumOver(metrics, places, c) + Total(F)
  BY DEF Amount, Dues
<1>4. /\ \A q \in Recorders \ {r} : F[q] = G[q]
      /\ F[r] = Due(todo[r], places, c) /\ G[r] = Due(todo[r] \ {s}, places, c)
  BY <1>1 DEF Dues
<1>5. metrics \in [Places -> [Tracked -> Nat]] /\ metrics' \in [Places -> [Tracked -> Nat]]
  BY DEF StatsTyped, StatsTypeOK
<1>6. /\ SumOver(metrics, places, c) \in Nat /\ SumOver(metrics', places, c) \in Nat
      /\ s.at \in places /\ c = s.counter
           => SumOver(metrics', places, c) = SumOver(metrics, places, c) + s.n
      /\ s.at \notin places \/ c # s.counter => SumOver(metrics', places, c) = SumOver(metrics, places, c)
  <2>1. Raised(metrics, metrics', s.at, s.counter, s.n)
    BY <1>1, <1>5 DEF Raised
  <2> QED
    BY <2>1, SumAfterAdd
<1> HIDE DEF F, G
<1>7. Total(F) \in Nat /\ Total(G) \in Nat /\ Total(G) = Total(F) - F[r] + G[r]
  BY <1>2, <1>4, DueAfter
<1>8. CASE s.at \in places /\ c = s.counter
  <2>1. s \in Match(todo[r], places, c) /\ Once(todo[r])
    BY <1>1, <1>8 DEF Match, Queued
  <2>2. Match(todo[r], places, c) = {s} /\ Due(todo[r], places, c) = s.n
    BY <2>1, DueOfOne
  <2>3. Match(todo[r] \ {s}, places, c) = {}
    BY <2>2 DEF Match
  <2>4. G[r] = 0 /\ F[r] = s.n
    BY <1>4, <2>2, <2>3, DueOfNone
  <2> QED
    BY <1>1, <1>3, <1>6, <1>7, <1>8, <2>4 DEF G
<1>9. CASE s.at \notin places \/ c # s.counter
  <2>1. Match(todo[r] \ {s}, places, c) = Match(todo[r], places, c)
    BY <1>9 DEF Match
  <2>2. G[r] = F[r] /\ F[r] \in Nat
    BY <1>2, <1>4, <2>1 DEF Due
  <2> QED
    BY <1>3, <1>6, <1>7, <1>9, <2>2 DEF G
<1> QED
  BY <1>8, <1>9

\* A call makes due what its operation owes.
LEMMA AmountCalled ==
  ASSUME StatsTyped, StatsTyped', NEW r \in Recorders, Call(r)
  PROVE  \E X : Shaped(X) /\ \A places \in SUBSET Places, c \in Tracked :
           IsFiniteSet(places) =>
             /\ Amount(places, c) \in Nat /\ Due(X, places, c) \in Nat
             /\ SumOver(metrics', places, c) + Total([q \in Recorders |-> Due(todo'[q], places, c)])
                  = Amount(places, c) + Due(X, places, c)
<1>1. PICK X : /\ Shaped(X) /\ todo[r] = {} /\ todo'[r] = Kept(X) /\ metrics' = metrics
               /\ \A q \in Recorders \ {r} : todo'[q] = todo[q]
  BY CallStep
<1>2. ASSUME NEW places \in SUBSET Places, NEW c \in Tracked, IsFiniteSet(places)
      PROVE  /\ Amount(places, c) \in Nat /\ Due(X, places, c) \in Nat
             /\ SumOver(metrics', places, c) + Total([q \in Recorders |-> Due(todo'[q], places, c)])
                  = Amount(places, c) + Due(X, places, c)
  <2> DEFINE F == Dues(places, c)
             G == [q \in Recorders |-> Due(todo'[q], places, c)]
  <2>1. F \in [Recorders -> Nat] /\ G \in [Recorders -> Nat]
    BY DuesType, DuesTypeAfter
  <2>2. Amount(places, c) = SumOver(metrics, places, c) + Total(F)
    BY DEF Amount, Dues
  <2>3. /\ \A q \in Recorders \ {r} : F[q] = G[q]
        /\ F[r] = Due({}, places, c) /\ G[r] = Due(Kept(X), places, c)
    BY <1>1 DEF Dues
  <2>4. SumOver(metrics, places, c) \in Nat
    <3>1. Counts(metrics, places, c) \in [places -> Nat]
      BY CountsType, TypedAs
    <3>2. SumOver(metrics, places, c) = Total(Counts(metrics, places, c))
      BY DEF SumOver, Counts
    <3> QED
      BY <1>2, <3>1, <3>2, TotalType
  <2> HIDE DEF F, G
  <2>5. Total(F) \in Nat /\ Total(G) \in Nat /\ Total(G) = Total(F) - F[r] + G[r]
    BY <2>1, <2>3, DueAfter
  <2>6. F[r] = 0 /\ G[r] = Due(X, places, c)
    BY <2>3, AheadAtStart, KeptFacts DEF Due
  <2>7. G[r] \in Nat
    BY <2>1
  <2> QED
    BY <1>1, <2>2, <2>4, <2>5, <2>6, <2>7 DEF G
<1> QED
  BY <1>1, <1>2

\* The places whose sums are compared.
LEMMA PlacesCompared ==
  /\ {Global} \subseteq Places /\ TokenPlaces \subseteq Places
  /\ \A t \in Tokens : {Of(t)} \subseteq Places /\ ChainPlaces(t) \subseteq Places
  /\ \A p \in Places : {p} \subseteq Places
BY PlaceFacts, PlaceSets

LEMMA BalancedInit == StatsInit => Balanced
<1> SUFFICES ASSUME StatsInit PROVE Balanced
  OBVIOUS
<1>1. ASSUME NEW places \in SUBSET Places, NEW c \in Tracked PROVE Amount(places, c) = 0
  <2>1. SumOver(metrics, places, c) = 0
    <3> DEFINE f == [p \in places |-> metrics[p][c]]
    <3>1. \A p \in DOMAIN f : f[p] = 0
      BY DEF StatsInit, Zeros
    <3> HIDE DEF f
    <3>2. Total(f) = 0
      BY <3>1, TotalOfNothing
    <3> QED
      BY <3>2 DEF f, SumOver
  <2>2. Total([r \in Recorders |-> Due(todo[r], places, c)]) = 0
    <3> DEFINE f == [r \in Recorders |-> Due(todo[r], places, c)]
    <3>1. \A r \in DOMAIN f : f[r] = 0
      BY AheadAtStart DEF StatsInit
    <3> HIDE DEF f
    <3>2. Total(f) = 0
      BY <3>1, TotalOfNothing
    <3> QED
      BY <3>2 DEF f
  <2> QED
    BY <2>1, <2>2 DEF Amount
<1>2. Tracked \subseteq Counters
  BY StatsAssumption
<1>3. \A p, c : p \in Places /\ c \in Tracked => Amount({p}, c) = 0
  BY <1>1, PlacesCompared
<1>4. /\ \A c \in Tracked : Amount({Global}, c) = 0 /\ Amount(TokenPlaces, c) = 0
      /\ \A t \in Tokens, c \in Tracked : Amount({Of(t)}, c) = 0 /\ Amount(ChainPlaces(t), c) = 0
  BY <1>1, PlacesCompared
<1> QED
  BY <1>3, <1>4 DEF Balanced, CallCounters

\* The equations hold on if no amount changes,
LEMMA BalancedKept ==
  ASSUME Balanced,
         \A places \in SUBSET Places, c \in Tracked :
           Level(places) /\ IsFiniteSet(places) => Amount(places, c)' = Amount(places, c)
  PROVE  Balanced'
<1>1. /\ \A c \in Tracked : /\ Amount({Global}, c)' = Amount({Global}, c)
                            /\ Amount(TokenPlaces, c)' = Amount(TokenPlaces, c)
      /\ \A t \in Tokens, c \in Tracked : /\ Amount({Of(t)}, c)' = Amount({Of(t)}, c)
                                          /\ Amount(ChainPlaces(t), c)' = Amount(ChainPlaces(t), c)
      /\ \A p \in Places, c \in Tracked : Amount({p}, c)' = Amount({p}, c)
  BY PlacesCompared, LevelFacts, PlacesFinite
<1> QED
  BY <1>1 DEF Balanced, CallCounters

\* and if they grow by what an operation owes.
LEMMA BalancedGrown ==
  ASSUME Balanced, NEW X, Shaped(X),
         \A places \in SUBSET Places, c \in Tracked : IsFiniteSet(places) =>
           /\ Amount(places, c) \in Nat /\ Due(X, places, c) \in Nat
           /\ Amount(places, c)' = Amount(places, c) + Due(X, places, c)
  PROVE  Balanced'
<1> DEFINE Grows(places, c) == /\ Amount(places, c) \in Nat /\ Due(X, places, c) \in Nat
                               /\ Amount(places, c)' = Amount(places, c) + Due(X, places, c)
<1>1. /\ \A c \in Tracked : Grows({Global}, c) /\ Grows(TokenPlaces, c)
      /\ \A t \in Tokens, c \in Tracked : Grows({Of(t)}, c) /\ Grows(ChainPlaces(t), c)
      /\ \A p \in Places, c \in Tracked : Grows({p}, c)
  BY PlacesCompared, PlacesFinite
<1>2. ASSUME {"Requests", "AuthFailed"} \subseteq Tracked
      PROVE  Amount({Global}, "Requests")'
               = Amount(TokenPlaces, "Requests")' + Amount({Global}, "AuthFailed")'
  <2>1. Amount({Global}, "Requests") = Amount(TokenPlaces, "Requests") + Amount({Global}, "AuthFailed")
    BY <1>2 DEF Balanced
  <2>2. Due(X, {Global}, "Requests") = Due(X, TokenPlaces, "Requests") + Due(X, {Global}, "AuthFailed")
    BY DueEven
  <2>3. Grows({Global}, "Requests") /\ Grows(TokenPlaces, "Requests") /\ Grows({Global}, "AuthFailed")
    BY <1>1, <1>2
  <2> QED
    BY ONLY <2>1, <2>2, <2>3
<1>3. ASSUME NEW c \in Tracked \intersect CallCounters
      PROVE  /\ Amount({Global}, c)' = Amount(TokenPlaces, c)'
             /\ \A t \in Tokens : Amount({Of(t)}, c)' = Amount(ChainPlaces(t), c)'
  <2>1. /\ Amount({Global}, c) = Amount(TokenPlaces, c)
        /\ \A t \in Tokens : Amount({Of(t)}, c) = Amount(ChainPlaces(t), c)
    BY DEF Balanced
  <2>2. /\ Due(X, {Global}, c) = Due(X, TokenPlaces, c)
        /\ \A t \in Tokens : Due(X, {Of(t)}, c) = Due(X, ChainPlaces(t), c)
    BY DueEven
  <2>3. Amount({Global}, c)' = Amount(TokenPlaces, c)'
    <3>1. Grows({Global}, c) /\ Grows(TokenPlaces, c)
      BY <1>1
    <3> QED
      BY ONLY <2>1, <2>2, <3>1
  <2>4. ASSUME NEW t \in Tokens PROVE Amount({Of(t)}, c)' = Amount(ChainPlaces(t), c)'
    <3>1. Grows({Of(t)}, c) /\ Grows(ChainPlaces(t), c)
      BY <1>1
    <3>2. Amount({Of(t)}, c) = Amount(ChainPlaces(t), c) /\ Due(X, {Of(t)}, c) = Due(X, ChainPlaces(t), c)
      BY <2>1, <2>2
    <3> QED
      BY ONLY <3>1, <3>2
  <2> QED
    BY <2>3, <2>4
<1>4. ASSUME CallCounters \subseteq Tracked, NEW p \in Places
      PROVE  Amount({p}, "SuccessCalls")' = Amount({p}, "BillableCalls")' + Amount({p}, "FreeCalls")'
  <2>1. Amount({p}, "SuccessCalls") = Amount({p}, "BillableCalls") + Amount({p}, "FreeCalls")
    BY <1>4 DEF Balanced
  <2>2. Due(X, {p}, "SuccessCalls") = Due(X, {p}, "BillableCalls") + Due(X, {p}, "FreeCalls")
    BY DueEven
  <2>3. Grows({p}, "SuccessCalls") /\ Grows({p}, "BillableCalls") /\ Grows({p}, "FreeCalls")
    BY <1>1, <1>4 DEF CallCounters
  <2> QED
    BY ONLY <2>1, <2>2, <2>3
<1> QED
  BY <1>2, <1>3, <1>4 DEF Balanced

LEMMA BalancedNext ==
  ASSUME StatsTyped, StatsTyped', Queued, Balanced, [StatsNext]_statsVars
  PROVE  Balanced'
<1>1. \A places, c : Amount(places, c)'
        = SumOver(metrics', places, c) + Total([q \in Recorders |-> Due(todo'[q], places, c)])
  BY DEF Amount
<1>2. ASSUME NEW r \in Recorders, Call(r) PROVE Balanced'
  <2>1. PICK X : Shaped(X) /\ \A places \in SUBSET Places, c \in Tracked :
          IsFiniteSet(places) =>
            /\ Amount(places, c) \in Nat /\ Due(X, places, c) \in Nat
            /\ SumOver(metrics', places, c) + Total([q \in Recorders |-> Due(todo'[q], places, c)])
                 = Amount(places, c) + Due(X, places, c)
    BY <1>2, AmountCalled
  <2>2. \A places \in SUBSET Places, c \in Tracked : IsFiniteSet(places) =>
          /\ Amount(places, c) \in Nat /\ Due(X, places, c) \in Nat
          /\ Amount(places, c)' = Amount(places, c) + Due(X, places, c)
    BY <1>1, <2>1
  <2> QED
    BY <2>1, <2>2, BalancedGrown
<1>3. ASSUME NEW r \in Recorders, Add(r) PROVE Balanced'
  <2>1. ASSUME NEW places \in SUBSET Places, NEW c \in Tracked, Level(places), IsFiniteSet(places)
        PROVE  Amount(places, c)' = Amount(places, c)
    BY <1>1, <1>3, <2>1, AmountAdded
  <2> QED
    BY <2>1, BalancedKept
<1>4. CASE Quiet
  <2>1. ASSUME NEW places, NEW c
        PROVE  Amount(places, c)' = Amount(places, c)
    <3>1. \A r \in Recorders : Due(todo'[r], places, c) = Due(todo[r], places, c)
      BY <1>4, AddingFacts DEF Quiet
    <3>2. [r \in Recorders |-> Due(todo'[r], places, c)] = [r \in Recorders |-> Due(todo[r], places, c)]
      BY <3>1
    <3> QED
      BY <1>1, <1>4, <3>2 DEF Amount, Quiet
  <2> QED
    BY <2>1, BalancedKept
<1> QED
  BY <1>2, <1>3, <1>4, Kinds

\* When nothing is due the amounts are the counts.
LEMMA AgreeAtRest == StatsTyped /\ Balanced => CountsAgreeAtRest
<1> SUFFICES ASSUME StatsTyped, Balanced, \A r \in Recorders : todo[r] = {} PROVE CountsAgreeAtRest
  BY DEF CountsAgreeAtRest
<1>1. ASSUME NEW places, NEW c PROVE Total([r \in Recorders |-> Due(todo[r], places, c)]) = 0
  <2> DEFINE f == [r \in Recorders |-> Due(todo[r], places, c)]
  <2>1. \A r \in DOMAIN f : f[r] = 0
    BY AheadAtStart
  <2> HIDE DEF f
  <2>2. Total(f) = 0
    BY <2>1, TotalOfNothing
  <2> QED
    BY <2>2 DEF f
<1>2. ASSUME NEW places \in SUBSET Places, IsFiniteSet(places), NEW c \in Tracked
      PROVE  Amount(places, c) = SumOver(metrics, places, c)
  <2>1. Counts(metrics, places, c) \in [places -> Nat]
    BY CountsType, TypedAs
  <2>2. SumOver(metrics, places, c) = Total(Counts(metrics, places, c))
    BY DEF SumOver, Counts
  <2>3. SumOver(metrics, places, c) \in Nat
    BY <1>2, <2>1, <2>2, TotalType
  <2> QED
    BY <1>1, <2>3 DEF Amount
<1>3. ASSUME NEW p \in Places, NEW c \in Tracked
      PROVE  Amount({p}, c) = metrics[p][c]
  <2> DEFINE f == [q \in {p} |-> metrics[q][c]]
  <2>1. DOMAIN f = {p} /\ f[p] = metrics[p][c] /\ f[p] \in Nat
    BY TypedAs
  <2> HIDE DEF f
  <2>2. Total(f) = f[p]
    BY <2>1, TotalOfOne
  <2>3. Amount({p}, c) = SumOver(metrics, {p}, c)
    BY <1>2, PlacesCompared, PlacesFinite
  <2> QED
    BY <2>1, <2>2, <2>3 DEF f, SumOver
<1>4. Global \in Places /\ \A t \in Tokens : Of(t) \in Places
  BY PlaceFacts, PlaceSets
<1>5. /\ \A c \in Tracked : Amount(TokenPlaces, c) = SumOver(metrics, TokenPlaces, c)
      /\ \A t \in Tokens, c \in Tracked : Amount(ChainPlaces(t), c) = SumOver(metrics, ChainPlaces(t), c)
  BY <1>2, PlacesCompared, PlacesFinite
<1>6. {"Requests", "AuthFailed"} \subseteq Tracked =>
        metrics[Global]["Requests"] =
          SumOver(metrics, TokenPlaces, "Requests") + metrics[Global]["AuthFailed"]
  BY <1>3, <1>4, <1>5 DEF Balanced
<1>7. ASSUME NEW c \in Tracked \intersect CallCounters
      PROVE  /\ metrics[Global][c] = SumOver(metrics, TokenPlaces, c)
             /\ \A t \in Tokens : metrics[Of(t)][c] = SumOver(metrics, ChainPlaces(t), c)
  <2>1. /\ Amount({Global}, c) = Amount(TokenPlaces, c)
        /\ \A t \in Tokens : Amount({Of(t)}, c) = Amount(ChainPlaces(t), c)
    BY DEF Balanced
  <2>2. Amount({Global}, c) = metrics[Global][c] /\ Amount(TokenPlaces, c) = SumOver(metrics, TokenPlaces, c)
    BY <1>3, <1>4, <1>5
  <2>3. ASSUME NEW t \in Tokens PROVE metrics[Of(t)][c] = SumOver(metrics, ChainPlaces(t), c)
    <3>1. Amount({Of(t)}, c) = metrics[Of(t)][c]
      BY <1>3, <1>4
    <3>2. Amount(ChainPlaces(t), c) = SumOver(metrics, ChainPlaces(t), c)
      BY <1>5
    <3> QED
      BY <2>1, <3>1, <3>2
  <2> QED
    BY <2>1, <2>2, <2>3
<1>8. ASSUME CallCounters \subseteq Tracked, NEW p \in Places
      PROVE  metrics[p]["SuccessCalls"] = metrics[p]["BillableCalls"] + metrics[p]["FreeCalls"]
  <2>1. "SuccessCalls" \in Tracked /\ "BillableCalls" \in Tracked /\ "FreeCalls" \in Tracked
    BY <1>8 DEF CallCounters
  <2> QED
    BY <1>3, <1>8, <2>1 DEF Balanced
<1> QED
  BY <1>6, <1>7, <1>8 DEF CountsAgreeAtRest, CallCounters

----------------------------------------------------------------------------
(* Totals that are first *)

Aheads(c) == [r \in Recorders |-> Ahead(todo[r], c)]

LEMMA AheadsType ==
  ASSUME NEW c
  PROVE  /\ StatsTyped => [r \in Recorders |-> Ahead(todo[r], c)] \in [Recorders -> Nat]
         /\ StatsTyped' => [r \in Recorders |-> Ahead(todo'[r], c)] \in [Recorders -> Nat]
<1>1. ASSUME StatsTyped PROVE \A r \in Recorders : Ahead(todo[r], c) \in Nat
  <2>1. \A r \in Recorders : todo[r] \subseteq Steps
    BY <1>1, TypedAs DEF WellTyped
  <2> QED
    BY <2>1, DueType
<1>2. ASSUME StatsTyped' PROVE \A r \in Recorders : Ahead(todo'[r], c) \in Nat
  <2>1. \A r \in Recorders : todo'[r] \subseteq Steps
    BY <1>2 DEF StatsTyped, StatsTypeOK
  <2> QED
    BY <2>1, DueType
<1> QED
  BY <1>1, <1>2

\* Who adds to a total is ahead by no more; who adds to a token was ahead by as much.
LEMMA AheadAdded ==
  ASSUME NEW S, Once(S), Ordered(S), S \subseteq Steps, NEW s \in S, s.op = "add",
         \A o \in S : s.line <= o.line, NEW c
  PROVE  /\ s.at = Global /\ s.counter = c => Ahead(S, c) = 0 /\ Ahead(S \ {s}, c) <= s.n
         /\ s.at \in TokenPlaces /\ s.counter = c => Ahead(S, c) = s.n /\ Ahead(S \ {s}, c) = 0
         /\ s.counter # c \/ s.at \notin TokenPlaces \union {Global} => Ahead(S \ {s}, c) = Ahead(S, c)
<1>1. s.n \in Nat /\ s.line \in Nat /\ \A o \in S : o.line \in Nat
  BY DEF Steps
<1>2. Global \notin TokenPlaces
  <2>1. \A u : Global # Of(u)
    BY PlaceFacts
  <2> QED
    BY <2>1, PlaceSets
<1>3. ASSUME s.at = Global, s.counter = c PROVE Ahead(S, c) = 0 /\ Ahead(S \ {s}, c) <= s.n
  <2>1. s \in Match(S, {Global}, c)
    BY <1>3 DEF Match
  <2>2. Match(S \ {s}, {Global}, c) = {}
    <3>1. Match(S, {Global}, c) = {s}
      BY <2>1, DueOfOne, LevelFacts
    <3> QED
      BY <3>1 DEF Match
  <2>3. Ahead(S, c) = 0 /\ Ahead(S \ {s}, c) = Due(S \ {s}, TokenPlaces, c)
    BY <2>1, <2>2 DEF Ahead
  <2>4. CASE Match(S \ {s}, TokenPlaces, c) = {}
    BY <1>1, <2>3, <2>4, DueOfNone
  <2>5. CASE Match(S \ {s}, TokenPlaces, c) # {}
    <3>1. PICK u : u \in Match(S \ {s}, TokenPlaces, c)
      BY <2>5
    <3>2. Once(S \ {s})
      BY DEF Once
    <3>3. Due(S \ {s}, TokenPlaces, c) = u.n
      BY <3>1, <3>2, DueOfOne, LevelFacts
    <3>4. s.n = u.n
      BY <1>3, <3>1 DEF Ordered, Match
    <3> QED
      BY <1>1, <2>3, <3>3, <3>4
  <2> QED
    BY <2>4, <2>5
<1>4. ASSUME s.at \in TokenPlaces, s.counter = c PROVE Ahead(S, c) = s.n /\ Ahead(S \ {s}, c) = 0
  <2>1. s \in Match(S, TokenPlaces, c)
    BY <1>4 DEF Match
  <2>2. Match(S, {Global}, c) = {}
    <3>1. ASSUME NEW u \in Match(S, {Global}, c) PROVE FALSE
      <4>1. u \in S /\ u.line < s.line
        BY <1>4, <3>1 DEF Ordered, Match
      <4> QED
        BY <1>1, <4>1
    <3> QED
      BY <3>1
  <2>3. Match(S, TokenPlaces, c) = {s} /\ Due(S, TokenPlaces, c) = s.n
    BY <2>1, DueOfOne, LevelFacts
  <2>4. Match(S \ {s}, TokenPlaces, c) = {} /\ Match(S \ {s}, {Global}, c) = {}
    BY <2>2, <2>3 DEF Match
  <2> QED
    BY <2>2, <2>3, <2>4, DueOfNone DEF Ahead
<1>5. ASSUME s.counter # c \/ s.at \notin TokenPlaces \union {Global}
      PROVE  Ahead(S \ {s}, c) = Ahead(S, c)
  <2>1. /\ Match(S \ {s}, TokenPlaces, c) = Match(S, TokenPlaces, c)
        /\ Match(S \ {s}, {Global}, c) = Match(S, {Global}, c)
    BY <1>5 DEF Match
  <2> QED
    BY <2>1 DEF Ahead, Due
<1> QED
  BY <1>3, <1>4, <1>5

LEMMA GlobalFirstInit == StatsInit => GlobalFirst
<1> SUFFICES ASSUME StatsInit, NEW c \in Tracked
             PROVE  SumOver(metrics, TokenPlaces, c) + Total([r \in Recorders |-> Ahead(todo[r], c)])
                      <= metrics[Global][c]
  BY DEF GlobalFirst
<1>1. SumOver(metrics, TokenPlaces, c) = 0
  <2> DEFINE f == [p \in TokenPlaces |-> metrics[p][c]]
  <2>1. \A p \in DOMAIN f : f[p] = 0
    BY PlaceSets DEF StatsInit, Zeros
  <2> HIDE DEF f
  <2>2. Total(f) = 0
    BY <2>1, TotalOfNothing
  <2> QED
    BY <2>2 DEF f, SumOver
<1>2. Total([r \in Recorders |-> Ahead(todo[r], c)]) = 0
  <2> DEFINE f == [r \in Recorders |-> Ahead(todo[r], c)]
  <2>1. \A r \in DOMAIN f : f[r] = 0
    BY AheadAtStart DEF StatsInit
  <2> HIDE DEF f
  <2>2. Total(f) = 0
    BY <2>1, TotalOfNothing
  <2> QED
    BY <2>2 DEF f
<1>3. metrics[Global][c] = 0
  BY PlaceFacts DEF StatsInit, Zeros
<1> QED
  BY <1>1, <1>2, <1>3

LEMMA GlobalFirstNext ==
  ASSUME StatsTyped, StatsTyped', Queued, GlobalFirst, [StatsNext]_statsVars
  PROVE  GlobalFirst'
<1> SUFFICES ASSUME NEW c \in Tracked
             PROVE  SumOver(metrics', TokenPlaces, c) + Total([r \in Recorders |-> Ahead(todo'[r], c)])
                      <= metrics'[Global][c]
  BY DEF GlobalFirst
<1> DEFINE F == [r \in Recorders |-> Ahead(todo[r], c)]
           G == [r \in Recorders |-> Ahead(todo'[r], c)]
<1>1. F \in [Recorders -> Nat] /\ G \in [Recorders -> Nat]
  BY AheadsType
<1>2. SumOver(metrics, TokenPlaces, c) + Total(F) <= metrics[Global][c]
  BY DEF GlobalFirst
<1>3. metrics \in [Places -> [Tracked -> Nat]] /\ metrics' \in [Places -> [Tracked -> Nat]]
  BY DEF StatsTyped, StatsTypeOK
<1>4. metrics[Global][c] \in Nat
  BY <1>3, PlaceFacts
<1>5. \A r \in Recorders : F[r] = Ahead(todo[r], c) /\ G[r] = Ahead(todo'[r], c)
  OBVIOUS
<1> HIDE DEF F, G
<1>6. ASSUME NEW r \in Recorders, Call(r)
      PROVE  SumOver(metrics', TokenPlaces, c) + Total(G) <= metrics'[Global][c]
  <2>1. PICK X : /\ Shaped(X) /\ todo[r] = {} /\ todo'[r] = Kept(X) /\ metrics' = metrics
                 /\ \A q \in Recorders \ {r} : todo'[q] = todo[q]
    BY <1>6, CallStep
  <2>2. F[r] = 0
    BY <1>5, <2>1, AheadAtStart
  <2>3. G[r] = 0
    <3>1. Ahead(Kept(X), c) = Ahead(X, c)
      BY KeptFacts DEF Ahead, Due
    <3> QED
      BY <1>5, <2>1, <3>1, AheadAtStart
  <2>4. \A q \in Recorders : F[q] = G[q]
    BY <1>5, <2>1, <2>2, <2>3
  <2>5. F = G
    BY <1>1, <2>4
  <2> QED
    BY <1>2, <2>1, <2>5
<1>7. ASSUME NEW r \in Recorders, Add(r)
      PROVE  SumOver(metrics', TokenPlaces, c) + Total(G) <= metrics'[Global][c]
  <2>1. PICK s \in todo[r] :
          /\ s.op = "add" /\ \A o \in todo[r] : s.line <= o.line
          /\ s.at \in Places /\ s.counter \in Tracked /\ s.n \in Nat
          /\ todo'[r] = todo[r] \ {s} /\ \A q \in Recorders \ {r} : todo'[q] = todo[q]
          /\ metrics'[s.at][s.counter] = metrics[s.at][s.counter] + s.n
          /\ \A p \in Places, d \in Tracked :
               p # s.at \/ d # s.counter => metrics'[p][d] = metrics[p][d]
    BY <1>7, AddStep
  <2>2. Raised(metrics, metrics', s.at, s.counter, s.n)
    BY <1>3, <2>1 DEF Raised
  <2>3. /\ SumOver(metrics, TokenPlaces, c) \in Nat /\ SumOver(metrics', TokenPlaces, c) \in Nat
        /\ s.at \in TokenPlaces /\ c = s.counter
             => SumOver(metrics', TokenPlaces, c) = SumOver(metrics, TokenPlaces, c) + s.n
        /\ s.at \notin TokenPlaces \/ c # s.counter
             => SumOver(metrics', TokenPlaces, c) = SumOver(metrics, TokenPlaces, c)
    BY <2>2, SumAfterAdd, PlacesCompared, PlacesFinite
  <2>4. Once(todo[r]) /\ Ordered(todo[r]) /\ todo[r] \subseteq Steps
    BY TypedAs DEF Queued, WellTyped
  <2>5. /\ s.at = Global /\ s.counter = c => F[r] = 0 /\ G[r] <= s.n
        /\ s.at \in TokenPlaces /\ s.counter = c => F[r] = s.n /\ G[r] = 0
        /\ s.counter # c \/ s.at \notin TokenPlaces \union {Global} => G[r] = F[r]
    BY <1>5, <2>1, <2>4, AheadAdded
  <2>6. \A q \in Recorders \ {r} : F[q] = G[q]
    BY <1>5, <2>1
  <2>7. Total(F) \in Nat /\ Total(G) \in Nat /\ Total(G) = Total(F) - F[r] + G[r]
    BY <1>1, <2>6, DueAfter
  <2>8. F[r] \in Nat /\ G[r] \in Nat /\ s.n \in Nat
    BY <1>1, <2>1
  <2>9. Global \notin TokenPlaces /\ Global \in Places
    <3>1. \A u : Global # Of(u)
      BY PlaceFacts
    <3> QED
      BY <3>1, PlaceSets, PlaceFacts
  <2>10. CASE s.at = Global /\ s.counter = c
    <3>1. metrics'[Global][c] = metrics[Global][c] + s.n
      BY <2>1, <2>10
    <3> QED
      BY <1>2, <1>4, <2>3, <2>5, <2>7, <2>8, <2>9, <2>10, <3>1
  <2>11. CASE s.at \in TokenPlaces /\ s.counter = c
    <3>1. metrics'[Global][c] = metrics[Global][c]
      BY <2>1, <2>9, <2>11
    <3> QED
      BY <1>2, <1>4, <2>3, <2>5, <2>7, <2>8, <2>11, <3>1
  <2>12. CASE s.counter # c \/ s.at \notin TokenPlaces \union {Global}
    <3>1. metrics'[Global][c] = metrics[Global][c]
      BY <2>1, <2>9, <2>12
    <3> QED
      BY <1>2, <1>4, <2>3, <2>5, <2>7, <2>8, <2>12, <3>1
  <2> QED
    BY <2>10, <2>11, <2>12
<1>8. ASSUME Quiet
      PROVE  SumOver(metrics', TokenPlaces, c) + Total(G) <= metrics'[Global][c]
  <2>1. \A r \in Recorders : F[r] = G[r]
    BY <1>5, <1>8, AddingFacts DEF Quiet
  <2>2. F = G
    BY <1>1, <2>1
  <2> QED
    BY <1>2, <1>8, <2>2 DEF Quiet
<1> QED
  BY <1>6, <1>7, <1>8, Kinds DEF G

----------------------------------------------------------------------------
(* What a snapshot shows *)

LEMMA LockFacts ==
  /\ Locking.line = 285 /\ Locking.op = "rlock" /\ Locking.at = Global
  /\ Unlocking.line = 319 /\ Unlocking.op = "runlock" /\ Unlocking.at = Global
BY StepFields DEF Locking, Unlocking

LEMMA BehindNext ==
  ASSUME StatsTyped, StatsTyped', Behind, [StatsNext]_statsVars
  PROVE  Behind'
<1>1. /\ metrics \in [Places -> [Tracked -> Nat]] /\ metrics' \in [Places -> [Tracked -> Nat]]
      /\ view \in [Places -> [Tracked -> Nat]]
  BY DEF StatsTyped, StatsTypeOK
<1>2. \A p \in Places, c \in Tracked : metrics[p][c] <= metrics'[p][c]
  <2>1. ASSUME NEW r \in Recorders, Add(r), NEW p \in Places, NEW c \in Tracked
        PROVE  metrics[p][c] <= metrics'[p][c]
    <3>1. PICK s \in todo[r] :
            /\ s.n \in Nat /\ metrics'[s.at][s.counter] = metrics[s.at][s.counter] + s.n
            /\ \A q \in Places, d \in Tracked :
                 q # s.at \/ d # s.counter => metrics'[q][d] = metrics[q][d]
      BY <2>1, AddStep
    <3>2. metrics[p][c] \in Nat
      BY <1>1
    <3> QED
      BY <3>1, <3>2
  <2>2. ASSUME metrics' = metrics, NEW p \in Places, NEW c \in Tracked
        PROVE  metrics[p][c] <= metrics'[p][c]
    <3>1. metrics[p][c] \in Nat
      BY <1>1
    <3> QED
      BY <2>2, <3>1
  <2> QED
    BY <2>1, <2>2, Kinds DEF Quiet, Call
<1>3. CASE view' = view
  <2>1. \A p \in Places, c \in Tracked : /\ view[p][c] \in Nat /\ metrics[p][c] \in Nat
                                         /\ metrics'[p][c] \in Nat
    BY <1>1
  <2> QED
    BY <1>2, <1>3, <2>1 DEF Behind
<1>4. CASE BeginSnapshot
  <2>1. \A p \in Places, c \in Tracked : view'[p][c] = 0 /\ metrics'[p][c] \in Nat
    BY <1>1, <1>4 DEF BeginSnapshot, Zeros
  <2> QED
    BY <2>1 DEF Behind
<1>5. CASE Read
  <2>1. PICK s \in Ready(Viewer, "read") :
          /\ view' = [view EXCEPT ![s.at][s.counter] = metrics[s.at][s.counter]] /\ metrics' = metrics
    BY <1>5 DEF Read
  <2>2. s.at \in Places /\ s.counter \in Tracked
    BY TypedAs DEF Ready, WellTyped, Steps
  <2>3. ASSUME NEW p \in Places, NEW c \in Tracked PROVE view'[p][c] <= metrics'[p][c]
    <3>1. metrics[p][c] \in Nat /\ view[p][c] \in Nat /\ view[p][c] <= metrics[p][c]
      BY <1>1 DEF Behind
    <3>2. view'[p][c] = IF p = s.at /\ c = s.counter THEN metrics[p][c] ELSE view[p][c]
      BY <1>1, <2>1, <2>2
    <3> QED
      BY <2>1, <3>1, <3>2
  <2> QED
    BY <2>3 DEF Behind
<1>6. view' = view \/ BeginSnapshot \/ Read
  BY DEF StatsNext, Snapshot, Ensure, Call, Add, FindToken, RefreshMeta, CreateToken, RLock,
    VisitToken, VisitChain, VisitTotal, Visit, RUnlock, statsVars
<1> QED
  BY <1>3, <1>4, <1>5, <1>6

\* The tokens as they were read are behind the totals as they are.
LEMMA TokensBehindTotals ==
  ASSUME StatsTyped, GlobalFirst, Behind, NEW c \in Tracked
  PROVE  SumOver(view, TokenPlaces, c) <= metrics[Global][c]
<1>1. /\ Counts(view, TokenPlaces, c) \in [TokenPlaces -> Nat]
      /\ Counts(metrics, TokenPlaces, c) \in [TokenPlaces -> Nat]
  BY CountsType, PlacesCompared, TypedAs
<1>2. \A p \in TokenPlaces : Counts(view, TokenPlaces, c)[p] <= Counts(metrics, TokenPlaces, c)[p]
  BY PlacesCompared DEF Counts, Behind
<1>3. IsFiniteSet(TokenPlaces) /\ IsFiniteSet(Recorders)
  BY PlacesFinite, StatsAssumption
<1>4. Total(Counts(view, TokenPlaces, c)) <= Total(Counts(metrics, TokenPlaces, c))
  BY <1>1, <1>2, <1>3, TotalGrows
<1>5. /\ SumOver(view, TokenPlaces, c) = Total(Counts(view, TokenPlaces, c))
      /\ SumOver(metrics, TokenPlaces, c) = Total(Counts(metrics, TokenPlaces, c))
  BY DEF SumOver, Counts
<1>6. SumOver(view, TokenPlaces, c) \in Nat /\ SumOver(metrics, TokenPlaces, c) \in Nat
  BY <1>1, <1>3, <1>5, TotalType
<1>7. Total([r \in Recorders |-> Ahead(todo[r], c)]) \in Nat
  <2>1. [r \in Recorders |-> Ahead(todo[r], c)] \in [Recorders -> Nat]
    BY AheadsType
  <2> QED
    BY <1>3, <2>1, TotalType
<1>8. metrics[Global][c] \in Nat
  BY TypedAs, PlaceFacts
<1>9. SumOver(metrics, TokenPlaces, c) + Total([r \in Recorders |-> Ahead(todo[r], c)]) <= metrics[Global][c]
  BY DEF GlobalFirst
<1> QED
  BY <1>4, <1>5, <1>6, <1>7, <1>8, <1>9

LEMMA ShownZeros == ASSUME view = Zeros, NEW c \in Tracked PROVE Shown(c)
<1> DEFINE f == [p \in TokenPlaces |-> view[p][c]]
<1>1. \A p \in DOMAIN f : f[p] = 0
  BY PlaceSets DEF Zeros
<1> HIDE DEF f
<1>2. Total(f) = 0
  BY <1>1, TotalOfNothing
<1>3. view[Global][c] = 0
  BY PlaceFacts DEF Zeros
<1> QED
  BY <1>2, <1>3 DEF f, Shown, SumOver

LEMMA ViewingInit == StatsInit => Viewing
<1> SUFFICES ASSUME StatsInit PROVE Viewing
  OBVIOUS
<1>1. \A c \in Tracked : Shown(c)
  BY ShownZeros DEF StatsInit
<1> QED
  BY <1>1 DEF Viewing, StatsInit

\* What a snapshot shows does not change unless it reads.
LEMMA ViewingSame ==
  ASSUME Viewing, todo'[Viewer] = todo[Viewer], reading' = reading, view' = view
  PROVE  Viewing'
<1>1. \A c : Shown(c)' <=> Shown(c)
  BY DEF Shown
<1> QED
  BY <1>1 DEF Viewing

LEMMA ViewingNext ==
  ASSUME StatsTyped, StatsTyped', GlobalFirst, Behind, Viewing, [StatsNext]_statsVars
  PROVE  Viewing'
<1>1. \A c : view' = view => (Shown(c)' <=> Shown(c))
  BY DEF Shown
<1>2. /\ Viewer \notin Recorders
      /\ \A g \in Recorders \union {Viewer} : \A S :
           /\ todo' = [todo EXCEPT ![g] = S]
                => todo'[g] = S /\ \A q \in (Recorders \union {Viewer}) \ {g} : todo'[q] = todo[q]
           /\ \A s : Continue(g, s, S)
                => /\ todo'[g] = (todo[g] \ {s}) \union S
                   /\ \A q \in (Recorders \union {Viewer}) \ {g} : todo'[q] = todo[q]
  BY StatsAssumption, TypedAs DEF Continue
<1>3. ASSUME NEW r \in Recorders, Call(r) \/ Add(r) \/ Ensure(r) PROVE Viewing'
  <2>1. todo'[Viewer] = todo[Viewer] /\ reading' = reading /\ view' = view
    BY <1>2, <1>3 DEF Call, Add, Ensure, FindToken, RefreshMeta, CreateToken
  <2> QED
    BY <2>1, ViewingSame
<1>4. CASE Ensure(Viewer)
  <2>1. PICK s, S :
          /\ s \in todo[Viewer]
          /\ s.op \in {"ensure", "refresh", "create"} /\ Continue(Viewer, s, S)
          /\ \A u \in S : u.op \in {"refresh", "create"} /\ u.line < 285
          /\ reading' = reading /\ view' = view
    <3>1. CASE FindToken(Viewer)
      <4>1. PICK s \in Ready(Viewer, "ensure") :
              /\ Continue(Viewer, s, {IF Head(s.at) \in known THEN Step(127, "refresh", s.at, "-", 0)
                                                              ELSE Step(132, "create", s.at, "-", 0)})
              /\ reading' = reading /\ view' = view
        BY <3>1 DEF FindToken
      <4> DEFINE R == {Step(127, "refresh", s.at, "-", 0)}
                 C == {Step(132, "create", s.at, "-", 0)}
      <4>2. /\ \A u \in R : u.op \in {"refresh", "create"} /\ u.line < 285
            /\ \A u \in C : u.op \in {"refresh", "create"} /\ u.line < 285
        BY StepFields
      <4>3. Continue(Viewer, s, R) \/ Continue(Viewer, s, C)
        BY <4>1
      <4> HIDE DEF R, C
      <4>4. s \in todo[Viewer] /\ s.op \in {"ensure", "refresh", "create"}
        BY DEF Ready
      <4> QED
        BY <4>1, <4>2, <4>3, <4>4
    <3>2. CASE RefreshMeta(Viewer) \/ CreateToken(Viewer)
      <4>1. PICK s \in todo[Viewer] :
              /\ s.op \in {"ensure", "refresh", "create"} /\ Continue(Viewer, s, {})
              /\ reading' = reading /\ view' = view
        BY <3>2 DEF RefreshMeta, CreateToken, Ready
      <4>2. \A u \in {} : u.op \in {"refresh", "create"} /\ u.line < 285
        OBVIOUS
      <4> QED
        BY <4>1, <4>2
    <3> QED
      BY <1>4, <3>1, <3>2 DEF Ensure
  <2>2. ~reading
    BY <2>1, LockFacts DEF Viewing
  <2>3. todo'[Viewer] = (todo[Viewer] \ {s}) \union S
    BY <1>2, <2>1
  <2>4. \A u \in todo'[Viewer] :
          u = Locking \/ (u.op \in {"ensure", "refresh", "create"} /\ u.line < Locking.line)
    BY <2>1, <2>2, <2>3, LockFacts DEF Viewing
  <2>5. \A c \in Tracked : Shown(c)'
    BY <1>1, <2>1, <2>2 DEF Viewing
  <2> QED
    BY <2>1, <2>2, <2>4, <2>5, LockFacts DEF Viewing, Locking
<1>5. CASE BeginSnapshot
  <2>1. /\ ~reading' /\ view' = Zeros
        /\ todo'[Viewer] = (UNION {EnsureToken(282, t) : t \in Listed}) \union {Locking}
    BY <1>2, <1>5 DEF BeginSnapshot, Locking
  <2>2. \A t, u : u \in EnsureToken(282, t) => u.op = "ensure" /\ u.line = 282
    BY StepFields DEF EnsureToken
  <2>3. \A u \in todo'[Viewer] : u = Locking \/ (u.op = "ensure" /\ u.line = 282)
    BY <2>1, <2>2
  <2>4. ASSUME NEW c \in Tracked PROVE Shown(c)'
    <3> DEFINE f == [p \in TokenPlaces |-> view'[p][c]]
    <3>1. \A p \in DOMAIN f : f[p] = 0
      BY <2>1, PlaceSets DEF Zeros
    <3> HIDE DEF f
    <3>2. Total(f) = 0
      BY <3>1, TotalOfNothing
    <3>3. view'[Global][c] = 0
      BY <2>1, PlaceFacts DEF Zeros
    <3> QED
      BY <3>2, <3>3 DEF f, Shown, SumOver
  <2> QED
    BY <2>1, <2>3, <2>4, LockFacts DEF Viewing, Locking
<1>6. CASE RLock
  <2>1. PICK s \in Ready(Viewer, "rlock") : reading' = TRUE /\ Continue(Viewer, s, {})
    BY <1>6 DEF RLock
  <2>2. s \in todo[Viewer] /\ s.op = "rlock" /\ \A o \in todo[Viewer] : s.line <= o.line
    BY DEF Ready
  <2>3. ~reading
    BY <2>2, LockFacts DEF Viewing
  <2>4. s = Locking
    BY <2>2, <2>3 DEF Viewing
  <2>5. \A o \in todo[Viewer] : o.line \in Nat
    BY TypedAs DEF WellTyped, Steps
  <2>6. todo[Viewer] \ {s} = {}
    <3>1. ASSUME NEW o \in todo[Viewer], o # Locking PROVE FALSE
      <4>1. o.line < Locking.line /\ Locking.line <= o.line
        BY <2>2, <2>3, <2>4, <3>1 DEF Viewing
      <4> QED
        BY <2>5, <4>1, LockFacts
    <3> QED
      BY <2>4, <3>1
  <2>7. todo'[Viewer] = {}
    BY <1>2, <2>1, <2>6
  <2> QED
    BY <2>1, <2>7 DEF Viewing
<1>7. ASSUME NEW p \in Places, Visit(Reads(p)) PROVE Viewing'
  <2>1. reading' = TRUE /\ todo'[Viewer] = Reads(p)
    BY <1>2, <1>7, TypedAs DEF Visit
  <2>2. \A s \in Reads(p) : s.op = "read" /\ s.line < Unlocking.line
    BY ReadsFacts
  <2>3. Unlocking \notin Reads(p)
    BY <2>2, LockFacts
  <2> QED
    BY <2>1, <2>2, <2>3 DEF Viewing, Unlocking
<1>8. CASE VisitToken \/ VisitChain
  BY <1>7, <1>8, PlaceSets, TypedAs DEF VisitToken, VisitChain
<1>9. CASE VisitTotal
  <2>1. reading' = TRUE /\ todo'[Viewer] = Reads(Global) \union {Unlocking}
    BY <1>2, <1>9, TypedAs DEF VisitTotal, Visit, Unlocking
  <2>2. /\ \A s \in Reads(Global) : s.op = "read" /\ s.line < Unlocking.line /\ s.at = Global
        /\ \A c \in Tracked : \E s \in Reads(Global) : s.op = "read" /\ s.counter = c
    BY ReadsFacts, PlaceFacts
  <2> QED
    BY <2>1, <2>2, LockFacts DEF Viewing, Unlocking
<1>10. CASE Read
  <2>1. PICK s \in Ready(Viewer, "read") :
          /\ view' = [view EXCEPT ![s.at][s.counter] = metrics[s.at][s.counter]]
          /\ Continue(Viewer, s, {}) /\ reading' = reading /\ metrics' = metrics
    BY <1>10 DEF Read
  <2>2. s \in todo[Viewer] /\ s.op = "read" /\ s.at \in Places /\ s.counter \in Tracked
    BY TypedAs DEF Ready, WellTyped, Steps
  <2>3. reading
    BY <2>2, LockFacts DEF Viewing
  <2>4. todo'[Viewer] = todo[Viewer] \ {s}
    <3>1. todo'[Viewer] = (todo[Viewer] \ {s}) \union {}
      BY ONLY <1>2, <2>1
    <3> QED
      BY <3>1
  <2>5. \A u \in todo'[Viewer] : u = Unlocking \/ (u.op = "read" /\ u.line < Unlocking.line)
    BY <2>3, <2>4 DEF Viewing
  <2>6. ASSUME Unlocking \in todo'[Viewer]
        PROVE  /\ \A u \in todo'[Viewer] : u.at = Global
               /\ \A c \in Tracked : Shown(c)' \/ \E u \in todo'[Viewer] : u.op = "read" /\ u.counter = c
    <3>1. /\ \A u \in todo[Viewer] : u.at = Global
          /\ \A c \in Tracked : Shown(c) \/ \E u \in todo[Viewer] : u.op = "read" /\ u.counter = c
      BY <2>3, <2>4, <2>6 DEF Viewing
    <3>2. s.at = Global
      BY <2>2, <3>1
    <3>3. view \in [Places -> [Tracked -> Nat]]
      BY TypedAs
    <3>4. /\ \A p \in TokenPlaces : view'[p] = view[p]
          /\ \A c \in Tracked : view'[Global][c] = IF c = s.counter THEN metrics[Global][c]
                                                                    ELSE view[Global][c]
      <4>1. \A p \in TokenPlaces : p \in Places /\ p # Global
        <5>1. \A u : Global # Of(u)
          BY PlaceFacts
        <5> QED
          BY <5>1, PlaceSets
      <4> QED
        BY <2>1, <2>2, <3>2, <3>3, <4>1
    <3>5. \A c : SumOver(view', TokenPlaces, c) = SumOver(view, TokenPlaces, c)
      <4>1. \A c : [p \in TokenPlaces |-> view'[p][c]] = [p \in TokenPlaces |-> view[p][c]]
        BY <3>4
      <4> QED
        BY <4>1 DEF SumOver
    <3>6. Shown(s.counter)'
      <4>1. SumOver(view, TokenPlaces, s.counter) <= metrics[Global][s.counter]
        BY <2>2, TokensBehindTotals
      <4>2. SumOver(view', TokenPlaces, s.counter) <= view'[Global][s.counter]
        BY <2>2, <3>4, <3>5, <4>1
      <4> QED
        BY <4>2 DEF Shown
    <3>7. ASSUME NEW c \in Tracked, c # s.counter
          PROVE  Shown(c)' \/ \E u \in todo'[Viewer] : u.op = "read" /\ u.counter = c
      <4>1. CASE Shown(c)
        <5>1. SumOver(view', TokenPlaces, c) <= view'[Global][c]
          BY <3>4, <3>5, <3>7, <4>1 DEF Shown
        <5> QED
          BY <5>1 DEF Shown
      <4>2. CASE \E u \in todo[Viewer] : u.op = "read" /\ u.counter = c
        BY <2>4, <3>7, <4>2
      <4> QED
        BY <3>1, <4>1, <4>2
    <3>8. \A u \in todo'[Viewer] : u.at = Global
      BY <2>4, <3>1
    <3>9. ASSUME NEW c \in Tracked
          PROVE  Shown(c)' \/ \E u \in todo'[Viewer] : u.op = "read" /\ u.counter = c
      <4>1. CASE c = s.counter
        BY <3>6, <4>1
      <4>2. CASE c # s.counter
        BY <3>7, <4>2
      <4> QED
        BY <4>1, <4>2
    <3> QED
      BY <3>8, <3>9
  <2> QED
    BY <2>1, <2>3, <2>5, <2>6 DEF Viewing, Unlocking
<1>11. CASE RUnlock
  <2>1. PICK s \in Ready(Viewer, "runlock") :
          reading' = FALSE /\ Continue(Viewer, s, {}) /\ view' = view
    BY <1>11 DEF RUnlock
  <2>2. s \in todo[Viewer] /\ s.op = "runlock" /\ \A o \in todo[Viewer] : s.line <= o.line
    BY DEF Ready
  <2>3. reading
    BY <2>2, LockFacts DEF Viewing
  <2>4. s = Unlocking
    BY <2>2, <2>3 DEF Viewing
  <2>5. \A o \in todo[Viewer] : o.line \in Nat
    BY TypedAs DEF WellTyped, Steps
  <2>6. \A o \in todo[Viewer] : o = Unlocking
    <3>1. ASSUME NEW o \in todo[Viewer], o # Unlocking PROVE FALSE
      <4>1. o.line < Unlocking.line /\ Unlocking.line <= o.line
        BY <2>2, <2>3, <2>4, <3>1 DEF Viewing
      <4> QED
        BY <2>5, <4>1, LockFacts
    <3> QED
      BY <3>1
  <2>7. todo'[Viewer] = {}
    BY <1>2, <2>1, <2>4, <2>6
  <2>8. \A c \in Tracked : Shown(c)
    BY <2>2, <2>3, <2>4, <2>6, LockFacts DEF Viewing
  <2>9. \A c \in Tracked : Shown(c)'
    BY <1>1, <2>1, <2>8
  <2> QED
    BY <2>1, <2>7, <2>9 DEF Viewing
<1>12. CASE UNCHANGED statsVars
  BY <1>12, ViewingSame DEF statsVars
<1> QED
  BY <1>3, <1>4, <1>5, <1>6, <1>8, <1>9, <1>10, <1>11, <1>12 DEF StatsNext, Snapshot

----------------------------------------------------------------------------
(* Theorems *)

LEMMA StatsInvInductive == StatsSpec => []StatsInv
<1>1. StatsInit => StatsInv
  <2>1. StatsInit => Queued
    BY DEF StatsInit, Queued, Once, Ordered
  <2>2. StatsInit => Behind
    BY DEF StatsInit, Behind, Zeros
  <2> QED
    BY <2>1, <2>2, TypedInit, BalancedInit, GlobalFirstInit, ViewingInit DEF StatsInv
<1>2. StatsInv /\ [StatsNext]_statsVars => StatsInv'
  <2> SUFFICES ASSUME StatsInv, [StatsNext]_statsVars PROVE StatsInv'
    OBVIOUS
  <2>1. StatsTyped /\ Queued /\ Balanced /\ GlobalFirst /\ Behind /\ Viewing
    BY DEF StatsInv
  <2>2. StatsTyped'
    BY <2>1, TypedNext
  <2>3. Queued' /\ Balanced' /\ GlobalFirst' /\ Behind' /\ Viewing'
    BY <2>1, <2>2, QueuedNext, BalancedNext, GlobalFirstNext, BehindNext, ViewingNext
  <2> QED
    BY <2>2, <2>3 DEF StatsInv
<1> QED
  BY <1>1, <1>2, PTL DEF StatsSpec

(***************************************************************************)
(* Every count is of the tokens known, the steps of a goroutine are of the *)
(* kinds collector.go has, and a snapshot comes to places that exist.      *)
(***************************************************************************)
THEOREM StatsTypeCorrect == StatsSpec => []StatsTypeOK
<1>1. StatsInv => StatsTypeOK
  BY DEF StatsInv, StatsTyped
<1> QED
  BY <1>1, StatsInvInductive, PTL

(***************************************************************************)
(* The totals of a snapshot cover the tokens it lists, though they are not *)
(* of one moment: Record and the Inc functions count globally first, and   *)
(* Snapshot reads the global counters last.                                *)
(***************************************************************************)
THEOREM SnapshotTotalsCover == StatsSpec => []TotalsCoverTokens
<1>1. StatsInv => TotalsCoverTokens
  BY DEF StatsInv, Viewing, Shown, TotalsCoverTokens
<1> QED
  BY <1>1, StatsInvInductive, PTL

(***************************************************************************)
(* No count is lost, not even when several requests create the state of a  *)
(* token together (ensureToken): at rest chains, tokens and totals agree.  *)
(***************************************************************************)
THEOREM NoCountIsLost == StatsSpec => []CountsAgreeAtRest
<1>1. StatsInv => CountsAgreeAtRest
  BY AgreeAtRest DEF StatsInv
<1> QED
  BY <1>1, StatsInvInductive, PTL
=============================================================================
