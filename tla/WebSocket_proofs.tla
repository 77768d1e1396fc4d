--------------------------- MODULE WebSocket_proofs ---------------------------
(***************************************************************************)
(* What holds of the WebSocket side, for any number of connections,        *)
(* tokens, requests and subscriptions: the slots of ConnGuard are          *)
(* accounted for and bounded, alone and behind the token store, and the    *)
(* two pumps of a session agree about pending, subs and subN.              *)
(***************************************************************************)
EXTENDS Sessions, WsSession, Sequences, FiniteSetTheorems, TLAPS

----------------------------------------------------------------------------
(* ConnGuard *)

GuardInv == TypeOK /\ SlotsAccounted /\ (MaxConns > 0 => \A t \in Tokens : count[t] <= MaxConns)

\* Finitely many goroutines hold slots of one token (slots taken by Acquire).
LEMMA HoldersFinite == \A t \in Tokens : IsFiniteSet(Holders(t))
<1> TAKE t \in Tokens
<1> QED
  BY GuardAssumption, FS_Subset, Holders(t) \subseteq Handlers DEF Holders

\* Before the first connection no slot is counted or held.
LEMMA GuardInit == Init => GuardInv
<1> SUFFICES ASSUME Init PROVE GuardInv
  OBVIOUS
<1>1. \A t \in Tokens : Holders(t) = {}
  BY DEF Init, Holders
<1> QED
  BY <1>1, FS_EmptySet, GuardAssumption DEF Init, GuardInv, TypeOK, SlotsAccounted

\* A step of h that neither takes nor gives back a slot.
LEMMA KeepsSlot ==
  ASSUME GuardInv, NEW h \in Handlers, NEW from, NEW to \in {"setup", "session", "return"},
         from # "idle", Goto(h, from, to), UNCHANGED count
  PROVE  GuardInv'
<1>1. TypeOK'
  BY DEF GuardInv, TypeOK, Goto
<1>2. \A t \in Tokens : Holders(t)' = Holders(t)
  BY DEF GuardInv, TypeOK, Goto, Holders
<1> QED
  BY <1>1, <1>2 DEF GuardInv, SlotsAccounted

\* Acquire counts the slot its goroutine takes, and counts none beyond the limit.
LEMMA AcquireInv == ASSUME GuardInv, NEW h \in Handlers, Acquire(h) PROVE GuardInv'
<1> DEFINE t == TokenOf[h]
<1>1. t \in Tokens /\ count' = [count EXCEPT ![t] = count[t] + 1]
      /\ pc[h] = "idle" /\ pc' = [pc EXCEPT ![h] = "setup"]
  BY GuardAssumption DEF Acquire, Goto
<1>2. TypeOK'
  BY <1>1 DEF GuardInv, TypeOK
<1>3. Holders(t)' = Holders(t) \union {h} /\ h \notin Holders(t)
  BY <1>1 DEF GuardInv, TypeOK, Holders
<1>4. \A u \in Tokens \ {t} : Holders(u)' = Holders(u)
  BY <1>1 DEF GuardInv, TypeOK, Holders
<1>5. Cardinality(Holders(t)') = Cardinality(Holders(t)) + 1
  BY <1>1, <1>3, HoldersFinite, FS_AddElement
<1>6. SlotsAccounted'
  BY <1>1, <1>4, <1>5 DEF GuardInv, SlotsAccounted, TypeOK
<1>7. MaxConns > 0 => \A u \in Tokens : count'[u] <= MaxConns
  BY <1>1, GuardAssumption DEF GuardInv, TypeOK, Acquire, Full
<1> QED
  BY <1>2, <1>6, <1>7 DEF GuardInv

\* Release uncounts the slot its goroutine gives back.
LEMMA ReleaseInv == ASSUME GuardInv, NEW h \in Handlers, Release(h) PROVE GuardInv'
<1> DEFINE t == TokenOf[h]
<1>1. t \in Tokens /\ count' = [count EXCEPT ![t] = IF count[t] > 0 THEN count[t] - 1 ELSE count[t]]
      /\ pc[h] = "return" /\ pc' = [pc EXCEPT ![h] = "idle"]
  BY GuardAssumption DEF Release, Goto
<1>2. TypeOK'
  BY <1>1 DEF GuardInv, TypeOK
<1>3. Holders(t)' = Holders(t) \ {h} /\ h \in Holders(t)
  BY <1>1 DEF GuardInv, TypeOK, Holders
<1>4. \A u \in Tokens \ {t} : Holders(u)' = Holders(u)
  BY <1>1 DEF GuardInv, TypeOK, Holders
<1>5. Cardinality(Holders(t)') = Cardinality(Holders(t)) - 1
  BY <1>1, <1>3, HoldersFinite, FS_RemoveElement
<1>6. Cardinality(Holders(t)) > 0
  BY <1>1, <1>3, HoldersFinite, FS_CardinalityType, FS_EmptySet
<1>7. SlotsAccounted'
  BY <1>1, <1>4, <1>5, <1>6 DEF GuardInv, SlotsAccounted, TypeOK
<1>8. MaxConns > 0 => \A u \in Tokens : count'[u] <= MaxConns
  BY <1>1, GuardAssumption DEF GuardInv, TypeOK
<1> QED
  BY <1>2, <1>7, <1>8 DEF GuardInv

\* Every way through ServeHTTP keeps the invariant.
LEMMA GuardStep == GuardInv /\ [Next]_vars => GuardInv'
<1> SUFFICES ASSUME GuardInv, [Next]_vars PROVE GuardInv'
  OBVIOUS
<1>1. ASSUME NEW h \in Handlers, Acquire(h) PROVE GuardInv'
  BY <1>1, AcquireInv
<1>2. ASSUME NEW h \in Handlers, Release(h) PROVE GuardInv'
  BY <1>2, ReleaseInv
<1>3. ASSUME NEW h \in Handlers, SetupFails(h) PROVE GuardInv'
  BY <1>3, KeepsSlot DEF SetupFails
<1>4. ASSUME NEW h \in Handlers, Establish(h) PROVE GuardInv'
  BY <1>4, KeepsSlot DEF Establish
<1>5. ASSUME NEW h \in Handlers, SessionOver(h) PROVE GuardInv'
  BY <1>5, KeepsSlot DEF SessionOver
<1>6. ASSUME UNCHANGED vars PROVE GuardInv'
  BY <1>6 DEF vars, GuardInv, TypeOK, SlotsAccounted, Holders
<1> QED
  BY <1>1, <1>2, <1>3, <1>4, <1>5, <1>6 DEF Next, Reject

(***************************************************************************)
(* Every counted slot belongs to exactly one goroutine between Acquire and *)
(* Release: ServeHTTP neither leaks a slot nor releases one twice.         *)
(***************************************************************************)
THEOREM SlotsAreAccounted == Spec => []SlotsAccounted
<1>1. GuardInv => SlotsAccounted
  BY DEF GuardInv
<1> QED
  BY <1>1, GuardInit, GuardStep, PTL DEF Spec

(***************************************************************************)
(* No token ever has more than MaxConns proxied connections.               *)
(***************************************************************************)
THEOREM ConnectionsAreBounded == Spec => []ConnectionsBounded
<1>1. GuardInv => ConnectionsBounded
  <2> SUFFICES ASSUME GuardInv, MaxConns > 0, NEW t \in Tokens
               PROVE  Cardinality({h \in Handlers : TokenOf[h] = t /\ pc[h] = "session"}) <= MaxConns
    BY DEF ConnectionsBounded
  <2> DEFINE Sessions == {h \in Handlers : TokenOf[h] = t /\ pc[h] = "session"}
  <2>1. Sessions \subseteq Holders(t)
    BY DEF Holders
  <2>2. /\ Cardinality(Sessions) <= Cardinality(Holders(t))
        /\ Cardinality(Sessions) \in Nat /\ Cardinality(Holders(t)) \in Nat
    BY <2>1, HoldersFinite, FS_Subset, FS_CardinalityType
  <2>3. Cardinality(Holders(t)) <= MaxConns
    BY DEF GuardInv, SlotsAccounted
  <2> QED
    BY <2>2, <2>3, GuardAssumption
<1> QED
  BY <1>1, GuardInit, GuardStep, PTL DEF Spec

----------------------------------------------------------------------------
(* Sessions: a step is a step of ConnGuard or leaves its state alone *)

\* What PathAuth and the store do does not touch the slots.
LEMMA SessionsStep == [SessionsNext]_allVars => [Next]_vars
<1> SUFFICES ASSUME [SessionsNext]_allVars PROVE [Next]_vars
  OBVIOUS
<1>1. CASE Beside(Store!Next) \/ UNCHANGED allVars
  BY <1>1 DEF Beside, allVars
<1>2. ASSUME NEW h \in Handlers, Serve(h) PROVE [Next]_vars
  <2>1. CASE Lookup(h)
    BY <2>1 DEF Lookup
  <2>2. CASE Enter(h) \/ TurnAway(h) \/ Proceed(h) \/ Leave(h)
    BY <2>2 DEF Enter, TurnAway, Proceed, Leave, Next
  <2> QED
    BY <1>2, <2>1, <2>2 DEF Serve
<1> QED
  BY <1>1, <1>2 DEF SessionsNext

\* Every behaviour of Sessions is one of ConnGuard.
LEMMA SessionsGuarded == SessionsSpec => Spec
<1>1. SessionsInit => Init
  BY DEF SessionsInit
<1> QED
  BY <1>1, SessionsStep, PTL DEF SessionsSpec, Spec

(***************************************************************************)
(* No way out of ServeHTTP leaks a slot or gives back another's, however   *)
(* the store changes between PathAuth and Acquire.                         *)
(***************************************************************************)
THEOREM SessionSlotsAccounted == SessionsSpec => []SlotsAccounted
BY SessionsGuarded, SlotsAreAccounted, PTL

(***************************************************************************)
(* A token never has more than MaxConns proxied connections, however the   *)
(* store changes and however many goroutines hold copies of it.            *)
(***************************************************************************)
THEOREM SessionsBounded == SessionsSpec => []ConnectionsBounded
BY SessionsGuarded, ConnectionsAreBounded, PTL

----------------------------------------------------------------------------
(* WsSession *)

IsAnswer(m) == m.kind = "answer"
Queue == DOMAIN fromServer

\* The pump holds a message that it has not dealt with.
Inbound == c2u \in {"check", "register", "forward"}
Outbound == u2c \in {"lookup", "track"}

Typed ==
  /\ WsTypeOK
  /\ IsFiniteSet(live)
  /\ errCh > 0 => c2u = "done" \/ u2c = "done"
  /\ errCh > 1 => c2u = "done" /\ u2c = "done"
  /\ Inbound => inMsg \in Requests
  /\ Outbound => outMsg \in Answers

\* The method of the request whose answer is in hand, as found in pending.
Method == IF u2c = "lookup" THEN pending[outMsg.id] ELSE found

\* A successful answer to eth_subscribe carries a subscription id.
Opened ==
  /\ \A k \in Queue :
       IsAnswer(fromServer[k]) /\ fromServer[k].ok /\ pending[fromServer[k].id] = "eth_subscribe"
         => fromServer[k].sid \in Sids
  /\ Outbound /\ outMsg.ok /\ Method = "eth_subscribe" => outMsg.sid \in Sids

\* The fields of requests, answers and pushes.
LEMMA RequestFields ==
  /\ \A m \in Requests : m.id \in Ids /\ m.kind \in {"call", "eth_subscribe", "eth_unsubscribe"}
  /\ \A m \in Requests : m.sid \in Sids \union {NoSid}
BY DEF Requests, Call, Subscribe, Unsubscribe

LEMMA AnswerFields ==
  \A m \in Answers : /\ IsAnswer(m) /\ m.id \in Ids /\ m.ok \in BOOLEAN
                        /\ m.sid \in Sids \union {NoSid}
BY DEF Answers, Answer, IsAnswer

LEMMA PushFields == \A m \in Pushes : m.kind = "push" /\ m.sid \in Sids
BY DEF Pushes, Push

\* The queue holds answers and pushes, told apart by their kind.
LEMMA Kinds ==
  \A m \in Answers \union Pushes :
    /\ m.kind = "push" => m \in Pushes
    /\ m.kind # "push" => m \in Answers
BY PushFields, AnswerFields DEF IsAnswer

\* What Deliver and ReadServer do to the queue, position by position.
LEMMA Delivered ==
  ASSUME Typed, NEW m, m \in Answers \/ m \in Pushes, Deliver(m)
  PROVE  /\ fromServer' \in Seq(Answers \union Pushes)
         /\ Len(fromServer) \in Nat /\ Queue = 1 .. Len(fromServer)
         /\ Len(fromServer') = Len(fromServer) + 1 /\ Queue' = 1 .. Len(fromServer) + 1
         /\ \A k \in Queue : fromServer'[k] = fromServer[k]
         /\ fromServer'[Len(fromServer) + 1] = m
BY DEF Typed, WsTypeOK, Deliver, Queue

LEMMA Taken ==
  ASSUME Typed, ReadServer
  PROVE  /\ fromServer' \in Seq(Answers \union Pushes)
         /\ Len(fromServer) \in Nat \ {0} /\ Queue = 1 .. Len(fromServer)
         /\ Len(fromServer') = Len(fromServer) - 1 /\ Queue' = 1 .. Len(fromServer) - 1
         /\ \A k \in Queue' : fromServer'[k] = fromServer[k + 1]
         /\ outMsg' = fromServer[1] /\ outMsg' \in Answers \union Pushes
<1>1. fromServer \in Seq(Answers \union Pushes) /\ fromServer # <<>>
  BY DEF Typed, WsTypeOK, ReadServer
<1>2. fromServer' = Tail(fromServer) /\ outMsg' = Head(fromServer)
  BY DEF ReadServer
<1> HIDE DEF Typed
<1> QED
  BY <1>1, <1>2 DEF Queue

\* Every step keeps the types; Track needs to know what it puts into subs.
LEMMA TypedInit == WsInit => Typed
BY FS_EmptySet DEF WsInit, Typed, WsTypeOK, Inbound, Outbound

LEMMA TypedStep == Typed /\ Opened /\ [WsNext]_wsVars => Typed'
<1> SUFFICES ASSUME Typed, Opened, [WsNext]_wsVars PROVE Typed'
  OBVIOUS
<1> USE DEF Typed, WsTypeOK, Inbound, Outbound, connVars, serverVars, sessVars, inVars,
            outVars, endVars
<1>1. CASE UNCHANGED wsVars
  BY <1>1 DEF wsVars
<1>2. CASE ClientCloses \/ ServerCloses
  <2>1. clientOpen' \in BOOLEAN /\ serverOpen' \in BOOLEAN
    BY <1>2, Zenon DEF ClientCloses, ServerCloses
  <2>2. UNCHANGED <<serverVars, sessVars, inVars, outVars, endVars>>
    BY <1>2, Zenon DEF ClientCloses, ServerCloses
  <2> QED
    BY <2>1, <2>2
<1>3. CASE ServerPushes
  <2>1. PICK s \in live : Deliver(Push(s))
    BY <1>3 DEF ServerPushes
  <2>2. Push(s) \in Pushes
    BY <2>1 DEF Pushes
  <2> QED
    BY <1>3, <2>1, <2>2, Delivered DEF ServerPushes
<1>4. ASSUME NEW m \in asked, ServerAnswers(m) PROVE Typed'
  <2>1. m \in Requests /\ m.id \in Ids
    BY RequestFields
  <2>2. \A ok \in BOOLEAN, s \in Sids \union {NoSid} :
          /\ Answer(m.id, ok, s) \in Answers
          /\ Deliver(Answer(m.id, ok, s)) => fromServer' \in Seq(Answers \union Pushes)
    BY <2>1, Delivered DEF Answers
  <2>3. fromServer' \in Seq(Answers \union Pushes)
    BY <1>4, <2>2 DEF ServerAnswers
  <2>4. live' = live \/ (\E s \in Sids : live' = live \union {s}) \/ live' = live \ {m.sid}
    BY <1>4 DEF ServerAnswers
  <2>5. /\ asked' \subseteq asked
        /\ UNCHANGED <<connVars, sessVars, inVars, outVars, endVars>>
    BY <1>4 DEF ServerAnswers
  <2>6. live' \subseteq Sids /\ IsFiniteSet(live')
    <3>1. live \subseteq Sids /\ IsFiniteSet(live)
      OBVIOUS
    <3> HIDE DEF Typed
    <3> QED
      BY <3>1, <2>4, FS_AddElement, FS_RemoveElement
  <2> QED
    BY <2>3, <2>5, <2>6
<1>5. ASSUME NEW m \in Requests, ReadClient(m) PROVE Typed'
  BY <1>5 DEF ReadClient
<1>6. CASE CheckSubs \/ BeginRefuse \/ EndRefuse \/ InExits
  <2>1. CASE CheckSubs
    BY <2>1 DEF CheckSubs, CanSend, ErrChCapacity
  <2>2. CASE BeginRefuse
    BY <2>2 DEF BeginRefuse, CanSend, ErrChCapacity
  <2>3. CASE EndRefuse
    BY <2>3 DEF EndRefuse, CanSend, ErrChCapacity
  <2>4. CASE InExits
    BY <2>4 DEF InExits, CanSend, ErrChCapacity
  <2> QED
    BY <1>6, <2>1, <2>2, <2>3, <2>4
<1>7. CASE Register
  BY <1>7, RequestFields DEF Register
<1>8. CASE Forward \/ InFails
  BY <1>8 DEF Forward, InFails, CloseBoth
<1>9. CASE ReadServer
  BY <1>9, Taken, Kinds DEF ReadServer
<1>10. CASE TakePending
  BY <1>10, AnswerFields DEF TakePending
<1>11. CASE Track
  <2>1. outMsg \in Answers /\ subs' \subseteq Sids
    BY <1>11, AnswerFields DEF Track, Opened, Method
  <2>2. subN' \in Nat
    BY <1>11 DEF Track
  <2> QED
    BY <1>11, <2>1, <2>2 DEF Track
<1>12. CASE BeginWrite \/ EndWrite \/ OutFails \/ OutExits
  <2>1. CASE BeginWrite
    BY <2>1 DEF BeginWrite, CloseBoth, CanSend, ErrChCapacity
  <2>2. CASE EndWrite
    BY <2>2 DEF EndWrite, CloseBoth, CanSend, ErrChCapacity
  <2>3. CASE OutFails
    BY <2>3 DEF OutFails, CloseBoth, CanSend, ErrChCapacity
  <2>4. CASE OutExits
    BY <2>4 DEF OutExits, CloseBoth, CanSend, ErrChCapacity
  <2> QED
    BY <1>12, <2>1, <2>2, <2>3, <2>4
<1>13. CASE ConcurrentWrite \/ Receive
  <2>1. CASE ConcurrentWrite
    BY <2>1 DEF ConcurrentWrite, CloseBoth
  <2>2. CASE Receive
    <3>1. /\ errCh' \in 0 .. 2 /\ errCh > 0
          /\ errCh' > 0 => errCh > 1
          /\ ~(errCh' > 1)
      BY <2>2 DEF Receive
    <3> QED
      BY <2>2, <3>1 DEF Receive, CloseBoth
  <2> QED
    BY <1>13, <2>1, <2>2
<1> QED
  BY <1>1, <1>2, <1>3, <1>4, <1>5, <1>6, <1>7, <1>8, <1>9, <1>10, <1>11, <1>12, <1>13
     DEF WsNext, Peers, InStep, OutStep, Ended

\* Nobody but the client's pump knows a request with this id.
Unused(i) ==
  /\ \A m \in asked : m.id # i
  /\ \A k \in Queue : IsAnswer(fromServer[k]) => fromServer[k].id # i

\* An id names one request at a time, from the client's pump to Track.
IdsOnce ==
  /\ \A m, n \in asked : m.id = n.id => m = n
  /\ \A m \in asked, k \in Queue : IsAnswer(fromServer[k]) => fromServer[k].id # m.id
  /\ \A j, k \in Queue :
       IsAnswer(fromServer[j]) /\ IsAnswer(fromServer[k]) /\ fromServer[j].id = fromServer[k].id
         => j = k
  /\ Outbound => Unused(outMsg.id)
  /\ Inbound => Unused(inMsg.id)
  /\ Inbound /\ Outbound => inMsg.id # outMsg.id

\* Whatever can still be answered, or is being answered, is in pending.
Registered ==
  /\ \A m \in asked : pending[m.id] = m.kind
  /\ \A k \in Queue : IsAnswer(fromServer[k]) => pending[fromServer[k].id] # NoEntry
  /\ u2c = "lookup" => pending[outMsg.id] # NoEntry
  /\ c2u = "forward" => pending[inMsg.id] = inMsg.kind

Paired == Typed /\ IdsOnce /\ Registered /\ Opened

\* A step that touches neither the queue, nor the maps, nor a message in hand.
Quiet ==
  /\ UNCHANGED <<serverVars, sessVars>>
  /\ Inbound' => Inbound /\ inMsg' = inMsg
  /\ c2u' = "forward" => c2u = "forward"
  /\ \/ UNCHANGED outVars
     \/ ~Outbound /\ ~Outbound' /\ u2c' # "write"

\* Most steps of the pumps and of the handler are quiet.
LEMMA QuietSteps ==
  ASSUME InFails \/ InExits \/ CheckSubs \/ BeginRefuse \/ EndRefuse
           \/ BeginWrite \/ EndWrite \/ OutFails \/ OutExits
           \/ ClientCloses \/ ServerCloses \/ ConcurrentWrite \/ Receive
           \/ UNCHANGED wsVars
  PROVE  Quiet
<1> USE DEF Quiet, Inbound, Outbound, serverVars, sessVars, inVars, outVars
<1>1. CASE InFails \/ InExits \/ CheckSubs
  BY <1>1 DEF InFails, InExits, CheckSubs
<1>2. CASE BeginRefuse \/ EndRefuse
  BY <1>2 DEF BeginRefuse, EndRefuse
<1>3. CASE BeginWrite \/ EndWrite
  BY <1>3 DEF BeginWrite, EndWrite
<1>4. CASE OutFails \/ OutExits
  BY <1>4 DEF OutFails, OutExits
<1>5. CASE ClientCloses \/ ServerCloses
  BY <1>5 DEF ClientCloses, ServerCloses
<1>6. CASE ConcurrentWrite \/ Receive \/ UNCHANGED wsVars
  BY <1>6 DEF ConcurrentWrite, Receive, wsVars
<1> QED
  BY <1>1, <1>2, <1>3, <1>4, <1>5, <1>6

\* The steps of a session that are not quiet.
LEMMA SessionSteps ==
  ASSUME [WsNext]_wsVars
  PROVE  \/ Quiet \/ ServerPushes \/ (\E m \in asked : ServerAnswers(m))
         \/ (\E m \in Requests : ReadClient(m)) \/ Register \/ Forward
         \/ ReadServer \/ TakePending \/ Track
BY QuietSteps DEF WsNext, Peers, InStep, OutStep, Ended

\* What the upstream may answer, and what becomes of its subscriptions.
LEMMA AnswerCases ==
  ASSUME Typed, NEW m \in asked, ServerAnswers(m)
  PROVE  /\ m \in Requests /\ m.id \in Ids /\ asked' = asked \ {m}
         /\ UNCHANGED <<sessVars, inVars, outVars>>
         /\ \E ok \in BOOLEAN, s \in Sids \union {NoSid} :
              /\ Deliver(Answer(m.id, ok, s)) /\ Answer(m.id, ok, s) \in Answers
              /\ \/ ~ok /\ live' = live
                 \/ ok /\ m.kind = "call" /\ live' = live
                 \/ ok /\ m.kind = "eth_subscribe" /\ s \in Sids \ live /\ live' = live \union {s}
                 \/ ok /\ m.kind = "eth_unsubscribe" /\ s = NoSid /\ live' = live \ {m.sid}
<1>1. m \in Requests /\ m.id \in Ids
  BY RequestFields DEF Typed, WsTypeOK
<1>2. \A ok \in BOOLEAN, s \in Sids \union {NoSid} : Answer(m.id, ok, s) \in Answers
  BY <1>1 DEF Answers
<1>3. asked' = asked \ {m} /\ UNCHANGED <<sessVars, inVars, outVars>>
  BY DEF ServerAnswers
<1>4. \E ok \in BOOLEAN, s \in Sids \union {NoSid} :
        /\ Deliver(Answer(m.id, ok, s))
        /\ \/ ~ok /\ live' = live
           \/ ok /\ m.kind = "call" /\ live' = live
           \/ ok /\ m.kind = "eth_subscribe" /\ s \in Sids \ live /\ live' = live \union {s}
           \/ ok /\ m.kind = "eth_unsubscribe" /\ s = NoSid /\ live' = live \ {m.sid}
  <2>1. CASE Deliver(Answer(m.id, FALSE, NoSid)) /\ live' = live
    BY <2>1
  <2>2. CASE m.kind = "call" /\ Deliver(Answer(m.id, TRUE, NoSid)) /\ live' = live
    BY <2>2
  <2>3. CASE /\ m.kind = "eth_subscribe"
             /\ \E s \in Sids \ live :
                  Deliver(Answer(m.id, TRUE, s)) /\ live' = live \union {s}
    BY <2>3
  <2>4. CASE /\ m.kind = "eth_unsubscribe"
             /\ Deliver(Answer(m.id, TRUE, NoSid)) /\ live' = live \ {m.sid}
    BY <2>4
  <2> QED
    BY <2>1, <2>2, <2>3, <2>4 DEF ServerAnswers
<1> QED
  BY <1>1, <1>2, <1>3, <1>4

\* Nothing is asked or answered when the session begins.
LEMMA PairedInit == WsInit => Paired
BY TypedInit DEF WsInit, Paired, IdsOnce, Registered, Opened, Queue, Inbound, Outbound, Unused

\* The id that ReadClient takes is new; every other step hands ids on.
LEMMA IdsOnceStep == ASSUME Paired, [WsNext]_wsVars PROVE IdsOnce'
<1> USE DEF Unused, sessVars, serverVars, inVars, outVars
<1>1. CASE Quiet
  BY <1>1 DEF Quiet, Paired, IdsOnce, Queue, Outbound
<1>2. CASE ServerPushes
  <2>1. PICK s \in live : Deliver(Push(s))
    BY <1>2 DEF ServerPushes
  <2>2. Push(s) \in Pushes /\ ~IsAnswer(Push(s))
    BY <2>1 DEF Paired, Typed, WsTypeOK, Pushes, Push, IsAnswer
  <2>3. UNCHANGED <<asked, inVars, outVars>>
    BY <1>2 DEF ServerPushes
  <2> QED
    BY <2>1, <2>2, <2>3, Delivered DEF Paired, IdsOnce, Inbound, Outbound
<1>3. ASSUME NEW m \in asked, ServerAnswers(m) PROVE IdsOnce'
  <2>1. PICK ok \in BOOLEAN, s \in Sids \union {NoSid} :
          Deliver(Answer(m.id, ok, s)) /\ Answer(m.id, ok, s) \in Answers
    BY <1>3, AnswerCases DEF Paired
  <2>2. asked' = asked \ {m} /\ UNCHANGED <<inVars, outVars>>
    BY <1>3, AnswerCases DEF Paired
  <2>3. Answer(m.id, ok, s).id = m.id
    BY DEF Answer
  <2> QED
    BY <2>1, <2>2, <2>3, Delivered DEF Paired, IdsOnce, Inbound, Outbound
<1>4. ASSUME NEW m \in Requests, ReadClient(m) PROVE IdsOnce'
  <2>1. Unused(m.id) /\ (Outbound => m.id # outMsg.id)
    BY <1>4, AnswerFields DEF ReadClient, IdFree, Queue, Outbound, Paired, Typed, IsAnswer
  <2> QED
    BY <1>4, <2>1 DEF ReadClient, Paired, IdsOnce, Queue, Inbound, Outbound
<1>5. CASE Register
  BY <1>5 DEF Register, Paired, IdsOnce, Queue, Inbound, Outbound
<1>6. CASE Forward
  BY <1>6 DEF Forward, Paired, IdsOnce, Queue, Inbound, Outbound
<1>7. CASE ReadServer
  <2>1. UNCHANGED <<asked, inVars>> /\ ~Outbound
    BY <1>7 DEF ReadServer, Outbound
  <2>2. Outbound' => IsAnswer(outMsg')
    BY <1>7, Taken, Kinds, AnswerFields DEF ReadServer, Outbound, Paired
  <2>3. /\ 1 \in Queue /\ outMsg' = fromServer[1]
        /\ \A k \in Queue' : k + 1 \in Queue /\ k + 1 # 1 /\ fromServer'[k] = fromServer[k + 1]
        /\ \A j, k \in Queue' : j + 1 = k + 1 => j = k
    BY <1>7, Taken DEF Paired
  <2> HIDE DEF Queue
  <2>4. Outbound' => Unused(outMsg.id)'
    BY <2>1, <2>2, <2>3 DEF Paired, IdsOnce, IsAnswer
  <2>5. Inbound' => Unused(inMsg.id)' /\ (Outbound' => inMsg'.id # outMsg'.id)
    BY <2>1, <2>2, <2>3 DEF Paired, IdsOnce, Inbound, IsAnswer
  <2> QED
    BY <2>1, <2>3, <2>4, <2>5 DEF Paired, IdsOnce, IsAnswer
<1>8. CASE TakePending
  BY <1>8 DEF TakePending, Paired, IdsOnce, Queue, Inbound, Outbound
<1>9. CASE Track
  BY <1>9 DEF Track, Paired, IdsOnce, Queue, Inbound, Outbound
<1> QED
  BY <1>1, <1>2, <1>3, <1>4, <1>5, <1>6, <1>7, <1>8, <1>9, SessionSteps

\* Registering comes before forwarding, and only TakePending takes an entry out.
LEMMA RegisteredStep == ASSUME Paired, [WsNext]_wsVars PROVE Registered' /\ Opened'
<1> USE DEF Unused, sessVars, serverVars, inVars, outVars, Method
<1>1. CASE Quiet
  BY <1>1 DEF Quiet, Paired, Registered, Opened, Queue, Outbound, Inbound
<1>2. CASE ServerPushes
  <2>1. PICK s \in live : Deliver(Push(s))
    BY <1>2 DEF ServerPushes
  <2>2. Push(s) \in Pushes /\ ~IsAnswer(Push(s))
    BY <2>1 DEF Paired, Typed, WsTypeOK, Pushes, Push, IsAnswer
  <2>3. UNCHANGED <<asked, pending, inVars, outVars>>
    BY <1>2 DEF ServerPushes
  <2> QED
    BY <2>1, <2>2, <2>3, Delivered DEF Paired, Registered, Opened, Outbound
<1>3. ASSUME NEW m \in asked, ServerAnswers(m) PROVE Registered' /\ Opened'
  <2>1. PICK ok \in BOOLEAN, s \in Sids \union {NoSid} :
          /\ Deliver(Answer(m.id, ok, s)) /\ Answer(m.id, ok, s) \in Answers
          /\ ok /\ m.kind = "eth_subscribe" => s \in Sids
    BY <1>3, AnswerCases DEF Paired
  <2>2. asked' = asked \ {m} /\ UNCHANGED <<pending, inVars, outVars>>
    BY <1>3, AnswerCases DEF Paired
  <2>3. /\ Answer(m.id, ok, s).id = m.id /\ Answer(m.id, ok, s).ok = ok
        /\ Answer(m.id, ok, s).sid = s
    BY DEF Answer
  <2>4. pending[m.id] = m.kind /\ m.kind # NoEntry
    BY RequestFields DEF Paired, Registered, Typed, WsTypeOK, NoEntry
  <2> QED
    BY <2>1, <2>2, <2>3, <2>4, Delivered DEF Paired, Registered, Opened, Outbound
<1>4. ASSUME NEW m \in Requests, ReadClient(m) PROVE Registered' /\ Opened'
  BY <1>4 DEF ReadClient, Paired, Registered, Opened, Queue, Outbound
<1>5. CASE Register
  <2>1. /\ pending' = [pending EXCEPT ![inMsg.id] = inMsg.kind] /\ Inbound
        /\ UNCHANGED <<asked, fromServer, inMsg, u2c, outMsg, found>> /\ c2u' = "forward"
    BY <1>5 DEF Register, Inbound
  <2>2. /\ \A i \in Ids : i # inMsg.id => pending'[i] = pending[i]
        /\ pending'[inMsg.id] = inMsg.kind
    BY <2>1, RequestFields DEF Paired, Typed, WsTypeOK
  <2>3. /\ \A m \in asked : m.id \in Ids /\ m.id # inMsg.id
        /\ \A k \in Queue : IsAnswer(fromServer[k]) =>
             fromServer[k].id \in Ids /\ fromServer[k].id # inMsg.id
        /\ Outbound => outMsg.id \in Ids /\ outMsg.id # inMsg.id
    BY <2>1, RequestFields, AnswerFields, Kinds
       DEF Paired, IdsOnce, Typed, WsTypeOK, Queue, IsAnswer
  <2> QED
    BY <2>1, <2>2, <2>3 DEF Paired, Registered, Opened, Queue, Outbound
<1>6. CASE Forward
  BY <1>6 DEF Forward, Paired, Registered, Opened, Queue, Outbound
<1>7. CASE ReadServer
  <2>1. /\ UNCHANGED <<asked, pending, inVars>> /\ ~Outbound
        /\ Outbound' => u2c' = "lookup"
    BY <1>7 DEF ReadServer, Outbound
  <2>2. Outbound' => IsAnswer(outMsg')
    BY <1>7, Taken, Kinds, AnswerFields DEF ReadServer, Outbound, Paired
  <2> QED
    BY <1>7, <2>1, <2>2, Taken DEF Paired, Registered, Opened, Outbound
<1>8. CASE TakePending
  <2>1. /\ pending' = [pending EXCEPT ![outMsg.id] = NoEntry] /\ found' = pending[outMsg.id]
        /\ UNCHANGED <<asked, fromServer, inMsg, c2u, outMsg>> /\ u2c' = "track" /\ u2c = "lookup"
    BY <1>8 DEF TakePending
  <2>2. \A i \in Ids : i # outMsg.id => pending'[i] = pending[i]
    BY <2>1 DEF Paired, Typed, WsTypeOK
  <2>3. /\ \A m \in asked : m.id \in Ids /\ m.id # outMsg.id
        /\ \A k \in Queue : IsAnswer(fromServer[k]) =>
             fromServer[k].id \in Ids /\ fromServer[k].id # outMsg.id
        /\ Inbound => inMsg.id \in Ids /\ inMsg.id # outMsg.id
    BY <2>1, RequestFields, AnswerFields, Kinds
       DEF Paired, IdsOnce, Typed, WsTypeOK, Queue, IsAnswer, Outbound
  <2> QED
    BY <2>1, <2>2, <2>3 DEF Paired, Registered, Opened, Queue, Outbound, Inbound
<1>9. CASE Track
  BY <1>9 DEF Track, Paired, Registered, Opened, Queue, Outbound
<1> QED
  BY <1>1, <1>2, <1>3, <1>4, <1>5, <1>6, <1>7, <1>8, <1>9, SessionSteps

\* The lemmas above together.
LEMMA PairedStep == Paired /\ [WsNext]_wsVars => Paired'
BY TypedStep, IdsOnceStep, RegisteredStep DEF Paired

\* The answer at position k, or the one in hand, opens subscription s.
OpensAt(k, s) ==
  /\ IsAnswer(fromServer[k]) /\ fromServer[k].ok /\ fromServer[k].sid = s
  /\ pending[fromServer[k].id] = "eth_subscribe"
OpensNow(s) == Outbound /\ outMsg.ok /\ outMsg.sid = s /\ Method = "eth_subscribe"

\* s is in subs, or will be before what follows the first n messages is handled.
Known(s, n) == s \in subs \/ OpensNow(s) \/ \E j \in Queue : j <= n /\ OpensAt(j, s)

Announced ==
  /\ \A s \in live : Known(s, Len(fromServer))
  /\ \A k \in Queue : fromServer[k].kind = "push" => Known(fromServer[k].sid, k - 1)
  /\ PushesAreKnown

\* Without subscriptions there is nothing to announce.
LEMMA AnnouncedInit == WsInit => Announced
BY DEF WsInit, Announced, Queue, PushesAreKnown

\* The upstream pushes after it has answered, and messages keep their order.
LEMMA AnnouncedStep == ASSUME Paired, Announced, [WsNext]_wsVars PROVE Announced'
<1> USE DEF sessVars, serverVars, inVars, outVars, IsAnswer
<1>1. CASE Quiet
  BY <1>1 DEF Quiet, Announced, Known, OpensAt, OpensNow, Method, Queue, Outbound, PushesAreKnown
<1>2. CASE ServerPushes
  <2>1. PICK s \in live : Deliver(Push(s))
    BY <1>2 DEF ServerPushes
  <2>2. Push(s) \in Pushes /\ Push(s).sid = s
    BY <2>1 DEF Paired, Typed, WsTypeOK, Pushes, Push
  <2>3. UNCHANGED <<live, subs, pending, inVars, outVars>>
    BY <1>2 DEF ServerPushes
  <2>4. \A x, n : n <= Len(fromServer) /\ Known(x, n) => Known(x, n)'
    BY <2>1, <2>2, <2>3, Delivered DEF Known, OpensAt, OpensNow, Method, Outbound, Paired
  <2>5. \A x : Known(x, Len(fromServer)) => Known(x, Len(fromServer))'
    BY <2>1, <2>2, <2>3, Delivered DEF Known, OpensAt, OpensNow, Method, Outbound, Paired
  <2> QED
    BY <2>1, <2>2, <2>3, <2>4, <2>5, Delivered DEF Paired, Announced, PushesAreKnown
<1>3. ASSUME NEW m \in asked, ServerAnswers(m) PROVE Announced'
  <2>1. PICK ok \in BOOLEAN, s \in Sids \union {NoSid} :
          /\ Deliver(Answer(m.id, ok, s)) /\ Answer(m.id, ok, s) \in Answers
          /\ live' \subseteq live \/ (ok /\ m.kind = "eth_subscribe" /\ live' = live \union {s})
    BY <1>3, AnswerCases DEF Paired
  <2>2. UNCHANGED <<subs, pending, inVars, outVars>>
    BY <1>3, AnswerCases DEF Paired
  <2>3. /\ Answer(m.id, ok, s).id = m.id /\ Answer(m.id, ok, s).ok = ok
        /\ Answer(m.id, ok, s).sid = s /\ Answer(m.id, ok, s).kind = "answer"
    BY DEF Answer
  <2>4. \A x, n : n <= Len(fromServer) /\ Known(x, n) => Known(x, n)'
    BY <2>1, <2>2, Delivered DEF Known, OpensAt, OpensNow, Method, Outbound, Paired
  <2>5. \A x : Known(x, Len(fromServer)) => Known(x, Len(fromServer))'
    BY <2>1, <2>2, Delivered DEF Known, OpensAt, OpensNow, Method, Outbound, Paired
  <2>6. ok /\ m.kind = "eth_subscribe" => Known(s, Len(fromServer))'
    <3> SUFFICES ASSUME ok, m.kind = "eth_subscribe" PROVE Known(s, Len(fromServer))'
      OBVIOUS
    <3>1. /\ Len(fromServer)' \in Queue' /\ Len(fromServer)' <= Len(fromServer)'
          /\ fromServer'[Len(fromServer)'] = Answer(m.id, ok, s)
      <4>1. /\ Len(fromServer) \in Nat /\ Len(fromServer') = Len(fromServer) + 1
            /\ Queue' = 1 .. Len(fromServer) + 1
            /\ fromServer'[Len(fromServer) + 1] = Answer(m.id, ok, s)
        BY <2>1, Delivered DEF Paired
      <4> QED
        BY <4>1
    <3>2. pending'[m.id] = "eth_subscribe"
      BY <2>2 DEF Paired, Registered
    <3>3. OpensAt(Len(fromServer), s)'
      BY <2>3, <3>1, <3>2 DEF OpensAt
    <3> QED
      BY <3>1, <3>3 DEF Known
  <2>7. \A x \in live' : Known(x, Len(fromServer))'
    <3> SUFFICES ASSUME NEW x \in live' PROVE Known(x, Len(fromServer))'
      OBVIOUS
    <3>1. CASE x \in live
      BY <2>5, <3>1 DEF Announced
    <3>2. CASE x \notin live
      <4>1. x = s /\ ok /\ m.kind = "eth_subscribe"
        BY <2>1, <3>2
      <4> QED
        BY <2>6, <4>1
    <3> QED
      BY <3>1, <3>2
  <2>8. ASSUME NEW k \in Queue', fromServer'[k].kind = "push"
        PROVE  Known(fromServer[k].sid, k - 1)'
    <3>1. k \in Queue /\ fromServer'[k] = fromServer[k] /\ k - 1 <= Len(fromServer)
      BY <2>1, <2>3, <2>8, Delivered DEF Paired
    <3>2. PICK x : x = fromServer[k].sid
      OBVIOUS
    <3>3. Known(x, k - 1)'
      BY <2>4, <2>8, <3>1, <3>2 DEF Announced
    <3> QED
      BY <3>1, <3>2, <3>3
  <2> QED
    BY <2>2, <2>7, <2>8 DEF Announced, PushesAreKnown
<1>4. ASSUME NEW m \in Requests, ReadClient(m) PROVE Announced'
  BY <1>4
     DEF ReadClient, Announced, Known, OpensAt, OpensNow, Method, Queue, Outbound, PushesAreKnown
<1>5. CASE Register
  <2>1. /\ pending' = [pending EXCEPT ![inMsg.id] = inMsg.kind] /\ Inbound
        /\ UNCHANGED <<live, fromServer, subs, outVars>>
    BY <1>5 DEF Register, Inbound
  <2>2. \A i \in Ids : i # inMsg.id => pending'[i] = pending[i]
    BY <2>1 DEF Paired, Typed, WsTypeOK
  <2>3. /\ \A k \in Queue : IsAnswer(fromServer[k]) =>
             fromServer[k].id \in Ids /\ fromServer[k].id # inMsg.id
        /\ Outbound => outMsg.id \in Ids /\ outMsg.id # inMsg.id
    BY <2>1, AnswerFields, Kinds DEF Paired, IdsOnce, Unused, Typed, WsTypeOK, Queue
  <2>4. \A x, n : Known(x, n) => Known(x, n)'
    BY <2>1, <2>2, <2>3 DEF Known, OpensAt, OpensNow, Method, Queue, Outbound
  <2> QED
    BY <2>1, <2>4 DEF Announced, Queue, PushesAreKnown
<1>6. CASE Forward
  BY <1>6
     DEF Forward, Announced, Known, OpensAt, OpensNow, Method, Queue, Outbound, PushesAreKnown
<1>7. CASE ReadServer
  <2>1. /\ UNCHANGED <<live, pending, subs>> /\ ~Outbound
        /\ u2c' = IF outMsg'.kind = "push" THEN "write" ELSE "lookup"
    BY <1>7 DEF ReadServer, Outbound
  <2>2. /\ 1 \in Queue /\ outMsg' = fromServer[1]
        /\ Len(fromServer) \in Nat /\ Len(fromServer') = Len(fromServer) - 1
        /\ Queue = 1 .. Len(fromServer) /\ Queue' = 1 .. Len(fromServer) - 1
        /\ \A k \in Queue' : k + 1 \in Queue /\ fromServer'[k] = fromServer[k + 1]
        /\ \A k \in Queue : k # 1 => k - 1 \in Queue' /\ fromServer'[k - 1] = fromServer[k]
    BY <1>7, Taken DEF Paired
  <2>3. ASSUME NEW x, NEW n \in Nat, Known(x, n) PROVE Known(x, n - 1)'
    <3>1. CASE x \in subs
      BY <2>1, <3>1 DEF Known
    <3>2. ASSUME NEW j \in Queue, j <= n, OpensAt(j, x) PROVE Known(x, n - 1)'
      <4>1. CASE j = 1
        BY <2>1, <2>2, <3>2, <4>1 DEF Known, OpensAt, OpensNow, Method, Outbound
      <4>2. CASE j # 1
        <5>1. OpensAt(j - 1, x)' /\ j - 1 \in Queue' /\ j - 1 <= n - 1
          BY <2>1, <2>2, <3>2, <4>2 DEF OpensAt
        <5> QED
          BY <5>1 DEF Known
      <4> QED
        BY <4>1, <4>2
    <3> QED
      BY <2>1, <2>3, <3>1, <3>2 DEF Known, OpensNow
  <2>4. \A s \in live' : Known(s, Len(fromServer))'
    BY <2>1, <2>2, <2>3 DEF Announced
  <2>5. \A k \in Queue' : fromServer'[k].kind = "push" => Known(fromServer[k].sid, k - 1)'
    <3> SUFFICES ASSUME NEW k \in Queue', fromServer'[k].kind = "push"
                 PROVE  Known(fromServer[k].sid, k - 1)'
      OBVIOUS
    <3>1. PICK x : x = fromServer[k + 1].sid
      OBVIOUS
    <3>2. k + 1 \in Queue /\ fromServer'[k] = fromServer[k + 1] /\ k \in Nat /\ (k + 1) - 1 = k
      BY <2>2
    <3>3. Known(x, (k + 1) - 1)
      BY <3>1, <3>2 DEF Announced
    <3>4. Known(x, k - 1)'
      BY <2>3, <3>2, <3>3
    <3> QED
      BY <3>1, <3>2, <3>4
  <2>6. PushesAreKnown'
    BY <2>1, <2>2 DEF Announced, Known, OpensNow, PushesAreKnown
  <2> QED
    BY <2>4, <2>5, <2>6 DEF Announced
<1>8. CASE TakePending
  <2>1. /\ pending' = [pending EXCEPT ![outMsg.id] = NoEntry] /\ found' = pending[outMsg.id]
        /\ UNCHANGED <<live, subs, fromServer, outMsg>> /\ u2c' = "track" /\ u2c = "lookup"
    BY <1>8 DEF TakePending
  <2>2. \A i \in Ids : i # outMsg.id => pending'[i] = pending[i]
    BY <2>1 DEF Paired, Typed, WsTypeOK
  <2>3. \A k \in Queue : IsAnswer(fromServer[k]) =>
          fromServer[k].id \in Ids /\ fromServer[k].id # outMsg.id
    BY <2>1, AnswerFields, Kinds DEF Paired, IdsOnce, Unused, Typed, WsTypeOK, Queue, Outbound
  <2>4. \A x, n : Known(x, n) => Known(x, n)'
    BY <2>1, <2>2, <2>3 DEF Known, OpensAt, OpensNow, Method, Queue, Outbound
  <2> QED
    BY <2>1, <2>4 DEF Announced, Queue, PushesAreKnown
<1>9. CASE Track
  <2>1. /\ UNCHANGED <<live, pending, fromServer, outMsg>> /\ u2c = "track" /\ u2c' = "write"
        /\ subs' = IF outMsg.ok /\ found = "eth_subscribe" THEN subs \union {outMsg.sid} ELSE subs
    BY <1>9 DEF Track
  <2>2. \A x, n : Known(x, n) => Known(x, n)'
    BY <2>1 DEF Known, OpensAt, OpensNow, Method, Queue, Outbound
  <2>3. outMsg'.kind # "push"
    BY <2>1, AnswerFields DEF Paired, Typed, Outbound
  <2> QED
    BY <2>1, <2>2, <2>3 DEF Announced, Queue, PushesAreKnown
<1> QED
  BY <1>1, <1>2, <1>3, <1>4, <1>5, <1>6, <1>7, <1>8, <1>9, SessionSteps

\* The requests whose successful answers move subN, from position n on.
Starting(n) ==
  {i \in Ids : /\ pending[i] = "eth_subscribe"
               /\ \E k \in Queue :
                    k >= n /\ IsAnswer(fromServer[k]) /\ fromServer[k].id = i /\ fromServer[k].ok}
Ending(n) ==
  {i \in Ids : /\ pending[i] = "eth_unsubscribe"
               /\ \E k \in Queue :
                    /\ k >= n /\ IsAnswer(fromServer[k]) /\ fromServer[k].id = i
                    /\ fromServer[k].ok /\ fromServer[k].sid = NoSid}

\* Whether the answer in hand does.
Opening == IF Outbound /\ outMsg.ok /\ Method = "eth_subscribe" THEN 1 ELSE 0
Closing ==
  IF Outbound /\ outMsg.ok /\ outMsg.sid = NoSid /\ Method = "eth_unsubscribe" THEN 1 ELSE 0

\* The first conjunct is for Track, which does not count below zero: what is left in
\* the queue opens no more subscriptions than are live or about to be uncounted.
Counted ==
  /\ \A n \in Nat \ {0} : Cardinality(Starting(n)) <= Cardinality(live) + Cardinality(Ending(n))
  /\ subN + Cardinality(Starting(1)) + Opening <= Cardinality(live) + Cardinality(Ending(1)) + Closing

\* The queue is finite, and so are the sets of ids in it.
LEMMA QueueFinite ==
  ASSUME Paired
  PROVE  \A n : /\ IsFiniteSet(Starting(n)) /\ IsFiniteSet(Ending(n))
                /\ Cardinality(Starting(n)) \in Nat /\ Cardinality(Ending(n)) \in Nat
<1> DEFINE T == {fromServer[k].id : k \in Queue}
           f == [k \in Queue |-> fromServer[k].id]
<1>1. IsFiniteSet(Queue)
  BY FS_Interval DEF Paired, Typed, WsTypeOK, Queue
<1>2. f \in Surjection(Queue, T)
  BY DEF Surjection
<1>3. IsFiniteSet(T)
  BY <1>1, <1>2, FS_Surjection
<1>4. \A n : Starting(n) \subseteq T
  BY DEF Starting
<1>5. \A n : Ending(n) \subseteq T
  BY DEF Ending
<1> HIDE DEF T
<1> QED
  BY <1>3, <1>4, <1>5, FS_Subset, FS_CardinalityType

\* The upstream has handed out finitely many subscriptions.
LEMMA LiveFinite == ASSUME Paired PROVE IsFiniteSet(live) /\ Cardinality(live) \in Nat
BY FS_CardinalityType DEF Paired, Typed

\* The answers to which EndingSubs refers, by their fields.
LEMMA AnswerShape ==
  \A i : \A m \in Answers :
    m = Answer(i, TRUE, NoSid) <=> m.id = i /\ m.ok /\ m.sid = NoSid
BY DEF Answers, Answer

\* The unsubscriptions on their way, counted.
LEMMA EndingCount ==
  ASSUME Paired PROVE Cardinality(EndingSubs) = Cardinality(Ending(1)) + Closing
<1>1. /\ Outbound => outMsg \in Answers /\ IsAnswer(outMsg) /\ outMsg.id \in Ids
      /\ \A k \in Queue : k >= 1 /\ (IsAnswer(fromServer[k]) => fromServer[k] \in Answers)
  BY AnswerFields, Kinds DEF Paired, Typed, WsTypeOK, Queue, IsAnswer
<1>6. Ending(1) = {i \in Ids : /\ pending[i] = "eth_unsubscribe"
                              /\ \E k \in Queue : fromServer[k] = Answer(i, TRUE, NoSid)}
  <2>1. ASSUME NEW i \in Ids, NEW k \in Queue
        PROVE  fromServer[k] = Answer(i, TRUE, NoSid)
                 <=> /\ k >= 1 /\ IsAnswer(fromServer[k]) /\ fromServer[k].id = i
                     /\ fromServer[k].ok /\ fromServer[k].sid = NoSid
    <3>1. ASSUME fromServer[k] \in Answers
          PROVE  fromServer[k] = Answer(i, TRUE, NoSid)
                   <=> fromServer[k].id = i /\ fromServer[k].ok /\ fromServer[k].sid = NoSid
      BY <3>1, AnswerShape, Zenon
    <3>2. fromServer[k] = Answer(i, TRUE, NoSid) => IsAnswer(fromServer[k])
      BY DEF Answer, IsAnswer
    <3> QED
      BY <1>1, <3>1, <3>2, Zenon
  <2> QED
    BY <2>1 DEF Ending
<1>2. Outbound => \A i : outMsg = Answer(i, TRUE, NoSid)
                          <=> outMsg.id = i /\ outMsg.ok /\ outMsg.sid = NoSid
  BY <1>1, AnswerShape
<1>3. \A i \in Ids : i \in EndingSubs <=> i \in Ending(1) \/ (Closing = 1 /\ i = outMsg.id)
  <2> TAKE i \in Ids
  <2>1. i \in EndingSubs <=>
          \/ /\ pending[i] = "eth_unsubscribe"
             /\ \/ \E k \in Queue : fromServer[k] = Answer(i, TRUE, NoSid)
                \/ u2c = "lookup" /\ outMsg = Answer(i, TRUE, NoSid)
          \/ u2c = "track" /\ found = "eth_unsubscribe" /\ outMsg = Answer(i, TRUE, NoSid)
    BY Zenon DEF EndingSubs, Queue
  <2>2. i \in Ending(1) <=>
          /\ pending[i] = "eth_unsubscribe"
          /\ \E k \in Queue : fromServer[k] = Answer(i, TRUE, NoSid)
    BY <1>6, Zenon
  <2>3. Closing = 1 <=> Outbound /\ outMsg.ok /\ outMsg.sid = NoSid /\ Method = "eth_unsubscribe"
    BY DEF Closing
  <2> QED
    BY <1>2, <2>1, <2>2, <2>3 DEF Outbound, Method
<1>4. EndingSubs \subseteq Ids /\ Ending(1) \subseteq Ids /\ (Closing = 1 => outMsg.id \in Ids)
  <2>1. EndingSubs \subseteq Ids
    BY Zenon DEF EndingSubs
  <2>2. Ending(1) \subseteq Ids
    BY Zenon DEF Ending
  <2> QED
    BY <1>1, <2>1, <2>2 DEF Closing
<1>5. CASE Closing = 1
  <2>1. EndingSubs = Ending(1) \union {outMsg.id}
    BY <1>3, <1>4, <1>5
  <2>2. outMsg.id \notin Ending(1)
    BY <1>1, <1>5 DEF Closing, Ending, Paired, IdsOnce, Unused
  <2> QED
    BY <1>5, <2>1, <2>2, QueueFinite, FS_AddElement
<1>7. CASE Closing = 0
  <2>1. EndingSubs = Ending(1)
    BY <1>3, <1>4, <1>7
  <2> QED
    BY <1>7, <2>1, QueueFinite
<1> QED
  BY <1>5, <1>7 DEF Closing

\* The counts start at zero.
LEMMA CountedInit == WsInit => Counted
<1> SUFFICES ASSUME WsInit PROVE Counted
  OBVIOUS
<1>1. /\ \A n : Starting(n) = {} /\ Ending(n) = {}
      /\ live = {} /\ subN = 0 /\ Opening = 0 /\ Closing = 0
  BY DEF WsInit, Starting, Ending, Queue, Opening, Closing, Outbound
<1> QED
  BY <1>1, FS_EmptySet DEF Counted

\* Steps that neither start nor end a subscription.
LEMMA SameCounts ==
  ASSUME Counted, UNCHANGED <<live, subN>>, Opening' = Opening, Closing' = Closing,
         \A n \in Nat \ {0} : Starting(n)' = Starting(n) /\ Ending(n)' = Ending(n)
  PROVE  Counted'
BY DEF Counted

\* A subscription is counted after it began, and uncounted after it ended.
LEMMA CountedStep == ASSUME Paired, Paired', Counted, [WsNext]_wsVars PROVE Counted'
<1> USE DEF sessVars, serverVars, inVars, outVars, IsAnswer
<1>1. CASE Quiet
  BY <1>1, SameCounts DEF Quiet, Starting, Ending, Opening, Closing, Method, Queue, Outbound
<1>2. CASE ServerPushes
  <2>1. PICK s \in live : Deliver(Push(s))
    BY <1>2 DEF ServerPushes
  <2>2. /\ Push(s) \in Pushes /\ ~IsAnswer(Push(s))
    BY <2>1 DEF Paired, Typed, WsTypeOK, Pushes, Push
  <2>3. UNCHANGED <<live, subN, pending, outVars>>
    BY <1>2 DEF ServerPushes
  <2>4. \A n : Starting(n)' = Starting(n)
    BY <2>1, <2>2, <2>3, Delivered DEF Starting, Paired
  <2>5. \A n : Ending(n)' = Ending(n)
    BY <2>1, <2>2, <2>3, Delivered DEF Ending, Paired
  <2> QED
    BY <2>3, <2>4, <2>5, SameCounts DEF Opening, Closing, Method, Outbound
<1>3. ASSUME NEW m \in asked, ServerAnswers(m) PROVE Counted'
  <2>1. PICK ok \in BOOLEAN, s \in Sids \union {NoSid} :
          /\ Deliver(Answer(m.id, ok, s)) /\ Answer(m.id, ok, s) \in Answers
          /\ \/ ~ok /\ live' = live
             \/ ok /\ m.kind = "call" /\ live' = live
             \/ ok /\ m.kind = "eth_subscribe" /\ s \in Sids \ live /\ live' = live \union {s}
             \/ ok /\ m.kind = "eth_unsubscribe" /\ s = NoSid /\ live' = live \ {m.sid}
    BY <1>3, AnswerCases DEF Paired
  <2>2. UNCHANGED <<pending, subN, outVars>> /\ m.id \in Ids /\ pending[m.id] = m.kind
    BY <1>3, AnswerCases DEF Paired, Registered
  <2>3. Opening' = Opening /\ Closing' = Closing
    BY <2>2 DEF Opening, Closing, Method, Outbound
  <2>4. PICK a : a = Answer(m.id, ok, s)
    OBVIOUS
  <2>5. /\ IsAnswer(a) /\ a.id = m.id /\ a.ok = ok /\ a.sid = s
    BY <2>4 DEF Answer
  <2>6. /\ Len(fromServer) \in Nat /\ Queue = 1 .. Len(fromServer)
        /\ Queue' = 1 .. Len(fromServer) + 1
        /\ \A k \in Queue : fromServer'[k] = fromServer[k]
        /\ fromServer'[Len(fromServer) + 1] = a
    BY <2>1, <2>4, Delivered DEF Paired
  <2>7. \A n : ~(ok /\ m.kind = "eth_subscribe") => Starting(n)' = Starting(n)
    BY <2>2, <2>5, <2>6 DEF Starting
  <2>8. \A n : ~(ok /\ m.kind = "eth_unsubscribe") => Ending(n)' = Ending(n)
    BY <2>2, <2>5, <2>6 DEF Ending
  <2>9. CASE live' = live /\ (~ok \/ m.kind = "call")
    BY <2>2, <2>3, <2>7, <2>8, <2>9, SameCounts
  <2>10. CASE ok /\ m.kind = "eth_subscribe" /\ s \in Sids \ live /\ live' = live \union {s}
    <3>1. Cardinality(live') = Cardinality(live) + 1
      BY <2>10, LiveFinite, FS_AddElement
    <3>2. \A n : Starting(n)' \subseteq Starting(n) \union {m.id}
      BY <2>2, <2>5, <2>6 DEF Starting
    <3>3. \A n : /\ Cardinality(Starting(n)') <= Cardinality(Starting(n)) + 1
                 /\ Cardinality(Starting(n)') \in Nat
      <4> TAKE n
      <4>1. /\ IsFiniteSet(Starting(n) \union {m.id})
            /\ Cardinality(Starting(n) \union {m.id}) <= Cardinality(Starting(n)) + 1
        <5>1. IsFiniteSet(Starting(n)) /\ Cardinality(Starting(n)) \in Nat
          BY QueueFinite
        <5> QED
          BY <5>1, FS_AddElement
      <4>2. Cardinality(Starting(n)') <= Cardinality(Starting(n) \union {m.id})
        BY <3>2, <4>1, FS_Subset
      <4>3. Cardinality(Starting(n)') \in Nat /\ Cardinality(Starting(n) \union {m.id}) \in Nat
        BY <3>2, <4>1, FS_Subset, FS_CardinalityType
      <4> QED
        BY <4>1, <4>2, <4>3, QueueFinite
    <3>4. \A n : Ending(n)' = Ending(n)
      BY <2>8, <2>10
    <3>5. subN \in Nat /\ subN' = subN /\ Opening \in Nat /\ Closing \in Nat
      BY <2>2 DEF Paired, Typed, WsTypeOK, Opening, Closing
    <3> QED
      BY <2>3, <3>1, <3>3, <3>4, <3>5, QueueFinite, LiveFinite DEF Counted
  <2>11. CASE ok /\ m.kind = "eth_unsubscribe" /\ s = NoSid /\ live' = live \ {m.sid}
    <3>1. Cardinality(live') >= Cardinality(live) - 1 /\ Cardinality(live') \in Nat
      <4>1. IsFiniteSet(live) /\ Cardinality(live) \in Nat
        BY LiveFinite
      <4>2. IsFiniteSet(live \ {m.sid}) /\ Cardinality(live \ {m.sid}) >= Cardinality(live) - 1
        <5>1. PICK x : x = m.sid
          OBVIOUS
        <5>2. /\ IsFiniteSet(live \ {x})
              /\ Cardinality(live \ {x}) = IF x \in live THEN Cardinality(live) - 1 ELSE Cardinality(live)
          BY <4>1, FS_RemoveElement
        <5> QED
          BY <4>1, <5>1, <5>2
      <4> QED
        BY <2>11, <4>2, FS_CardinalityType
    <3>2. \A n : Starting(n)' = Starting(n)
      BY <2>7, <2>11
    <3>3. \A n \in Nat : n <= Len(fromServer) + 1 => Ending(n)' = Ending(n) \union {m.id}
      <4> TAKE n \in Nat
      <4> SUFFICES ASSUME n <= Len(fromServer) + 1 PROVE Ending(n)' = Ending(n) \union {m.id}
        OBVIOUS
      <4>1. /\ IsAnswer(a) /\ a.id = m.id /\ a.ok /\ a.sid = NoSid
            /\ pending[m.id] = "eth_unsubscribe" /\ Len(fromServer) + 1 >= n
            /\ Len(fromServer) + 1 \in Queue'
        BY <2>2, <2>5, <2>6, <2>11
      <4>2. m.id \in Ending(n)'
        BY <2>2, <2>6, <4>1 DEF Ending
      <4>3. Ending(n) \subseteq Ending(n)'
        BY <2>2, <2>6 DEF Ending
      <4>4. Ending(n)' \subseteq Ending(n) \union {m.id}
        BY <2>2, <2>6, <4>1 DEF Ending
      <4> QED
        BY <4>2, <4>3, <4>4
    <3>4. \A n : m.id \notin Ending(n)
      BY DEF Ending, Paired, IdsOnce
    <3>5. \A n \in Nat :
            n <= Len(fromServer) + 1 => Cardinality(Ending(n)') = Cardinality(Ending(n)) + 1
      <4> TAKE n \in Nat
      <4>1. IsFiniteSet(Ending(n)) /\ m.id \notin Ending(n)
        BY <3>4, QueueFinite
      <4> QED
        BY <3>3, <4>1, FS_AddElement
    <3>6. \A n \in Nat : n > Len(fromServer) + 1 => Starting(n)' = {} /\ Ending(n)' = {}
      BY <2>6 DEF Starting, Ending
    <3>7. \A n \in Nat :
            n > Len(fromServer) + 1 => Cardinality(Starting(n)') = 0 /\ Cardinality(Ending(n)') = 0
      BY <3>6, FS_EmptySet
    <3>8. subN \in Nat /\ subN' = subN /\ Opening \in Nat /\ Closing \in Nat
      BY <2>2 DEF Paired, Typed, WsTypeOK, Opening, Closing
    <3>10. \A n \in Nat \ {0} :
             Cardinality(Starting(n)') <= Cardinality(live') + Cardinality(Ending(n)')
      <4> TAKE n \in Nat \ {0}
      <4>1. CASE n <= Len(fromServer) + 1
        BY <3>1, <3>2, <3>5, <4>1, QueueFinite, LiveFinite DEF Counted
      <4>2. CASE n > Len(fromServer) + 1
        BY <3>1, <3>7, <4>2
      <4> QED
        BY <2>6, <4>1, <4>2
    <3>11. subN' + Cardinality(Starting(1)') + Opening'
             <= Cardinality(live') + Cardinality(Ending(1)') + Closing'
      <4>1. Cardinality(Ending(1)') = Cardinality(Ending(1)) + 1
        BY <2>6, <3>5
      <4> QED
        BY <2>3, <3>1, <3>2, <3>8, <4>1, QueueFinite, LiveFinite DEF Counted
    <3> QED
      BY <3>10, <3>11 DEF Counted
  <2> QED
    BY <2>1, <2>9, <2>10, <2>11
<1>4. ASSUME NEW m \in Requests, ReadClient(m) PROVE Counted'
  BY <1>4, SameCounts DEF ReadClient, Starting, Ending, Opening, Closing, Method, Queue, Outbound
<1>5. CASE Register
  <2>1. /\ pending' = [pending EXCEPT ![inMsg.id] = inMsg.kind] /\ Inbound
        /\ UNCHANGED <<live, fromServer, subN, outVars>>
    BY <1>5 DEF Register, Inbound
  <2>2. \A i \in Ids : i # inMsg.id => pending'[i] = pending[i]
    BY <2>1 DEF Paired, Typed, WsTypeOK
  <2>3. /\ \A k \in Queue : IsAnswer(fromServer[k]) => fromServer[k].id # inMsg.id
        /\ Outbound => outMsg.id \in Ids /\ outMsg.id # inMsg.id
    BY <2>1, AnswerFields DEF Paired, IdsOnce, Unused, Typed, WsTypeOK
  <2>4. \A n : Starting(n)' = Starting(n) /\ Ending(n)' = Ending(n)
    BY <2>1, <2>2, <2>3 DEF Starting, Ending, Queue
  <2>5. Opening' = Opening /\ Closing' = Closing
    BY <2>1, <2>2, <2>3 DEF Opening, Closing, Method, Outbound
  <2> QED
    BY <2>1, <2>4, <2>5, SameCounts
<1>6. CASE Forward
  BY <1>6, SameCounts DEF Forward, Starting, Ending, Opening, Closing, Method, Queue, Outbound
<1>7. CASE ReadServer
  <2>1. /\ UNCHANGED <<live, pending, subN>> /\ ~Outbound
        /\ u2c' = IF outMsg'.kind = "push" THEN "write" ELSE "lookup"
    BY <1>7 DEF ReadServer, Outbound
  <2>2. /\ 1 \in Queue /\ outMsg' = fromServer[1] /\ Queue \subseteq Nat \ {0}
        /\ \A k \in Queue' : k + 1 \in Queue /\ fromServer'[k] = fromServer[k + 1]
        /\ \A k \in Queue : k >= 2 => k - 1 \in Queue' /\ fromServer'[k - 1] = fromServer[k]
        /\ Queue' \subseteq Nat \ {0}
    BY <1>7, Taken DEF Paired
  <2>3. outMsg'.kind = "push" \/ (outMsg' \in Answers /\ outMsg'.kind = "answer" /\ outMsg'.id \in Ids)
    BY <1>7, Taken, Kinds, AnswerFields DEF Paired
  <2>4. \A n \in Nat \ {0} : Starting(n)' = Starting(n + 1)
    BY <2>1, <2>2 DEF Starting
  <2>5. \A n \in Nat \ {0} : Ending(n)' = Ending(n + 1)
    BY <2>1, <2>2 DEF Ending
  <2>6. Opening = 0 /\ Closing = 0 /\ Opening' \in {0, 1} /\ Closing' \in {0, 1}
    BY <2>1 DEF Opening, Closing
  <2>7. Cardinality(Starting(1)) = Cardinality(Starting(2)) + Opening'
    <3>1. CASE Opening' = 1
      <4>1. Starting(1) = Starting(2) \union {fromServer[1].id} /\ fromServer[1].id \notin Starting(2)
        BY <2>1, <2>2, <2>3, <3>1 DEF Starting, Opening, Method, Outbound, Paired, IdsOnce
      <4> QED
        BY <3>1, <4>1, QueueFinite, FS_AddElement
    <3>2. CASE Opening' = 0
      <4>1. Starting(1) = Starting(2)
        BY <2>1, <2>2, <2>3, <3>2 DEF Starting, Opening, Method, Outbound
      <4> QED
        BY <3>2, <4>1, QueueFinite
    <3> QED
      BY <2>6, <3>1, <3>2
  <2>8. Cardinality(Ending(1)) = Cardinality(Ending(2)) + Closing'
    <3>1. CASE Closing' = 1
      <4>1. Ending(1) = Ending(2) \union {fromServer[1].id} /\ fromServer[1].id \notin Ending(2)
        BY <2>1, <2>2, <2>3, <3>1 DEF Ending, Closing, Method, Outbound, Paired, IdsOnce
      <4> QED
        BY <3>1, <4>1, QueueFinite, FS_AddElement
    <3>2. CASE Closing' = 0
      <4>1. Ending(1) = Ending(2)
        BY <2>1, <2>2, <2>3, <3>2 DEF Ending, Closing, Method, Outbound
      <4> QED
        BY <3>2, <4>1, QueueFinite
    <3> QED
      BY <2>6, <3>1, <3>2
  <2>9. subN \in Nat
    BY DEF Paired, Typed, WsTypeOK
  <2>10. \A n \in Nat \ {0} :
           Cardinality(Starting(n)') <= Cardinality(live') + Cardinality(Ending(n)')
    BY <2>1, <2>4, <2>5 DEF Counted
  <2>11. Starting(1)' = Starting(2) /\ Ending(1)' = Ending(2)
    BY <2>4, <2>5
  <2>12. subN' + Cardinality(Starting(1)') + Opening'
           <= Cardinality(live') + Cardinality(Ending(1)') + Closing'
    BY <2>1, <2>6, <2>7, <2>8, <2>9, <2>11, QueueFinite, LiveFinite DEF Counted
  <2> QED
    BY <2>10, <2>12 DEF Counted
<1>8. CASE TakePending
  <2>1. /\ pending' = [pending EXCEPT ![outMsg.id] = NoEntry] /\ found' = pending[outMsg.id]
        /\ UNCHANGED <<live, subN, fromServer, outMsg>> /\ u2c' = "track" /\ u2c = "lookup"
    BY <1>8 DEF TakePending
  <2>2. \A i \in Ids : i # outMsg.id => pending'[i] = pending[i]
    BY <2>1 DEF Paired, Typed, WsTypeOK
  <2>3. \A k \in Queue : IsAnswer(fromServer[k]) => fromServer[k].id # outMsg.id
    BY <2>1 DEF Paired, IdsOnce, Unused, Outbound
  <2>4. \A n : Starting(n)' = Starting(n) /\ Ending(n)' = Ending(n)
    BY <2>1, <2>2, <2>3 DEF Starting, Ending, Queue
  <2>5. Opening' = Opening /\ Closing' = Closing
    BY <2>1 DEF Opening, Closing, Method, Outbound
  <2> QED
    BY <2>1, <2>4, <2>5, SameCounts
<1>9. CASE Track
  <2>1. /\ UNCHANGED <<live, pending, fromServer, outMsg>> /\ u2c = "track" /\ u2c' = "write"
        /\ subN' = IF outMsg.ok /\ found = "eth_subscribe" THEN subN + 1
                   ELSE IF outMsg.ok /\ found = "eth_unsubscribe" /\ subN > 0 THEN subN - 1
                   ELSE subN
    BY <1>9 DEF Track
  <2>2. \A n : Starting(n)' = Starting(n) /\ Ending(n)' = Ending(n)
    BY <2>1 DEF Starting, Ending, Queue
  <2>3. Opening' = 0 /\ Closing' = 0 /\ subN \in Nat
    BY <2>1 DEF Opening, Closing, Outbound, Paired, Typed, WsTypeOK
  <2>4. Opening = IF outMsg.ok /\ found = "eth_subscribe" THEN 1 ELSE 0
    BY <2>1 DEF Opening, Outbound, Method
  <2>5. Closing = 1 => outMsg.ok /\ found = "eth_unsubscribe"
    BY <2>1 DEF Closing, Outbound, Method
  <2>6. Closing \in {0, 1}
    BY DEF Closing
  <2>7. Cardinality(Starting(1)) <= Cardinality(live) + Cardinality(Ending(1))
    BY DEF Counted
  <2>8. subN' + Cardinality(Starting(1)) <= Cardinality(live) + Cardinality(Ending(1))
    BY <2>1, <2>3, <2>4, <2>5, <2>6, <2>7, QueueFinite, LiveFinite DEF Counted
  <2>9. \A n \in Nat \ {0} :
          Cardinality(Starting(n)') <= Cardinality(live') + Cardinality(Ending(n)')
    BY <2>1, <2>2 DEF Counted
  <2>10. /\ Starting(1)' = Starting(1) /\ Ending(1)' = Ending(1) /\ live' = live
         /\ subN' \in Nat /\ Cardinality(Starting(1)) \in Nat /\ Cardinality(Ending(1)) \in Nat
         /\ Cardinality(live) \in Nat
    BY <2>1, <2>2, <2>3, QueueFinite, LiveFinite
  <2> QED
    BY <2>3, <2>8, <2>9, <2>10 DEF Counted
<1> QED
  BY <1>1, <1>2, <1>3, <1>4, <1>5, <1>6, <1>7, <1>8, <1>9, SessionSteps

\* What holds throughout a session.
SessionInv == Paired /\ Announced /\ Counted

\* The conjunction is inductive.
LEMMA SessionInvariant == WsSpec => []SessionInv
<1>1. WsInit => SessionInv
  BY PairedInit, AnnouncedInit, CountedInit DEF SessionInv
<1>2. SessionInv /\ [WsNext]_wsVars => SessionInv'
  BY PairedStep, AnnouncedStep, CountedStep DEF SessionInv
<1> QED
  BY <1>1, <1>2, PTL DEF WsSpec

(***************************************************************************)
(* The answer to a request finds the request in pending, with its method,  *)
(* however the two pumps interleave (handleInbound registers before        *)
(* pumpClientToUpstream forwards).                                         *)
(***************************************************************************)
THEOREM AnswersFindTheirRequests == WsSpec => []AnswersAreExpected
<1>1. SessionInv => AnswersAreExpected
  BY DEF SessionInv, Paired, Registered, AnswersAreExpected
<1> QED
  BY <1>1, SessionInvariant, PTL

(***************************************************************************)
(* A push that handleOutbound handles belongs to a subscription in subs:   *)
(* the answer that announced it was read, and tracked, before.             *)
(***************************************************************************)
THEOREM PushesFindTheirSubscription == WsSpec => []PushesAreKnown
<1>1. SessionInv => PushesAreKnown
  BY DEF SessionInv, Announced
<1> QED
  BY <1>1, SessionInvariant, PTL

(***************************************************************************)
(* subN never counts more than the live subscriptions and those whose end  *)
(* handleOutbound has still to read, for any number of requests in flight: *)
(* handleInbound refuses no subscription too early.                        *)
(***************************************************************************)
THEOREM SubscriptionsNotOvercounted == WsSpec => []SubsNotOvercounted
<1>1. SessionInv => SubsNotOvercounted
  <2> SUFFICES ASSUME SessionInv PROVE SubsNotOvercounted
    OBVIOUS
  <2>1. subN + Cardinality(Starting(1)) + Opening
          <= Cardinality(live) + Cardinality(Ending(1)) + Closing
    BY DEF SessionInv, Counted
  <2>2. subN \in Nat /\ Opening \in Nat /\ Closing \in Nat
    BY DEF SessionInv, Paired, Typed, WsTypeOK, Opening, Closing
  <2>3. Cardinality(EndingSubs) = Cardinality(Ending(1)) + Closing
    BY EndingCount DEF SessionInv
  <2>4. /\ Cardinality(Starting(1)) \in Nat /\ Cardinality(Ending(1)) \in Nat
        /\ Cardinality(live) \in Nat
    BY QueueFinite, LiveFinite DEF SessionInv
  <2> QED
    BY <2>1, <2>2, <2>3, <2>4 DEF SubsNotOvercounted
<1> QED
  BY <1>1, SessionInvariant, PTL

(***************************************************************************)
(* The maps, the messages in hand and errCh have their types; in           *)
(* particular only ids the upstream handed out get into subs, and errCh    *)
(* never holds more than its capacity.                                     *)
(***************************************************************************)
THEOREM SessionTyped == WsSpec => []WsTypeOK
<1>1. SessionInv => WsTypeOK
  BY DEF SessionInv, Paired, Typed
<1> QED
  BY <1>1, SessionInvariant, PTL
===============================================================================
