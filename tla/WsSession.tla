----------------------------- MODULE WsSession -----------------------------
(***************************************************************************)
(* One proxied WebSocket connection (internal/wsproxy): the pump from the  *)
(* client to the upstream, the pump from the upstream to the client, and   *)
(* the handler that waits for the first of them to end.  The pumps share   *)
(* pending, subs and subN under s.mu, and the client connection, to which  *)
(* both of them write, without a lock.                                     *)
(***************************************************************************)
EXTENDS Integers, Sequences, FiniteSets

CONSTANTS Ids,        \* JSON-RPC ids the client uses
          Sids,       \* subscription ids the upstream hands out
          MaxSubs,    \* max_subscriptions_per_connection
          MaxQueue    \* bound on the messages between upstream and gateway

ASSUME SessionAssumption == {MaxSubs, MaxQueue} \subseteq Nat

VARIABLES clientOpen, serverOpen,  \* the two connections
          asked,      \* external: requests the upstream has not answered
          live,       \* external: subscriptions that exist at the upstream
          fromServer, \* messages on their way from the upstream, in order
          pending, subs, subN,     \* of the session, under s.mu
          c2u, inMsg,   \* pumpClientToUpstream: position, message in hand
          u2c, outMsg,  \* pumpUpstreamToClient: position, message in hand
          found,        \* its local pr, or NoEntry
          errCh,        \* errors in the channel
          handler       \* position of ServeHTTP

connVars == <<clientOpen, serverOpen>>
serverVars == <<asked, live, fromServer>>
sessVars == <<pending, subs, subN>>
inVars == <<c2u, inMsg>>
outVars == <<u2c, outMsg, found>>
endVars == <<errCh, handler>>
wsVars == <<connVars, serverVars, sessVars, inVars, outVars, endVars>>

NoSid == "none"
NoEntry == "no entry"
NoMsg == [kind |-> "none"]

Call(i) == [kind |-> "call", id |-> i, sid |-> NoSid]
Subscribe(i) == [kind |-> "eth_subscribe", id |-> i, sid |-> NoSid]
Unsubscribe(i, s) == [kind |-> "eth_unsubscribe", id |-> i, sid |-> s]
Requests == {Call(i) : i \in Ids} \union {Subscribe(i) : i \in Ids}
            \union {Unsubscribe(i, s) : i \in Ids, s \in Sids}

\* ok: the answer has no error; sid: the result of a successful eth_subscribe.
Answer(i, ok, s) == [kind |-> "answer", id |-> i, ok |-> ok, sid |-> s]
Push(s) == [kind |-> "push", sid |-> s]
Answers == {Answer(i, ok, s) : i \in Ids, ok \in BOOLEAN, s \in Sids \union {NoSid}}
Pushes == {Push(s) : s \in Sids}

WsInit ==
  /\ clientOpen = TRUE /\ serverOpen = TRUE
  /\ asked = {} /\ live = {} /\ fromServer = <<>>
  /\ pending = [i \in Ids |-> NoEntry]
  /\ subs = {} /\ subN = 0
  /\ c2u = "read" /\ inMsg = NoMsg
  /\ u2c = "read" /\ outMsg = NoMsg /\ found = NoEntry
  /\ errCh = 0 /\ handler = "wait"

----------------------------------------------------------------------------
(* The peers (external) *)

ClientCloses ==
  /\ clientOpen
  /\ clientOpen' = FALSE
  /\ UNCHANGED <<serverOpen, serverVars, sessVars, inVars, outVars, endVars>>

ServerCloses ==
  /\ serverOpen
  /\ serverOpen' = FALSE
  /\ UNCHANGED <<clientOpen, serverVars, sessVars, inVars, outVars, endVars>>

Deliver(m) ==
  /\ serverOpen
  /\ Len(fromServer) < MaxQueue
  /\ fromServer' = Append(fromServer, m)

\* The upstream answers in any order, and a subscription's answer precedes
\* its pushes.  An unsubscribe that removes nothing answers result false.
ServerAnswers(m) ==
  /\ m \in asked
  /\ asked' = asked \ {m}
  /\ \/ Deliver(Answer(m.id, FALSE, NoSid)) /\ UNCHANGED live
     \/ /\ m.kind = "call"
        /\ Deliver(Answer(m.id, TRUE, NoSid))
        /\ UNCHANGED live
     \/ /\ m.kind = "eth_subscribe"
        /\ \E s \in Sids \ live : Deliver(Answer(m.id, TRUE, s)) /\ live' = live \union {s}
     \/ /\ m.kind = "eth_unsubscribe"
        /\ Deliver(Answer(m.id, TRUE, NoSid))
        /\ live' = live \ {m.sid}
  /\ UNCHANGED <<connVars, sessVars, inVars, outVars, endVars>>

ServerPushes ==
  /\ \E s \in live : Deliver(Push(s))
  /\ UNCHANGED <<asked, live, connVars, sessVars, inVars, outVars, endVars>>

----------------------------------------------------------------------------
(* Steps both pumps take *)

\* s.closeBoth: once closed, later calls change nothing.
CloseBoth == clientOpen' = FALSE /\ serverOpen' = FALSE

ErrChCapacityNone == 0

ErrChCapacity == 2           \* make(chan error, 2)

\* errCh <- err: into the buffer, or straight to the waiting handler.
CanSend == errCh < ErrChCapacity \/ handler = "wait"

\* External: client.WriteMessage panics when it finds another goroutine inside
\* it, and the panic of a pump ends the process.
ConcurrentWrite ==
  /\ clientOpen
  /\ \/ c2u = "refuse" /\ u2c = "writing"
     \/ u2c = "write" /\ c2u = "refusing"
  /\ c2u' = "dead" /\ u2c' = "dead" /\ handler' = "dead"
  /\ CloseBoth
  /\ UNCHANGED <<errCh, inMsg, outMsg, found, serverVars, sessVars>>

----------------------------------------------------------------------------
(* pumpClientToUpstream *)

\* A client does not reuse the id of a request it has no answer to.
IdFree(i) ==
  /\ \A m \in asked : m.id # i
  /\ \A k \in DOMAIN fromServer : fromServer[k].kind = "answer" => fromServer[k].id # i
  /\ (u2c # "read" /\ outMsg.kind = "answer") => outMsg.id # i

\* ReadMessage, the rate limit and the method filter; the last two may refuse.
ReadClient(m) ==
  /\ c2u = "read" /\ clientOpen
  /\ IdFree(m.id)
  /\ inMsg' = m
  /\ c2u' \in {"refuse", IF m.kind = "eth_subscribe" THEN "check" ELSE "register"}
  /\ UNCHANGED <<connVars, serverVars, sessVars, outVars, endVars>>

CheckSubs ==                 \* over := s.subN >= s.maxSubs, if maxSubs > 0
  /\ c2u = "check"
  /\ c2u' = IF MaxSubs > 0 /\ subN >= MaxSubs THEN "refuse" ELSE "register"
  /\ UNCHANGED <<inMsg, connVars, serverVars, sessVars, outVars, endVars>>

RegisterNothing ==
  /\ c2u = "register"
  /\ c2u' = "forward"
  /\ UNCHANGED <<inMsg, connVars, serverVars, sessVars, outVars, endVars>>

Register ==                  \* s.pending[id] = pendingReq{...}
  /\ c2u = "register"
  /\ pending' = [pending EXCEPT ![inMsg.id] = inMsg.kind]
  /\ c2u' = "forward"
  /\ UNCHANGED <<subs, subN, inMsg, connVars, serverVars, outVars, endVars>>

Forward ==                   \* s.server.WriteMessage succeeds
  /\ c2u = "forward" /\ serverOpen
  /\ asked' = asked \union {inMsg}
  /\ c2u' = "read"
  /\ inMsg' = NoMsg
  /\ UNCHANGED <<live, fromServer, connVars, sessVars, outVars, endVars>>

BeginRefuse ==               \* enter s.client.WriteMessage
  /\ c2u = "refuse"
  /\ clientOpen => u2c # "writing"
  /\ c2u' = "refusing"
  /\ UNCHANGED <<inMsg, connVars, serverVars, sessVars, outVars, endVars>>

EndRefuse ==                 \* its error is ignored
  /\ c2u = "refusing"
  /\ c2u' = "read"
  /\ inMsg' = NoMsg
  /\ UNCHANGED <<connVars, serverVars, sessVars, outVars, endVars>>

InFails ==                   \* ReadMessage or WriteMessage returns an error
  /\ \/ c2u = "read" /\ ~clientOpen
     \/ c2u = "forward" /\ ~serverOpen
  /\ c2u' = "exit"
  /\ inMsg' = NoMsg
  /\ CloseBoth
  /\ UNCHANGED <<serverVars, sessVars, outVars, endVars>>

InExits ==
  /\ c2u = "exit" /\ CanSend
  /\ c2u' = "done"
  /\ errCh' = errCh + 1
  /\ UNCHANGED <<inMsg, handler, connVars, serverVars, sessVars, outVars>>

----------------------------------------------------------------------------
(* pumpUpstreamToClient *)

ReadServer ==
  /\ u2c = "read" /\ serverOpen /\ fromServer # <<>>
  /\ outMsg' = Head(fromServer)
  /\ fromServer' = Tail(fromServer)
  /\ u2c' = IF Head(fromServer).kind = "push" THEN "write" ELSE "lookup"
  /\ UNCHANGED <<found, asked, live, connVars, sessVars, inVars, endVars>>

TakePending ==               \* pr, found := s.pending[id]; delete(s.pending, id)
  /\ u2c = "lookup"
  /\ found' = pending[outMsg.id]
  /\ pending' = [pending EXCEPT ![outMsg.id] = NoEntry]
  /\ u2c' = "track"
  /\ UNCHANGED <<outMsg, subs, subN, connVars, serverVars, inVars, endVars>>

TrackCountsRefusals ==
  /\ u2c = "track"
  /\ subs' = IF outMsg.ok /\ found = "eth_subscribe" THEN subs \union {outMsg.sid} ELSE subs
  /\ subN' = IF found = "eth_subscribe" THEN subN + 1
             ELSE IF outMsg.ok /\ found = "eth_unsubscribe" /\ subN > 0 THEN subN - 1
             ELSE subN
  /\ found' = NoEntry
  /\ u2c' = "write"
  /\ UNCHANGED <<outMsg, pending, connVars, serverVars, inVars, endVars>>

TrackCountOnly ==
  /\ u2c = "track"
  /\ subN' = IF outMsg.ok /\ found = "eth_subscribe" THEN subN + 1
             ELSE IF outMsg.ok /\ found = "eth_unsubscribe" /\ subN > 0 THEN subN - 1
             ELSE subN
  /\ found' = NoEntry
  /\ u2c' = "write"
  /\ UNCHANGED <<outMsg, pending, subs, connVars, serverVars, inVars, endVars>>

\* A successful answer to eth_subscribe or eth_unsubscribe moves subN.
Track ==
  /\ u2c = "track"
  /\ subs' = IF outMsg.ok /\ found = "eth_subscribe" THEN subs \union {outMsg.sid} ELSE subs
  /\ subN' = IF outMsg.ok /\ found = "eth_subscribe" THEN subN + 1
             ELSE IF outMsg.ok /\ found = "eth_unsubscribe" /\ subN > 0 THEN subN - 1
             ELSE subN
  /\ found' = NoEntry
  /\ u2c' = "write"
  /\ UNCHANGED <<outMsg, pending, connVars, serverVars, inVars, endVars>>

BeginWrite ==                \* enter s.client.WriteMessage
  /\ u2c = "write"
  /\ clientOpen => c2u # "refusing"
  /\ u2c' = "writing"
  /\ UNCHANGED <<outMsg, found, connVars, serverVars, sessVars, inVars, endVars>>

EndWrite ==
  /\ u2c = "writing" /\ clientOpen
  /\ u2c' = "read"
  /\ outMsg' = NoMsg
  /\ UNCHANGED <<found, connVars, serverVars, sessVars, inVars, endVars>>

OutFails ==                  \* ReadMessage or WriteMessage returns an error
  /\ \/ u2c = "read" /\ ~serverOpen
     \/ u2c = "writing" /\ ~clientOpen
  /\ u2c' = "exit"
  /\ outMsg' = NoMsg
  /\ CloseBoth
  /\ UNCHANGED <<found, serverVars, sessVars, inVars, endVars>>

OutExits ==
  /\ u2c = "exit" /\ CanSend
  /\ u2c' = "done"
  /\ errCh' = errCh + 1
  /\ UNCHANGED <<outMsg, found, handler, connVars, serverVars, sessVars, inVars>>

----------------------------------------------------------------------------
(* ServeHTTP after the session has started *)

Receive ==                   \* <-errCh, then the deferred closes and the slot's release
  /\ handler = "wait" /\ errCh > 0
  /\ errCh' = errCh - 1
  /\ handler' = "released"
  /\ CloseBoth
  /\ UNCHANGED <<serverVars, sessVars, inVars, outVars>>

----------------------------------------------------------------------------
Peers ==
  \/ ClientCloses \/ ServerCloses \/ ServerPushes
  \/ \E m \in asked : ServerAnswers(m)

InStep ==
  \/ CheckSubs \/ Register \/ Forward \/ BeginRefuse \/ EndRefuse \/ InFails \/ InExits

OutStep ==
  \/ ReadServer \/ TakePending \/ Track \/ BeginWrite \/ EndWrite \/ OutFails \/ OutExits

Gone == c2u = "done" /\ u2c = "done" /\ handler = "released"

Panicked == handler = "dead"

\* Nothing moves after the end of the session or of the process.
Ended == (Gone \/ Panicked) /\ UNCHANGED wsVars

WsNext ==
  \/ Peers
  \/ \E m \in Requests : ReadClient(m)
  \/ InStep
  \/ OutStep
  \/ ConcurrentWrite
  \/ Receive
  \/ Ended

\* The pumps and the handler keep running: both peers read what is sent to
\* them, so a WriteMessage returns (the code sets no write deadline).
Fairness ==
  /\ WF_wsVars(InStep \/ ConcurrentWrite)
  /\ WF_wsVars(OutStep \/ ConcurrentWrite)
  /\ WF_wsVars(Receive)

WsSpec == WsInit /\ [][WsNext]_wsVars /\ Fairness

----------------------------------------------------------------------------
(* Properties *)

WsTypeOK ==
  /\ clientOpen \in BOOLEAN /\ serverOpen \in BOOLEAN
  /\ asked \subseteq Requests
  /\ live \subseteq Sids
  /\ fromServer \in Seq(Answers \union Pushes)
  /\ pending \in [Ids -> {NoEntry, "call", "eth_subscribe", "eth_unsubscribe"}]
  /\ subs \subseteq Sids
  /\ subN \in Nat
  /\ c2u \in {"read", "check", "register", "forward", "refuse", "refusing", "exit", "done",
             "dead"}
  /\ inMsg \in Requests \union {NoMsg}
  /\ u2c \in {"read", "lookup", "track", "write", "writing", "exit", "done", "dead"}
  /\ outMsg \in Answers \union Pushes \union {NoMsg}
  /\ found \in {NoEntry, "call", "eth_subscribe", "eth_unsubscribe"}
  /\ errCh \in 0 .. 2
  /\ handler \in {"wait", "released", "dead"}

(***************************************************************************)
(* However the pumps interleave, the answer to a request is found in       *)
(* pending, with the request's method: the request is registered before it *)
(* is forwarded (handleInbound, handleOutbound).                           *)
(***************************************************************************)
AnswersAreExpected ==
  /\ \A m \in asked : pending[m.id] = m.kind
  /\ u2c = "lookup" => pending[outMsg.id] # NoEntry

(***************************************************************************)
(* A push that is handled belongs to a subscription in subs, so it is      *)
(* published with the kind the client subscribed to (handleOutbound).      *)
(***************************************************************************)
PushesAreKnown == u2c = "write" /\ outMsg.kind = "push" => outMsg.sid \in subs

(***************************************************************************)
(* When either side closes its connection, both pumps end and the handler  *)
(* releases the token's connection slot: neither pump waits for the other  *)
(* to be received from errCh.                                              *)
(***************************************************************************)
SessionEnds == (~clientOpen \/ ~serverOpen) ~> (Gone \/ Panicked)

EndingSubs ==
  {i \in Ids : \/ /\ pending[i] = "eth_unsubscribe"
                  /\ \/ \E k \in DOMAIN fromServer : fromServer[k] = Answer(i, TRUE, NoSid)
                     \/ u2c = "lookup" /\ outMsg = Answer(i, TRUE, NoSid)
               \/ u2c = "track" /\ found = "eth_unsubscribe" /\ outMsg = Answer(i, TRUE, NoSid)}

(***************************************************************************)
(* handleInbound refuses no subscription too early: subN counts no         *)
(* subscription that was refused or has ended, except those whose          *)
(* eth_unsubscribe answer is still on its way through handleOutbound.      *)
(***************************************************************************)
SubsNotOvercounted == subN <= Cardinality(live) + Cardinality(EndingSubs)

(***************************************************************************)
(* docs/websocket.md: a request over the limits or of a denied method is   *)
(* refused, as over HTTP; refusing it does not bring the gateway down.     *)
(***************************************************************************)
NeverPanics == ~Panicked
=============================================================================
