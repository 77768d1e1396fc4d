------------------------------ MODULE Sessions ------------------------------
(***************************************************************************)
(* WebSocket upgrades against a changing token store: PathAuth looks the   *)
(* token up and copies it into the request's context, then Handler takes a *)
(* slot of ConnGuard and the session runs on the copy.  The store may      *)
(* forget the token at any time in between.                                *)
(***************************************************************************)
EXTENDS ConnGuard

VARIABLES authorized,             \* the goroutines that hold a copy of their token
          row, tokens, list, loop  \* of module TokenStore

Store == INSTANCE TokenStore

storeVars == <<row, tokens, list, loop>>
allVars == <<vars, authorized, storeVars>>

SessionsInit == Init /\ Store!Init /\ authorized = {}

\* The store's step A, beside the goroutines.
Beside(A) == A /\ UNCHANGED <<vars, authorized>>

LookupIgnored(h) ==
  /\ pc[h] = "idle" /\ h \notin authorized
  /\ authorized' = authorized \union {h}
  /\ UNCHANGED <<vars, storeVars>>

Lookup(h) ==                      \* PathAuth; 401 if the store does not have the token
  /\ pc[h] = "idle" /\ h \notin authorized
  /\ Store!Lookup(TokenOf[h])
  /\ authorized' = authorized \union {h}
  /\ UNCHANGED <<vars, storeVars>>

Enter(h) ==
  /\ h \in authorized
  /\ Acquire(h)
  /\ UNCHANGED <<authorized, storeVars>>

TurnAway(h) ==
  /\ h \in authorized
  /\ Reject(h)
  /\ authorized' = authorized \ {h}
  /\ UNCHANGED storeVars

Proceed(h) ==
  /\ SetupFails(h) \/ Establish(h) \/ SessionOver(h)
  /\ UNCHANGED <<authorized, storeVars>>

Leave(h) ==
  /\ Release(h)
  /\ authorized' = authorized \ {h}
  /\ UNCHANGED storeVars

Serve(h) == Lookup(h) \/ Enter(h) \/ TurnAway(h) \/ Proceed(h) \/ Leave(h)

SessionsNext == Beside(Store!Next) \/ \E h \in Handlers : Serve(h)

\* A goroutine that has its copy goes on; how long sessions last is not promised.
SessionsFairness ==
  /\ WF_allVars(Beside(Store!Begin \/ Store!RefreshFails))
  /\ SF_allVars(Beside(Store!ListEnabledTokens))
  /\ WF_allVars(Beside(Store!Swap))
  /\ \A h \in Handlers : WF_allVars(Enter(h) \/ TurnAway(h))

SessionsSpec == SessionsInit /\ [][SessionsNext]_allVars /\ SessionsFairness

----------------------------------------------------------------------------
(* Properties *)

CacheFollowsDatabase == Store!CacheFollowsDatabase

(***************************************************************************)
(* A token that is and stays disabled, with all enabled rows parsable, is  *)
(* in the end given no new connection: neither a late refresh nor a copy   *)
(* made by PathAuth before it keeps admitting clients.  Sessions that run  *)
(* keep their copy and may go on for ever.                                 *)
(***************************************************************************)
DisabledTokenShutOut ==
  \A t \in Tokens :
    <>[](row[t] = "off" /\ Store!Readable)
      => <>[][\A h \in Handlers : TokenOf[h] = t => ~Enter(h)]_allVars
=============================================================================
