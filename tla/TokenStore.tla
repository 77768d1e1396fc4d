----------------------------- MODULE TokenStore -----------------------------
(***************************************************************************)
(* The cache of API tokens (internal/auth.Store) over the tables           *)
(* api_tokens and plans (internal/db).  loopRefresh reads the enabled      *)
(* tokens with one SELECT and swaps the map; a failed refresh keeps the    *)
(* old one.  A refresh fails when the database does, and also when the     *)
(* denied_methods of any enabled token cannot be parsed (ToModel).         *)
(***************************************************************************)
EXTENDS Integers

CONSTANTS Tokens

VARIABLES row,     \* of each token in the database: "on", "off" (disabled or
                   \* absent) or "garbled" (enabled, denied_methods unparsable)
          tokens,  \* s.tokens: "on" if the map has the token, else "off"
          list,    \* what the SELECT of the refresh under way returned
          loop     \* where loopRefresh is

vars == <<row, tokens, list, loop>>

Readable == \A t \in Tokens : row[t] # "garbled"

\* NewStoreFromDB: the process exits if the first load fails.
Init ==
  /\ row \in [Tokens -> {"on", "off"}]
  /\ tokens = row
  /\ list = row
  /\ loop = "wait"

Goto(from, to) == loop = from /\ loop' = to

Edit ==                      \* external: a transaction of the operator
  /\ row' \in [Tokens -> {"on", "off", "garbled"}]
  /\ UNCHANGED <<tokens, list, loop>>

Begin ==                     \* <-t.C
  /\ Goto("wait", "query")
  /\ UNCHANGED <<row, tokens, list>>

ListEnabledTokens ==
  /\ Readable
  /\ Goto("query", "swap")
  /\ list' = row
  /\ UNCHANGED <<row, tokens>>

RefreshFails ==              \* database error, 10 s timeout, or a garbled row
  /\ Goto("query", "wait")
  /\ UNCHANGED <<row, tokens, list>>

SwapMerges ==
  /\ Goto("swap", "wait")
  /\ tokens' = [t \in Tokens |-> IF list[t] = "on" THEN "on" ELSE tokens[t]]
  /\ UNCHANGED <<row, list>>

Swap ==                      \* under the write lock
  /\ Goto("swap", "wait")
  /\ tokens' = list
  /\ UNCHANGED <<row, list>>

Lookup(t) == tokens[t] = "on"

Next == Edit \/ Begin \/ ListEnabledTokens \/ RefreshFails \/ Swap

\* The ticker goes on, and the database does not fail for ever.
Fairness == WF_vars(Begin \/ RefreshFails) /\ SF_vars(ListEnabledTokens) /\ WF_vars(Swap)

----------------------------------------------------------------------------
(***************************************************************************)
(* A token that is and stays enabled, or disabled, in the database is in   *)
(* the end always served, or refused, however often refreshes fail and     *)
(* other tokens change, provided that all enabled rows can be parsed from  *)
(* some time on: one row that cannot freezes the cache for every token.    *)
(***************************************************************************)
CacheFollowsDatabase ==
  \A t \in Tokens : \A state \in {"on", "off"} :
    <>[](row[t] = state /\ Readable) => <>[](tokens[t] = state)
=============================================================================
