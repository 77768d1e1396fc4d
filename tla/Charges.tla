------------------------------ MODULE Charges ------------------------------
(***************************************************************************)
(* What the billing ledger promises: an event is charged at most once, and *)
(* a charge and the usage it causes become visible together.  Billing      *)
(* implements it.                                                          *)
(***************************************************************************)
EXTENDS Integers

CONSTANTS Events, Accounts,  \* billing events; pairs of an API token and a day
          AccountOf, Units,  \* the account of an event, the calls it stands for
          Billable           \* the events of tokens that are not billing_free

VARIABLES billing_events, usage_daily

vars == <<billing_events, usage_daily>>

Init ==
  /\ billing_events = {}
  /\ usage_daily = [a \in Accounts |-> [success |-> 0, billable |-> 0]]

AddUsage(e, billable) ==
  usage_daily' = [usage_daily EXCEPT ![AccountOf[e]] =
                    [success |-> @.success + Units[e], billable |-> @.billable + billable]]

Charge(e) ==
  /\ e \in Billable \ billing_events
  /\ billing_events' = billing_events \union {e}
  /\ AddUsage(e, Units[e])

UseFree(e) ==
  /\ e \in Events \ Billable
  /\ AddUsage(e, 0)
  /\ UNCHANGED billing_events

Next == \E e \in Events : Charge(e) \/ UseFree(e)

Spec == Init /\ [][Next]_vars
=============================================================================
