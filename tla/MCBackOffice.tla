----------------------------- MODULE MCBackOffice -----------------------------
(***************************************************************************)
(* Money and messages in one instance for TLC: the outbox, the webhooks,   *)
(* fees and the subscription.  They share no state, so they are searched   *)
(* side by side and not interleaved: a behaviour is one component's.  The  *)
(* subscription is searched twice: once with nobody joining or leaving     *)
(* ("billing"), and once with them, one event fewer and one first plan     *)
(* under way at a time ("limits").                                         *)
(***************************************************************************)
EXTENDS Outbox, Webhooks, Fees, MCBilling

VARIABLE component

OneBorrower == [l \in LateLoans |-> CHOOSE p \in Patrons : TRUE]

Init ==
  /\ component \in {"outbox", "webhooks", "fees", "billing", "limits"}
  /\ OutboxInit /\ WebhooksInit /\ FeesInit /\ BillingInit

Next ==
  \/ component = "outbox" /\ OutboxNext /\ UNCHANGED <<component, hookVars, feesVars, billingVars>>
  \/ component = "webhooks" /\ WebhooksNext /\ UNCHANGED <<component, outboxVars, feesVars, billingVars>>
  \/ component = "fees" /\ FeesNext /\ UNCHANGED <<component, outboxVars, hookVars, billingVars>>
  \/ /\ component \in {"billing", "limits"}
     /\ BillingNext /\ UNCHANGED <<component, outboxVars, hookVars, feesVars>>
     /\ component = "billing" => UNCHANGED <<members, joining>>
     /\ component = "limits" =>
          subscribing' <= 1 /\ handling'[ePaid] = None /\ ePaid \notin claimed'

BackOffice == Init /\ [][Next]_<<component, outboxVars, hookVars, feesVars, billingVars>>

\* What is interchangeable.
Symmetry == Permutations(Workers) \cup JoinerSymmetry

\* The state of the component that runs: the others stay as they began.
State ==
  CASE component = "outbox" -> <<1, outboxVars>>
    [] component = "webhooks" -> <<2, hookVars>>
    [] component = "fees" -> <<3, feesVars>>
    [] component = "billing" -> <<4, billingVars>>
    [] component = "limits" -> <<5, billingVars>>

\* Every field of the four components has its type, a worker works on an event
\* of its own batch, a sweep sends what it claimed, no more of a payment is taken
\* back from a fee than it gave, and a period never runs below zero.
BackOfficeTypeOK == OutboxTypeOK /\ WebhooksTypeOK /\ FeesTypeOK /\ BillingTypeOK
=============================================================================
