------------------------------- MODULE MCSweeps -------------------------------
(***************************************************************************)
(* What the sweeps must bring about, in one instance for TLC: the webhook  *)
(* sweep, the digital sweeps and the billing cycle.  The components share  *)
(* no state, so they are searched side by side: a behaviour is one         *)
(* component's, and so is its fairness.                                    *)
(***************************************************************************)
EXTENDS Webhooks, MCDigital, MCBilling

VARIABLE component

\* The state of the component that runs: the others stay as they began.
State ==
  CASE component = "webhooks" -> <<1, hookVars>>
    [] component = "digital" -> <<2, OpenRows>>
    [] component = "billing" -> <<3, billingVars>>

Init ==
  /\ component \in {"webhooks", "digital", "billing"}
  /\ WebhooksInit /\ DigitalInit /\ BillingInit

vars == <<component, hookVars, digitalVars, billingVars>>

\* Only the component c takes a step.
Only(c) ==
  /\ component = c /\ UNCHANGED component
  /\ c # "webhooks" => UNCHANGED hookVars
  /\ c # "digital" => UNCHANGED digitalVars
  /\ c # "billing" => UNCHANGED billingVars

Next ==
  \/ Only("webhooks") /\ WebhooksNext
  \/ Only("digital") /\ DigitalNext
  \/ Only("billing") /\ BillingNext

\* The fairness of each component, for the behaviours that are its own.
Fairness ==
  /\ WF_vars(Only("webhooks") /\ \E s \in Sweepers : SweepWork(s))
  /\ \A d \in Deliveries :
       /\ WF_vars(Only("webhooks") /\ AgeHook(d))
       /\ SF_vars(/\ Only("webhooks")
                  /\ \E s \in Sweepers, S \in SUBSET Deliveries : d \in S /\ ClaimHooks(s, S))
  /\ \A n \in LoanIds : WF_vars(Only("digital") /\ ExpireLoan(n))
  /\ \A h \in HoldIds : WF_vars(Only("digital") /\ ExpireHold(h))
  /\ WF_vars(Only("billing") /\ ListDue)
  /\ WF_vars(Only("billing") /\ (ChargeListed \/ CancelListed))
  /\ SF_vars(Only("billing") /\ cycle = "idle" /\ GraceEnds)

Sweeps == Init /\ [][Next]_vars /\ Fairness
=============================================================================
