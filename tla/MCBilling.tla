------------------------------ MODULE MCBilling ------------------------------
(* Instances of Billing for TLC: two plans, the second costs twice the first. *)
EXTENDS Billing, TLC

CONSTANTS small, big, ePaid, eFailed, c1

Prices == (small :> 2) @@ (big :> 4)
Caps == (small :> 1) @@ (big :> None)
Statuses == [e \in GatewayEvents |-> IF e = ePaid THEN "active" ELSE "past_due"]
PlanOf == c1 :> big

JoinerSymmetry == Permutations(Joiners)
=============================================================================
