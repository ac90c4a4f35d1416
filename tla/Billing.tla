------------------------------- MODULE Billing -------------------------------
(***************************************************************************)
(* The subscription of one library: trial, renewal, dunning, plan changes  *)
(* with proration and account credit, hosted checkout, and the events of   *)
(* the payment gateway (library/billing.py), and the limit a plan sets to  *)
(* the number of patrons (library/entitlements.py, library/services.py).   *)
(*                                                                         *)
(* A call is one transaction that locks the subscription, and one step.    *)
(* Four things read without a lock and act later, so they are two steps:   *)
(* the billing cycle, which lists subscriptions and then acts on each; a   *)
(* gateway event, which reads the subscription and then saves it; the      *)
(* choice of a first plan, which finds no subscription and then            *)
(* subscribes; and a registration, which asks for room and then creates    *)
(* the patron.  One billing cycle runs at a time (the scheduler's lock).   *)
(***************************************************************************)
EXTENDS Library, FiniteSetsExt

CONSTANTS
  Plans, Price, PatronCap,   \* PatronCap[pl] = None: no limit
  Period,                    \* units of time that a payment covers
  MaxDunning,
  GatewayEvents, EventStatus,   \* the status that an event stands for
  Sessions, SessionPlan,        \* checkout sessions
  Joiners,                      \* requests that register a patron
  MaxCredit, MaxMembers, MaxSubscribing   \* bounds

ASSUME BillingAssumption ==
  /\ Price \in [Plans -> Nat] /\ PatronCap \in [Plans -> Nat \cup {None}]
  /\ {Period, MaxDunning} \subseteq Nat \ {0}
  /\ EventStatus \in [GatewayEvents -> {"active", "past_due", "canceled"}]
  /\ SessionPlan \in [Sessions -> Plans]
  /\ {MaxCredit, MaxMembers, MaxSubscribing} \subseteq Nat
  /\ IsFiniteSet(Joiners)
  /\ None \notin Plans

VARIABLES
  subStatus, plan, left, dunned, grace, credit,   \* Subscription; left of its period
  unpaid,        \* the last charge of a period was declined, and none paid since
  charges,       \* changes with each charge for a period (0, 1, 0, ...)
  cycle,         \* what the billing cycle means to do
  claimed,       \* GatewayEvent
  handling,      \* the status that the handler of an event has read
  session,       \* CheckoutSession.status
  subscribing,   \* how many callers found no subscription and will subscribe
  members, joining,
  fitted,        \* the plan was last changed by change_plan, which looks at usage
  unasked        \* by how much sign-ins have outnumbered departures since

subscriptionVars == <<subStatus, plan, left, dunned, grace, credit>>
callVars == <<claimed, handling, session, subscribing>>
memberVars == <<members, joining, fitted, unasked>>
billingVars == <<subscriptionVars, unpaid, charges, cycle, callVars, memberVars>>

SubscriptionStatus == {"trialing", "active", "past_due", "canceled"}

Least(a, b) == IF a < b THEN a ELSE b

\* Subscription.is_serviceable
Serviceable ==
  \/ subStatus \in {"trialing", "active"}
  \/ subStatus = "past_due" /\ grace

----------------------------------------------------------------------------
(* Charging for a period.                                                  *)

\* What the card is asked for, once the credit is used up.
Net(pl) == Price[pl] - Least(credit, Price[pl])

\* A period is paid: by the card, or by credit alone.
Paid(pl) ==
  /\ subStatus' = "active"
  /\ plan' = pl
  /\ left' = Period
  /\ dunned' = 0
  /\ grace' = FALSE
  /\ credit' = credit - Least(credit, Price[pl])
  /\ unpaid' = FALSE
  /\ charges' = 1 - charges

\* subscribe declines: the period is granted all the same, on grace.
DeclinedNew(pl) ==
  /\ Net(pl) > 0
  /\ subStatus' = "past_due"
  /\ plan' = pl
  /\ left' = Period
  /\ dunned' = 1
  /\ grace' = TRUE
  /\ unpaid' = TRUE
  /\ UNCHANGED <<credit, charges>>

\* _enter_dunning: a grace that is over begins again.
EnterDunning ==
  /\ Net(plan) > 0
  /\ subStatus' = "past_due"
  /\ dunned' = Least(dunned + 1, MaxDunning)
  /\ grace' = TRUE
  /\ unpaid' = TRUE
  /\ UNCHANGED <<plan, left, credit, charges>>

\* ChangePlanAPI or the dashboard finds no subscription ...
FindNone ==
  /\ subStatus = "none" /\ subscribing < MaxSubscribing
  /\ subscribing' = subscribing + 1
  /\ UNCHANGED <<subscriptionVars, unpaid, charges, cycle, claimed, handling, session,
                 memberVars>>

\* A new plan, whoever is a member.
Unfitted == fitted' = FALSE /\ unasked' = 0 /\ UNCHANGED <<members, joining>>

\* ... and subscribes, whatever there is by now.
Subscribe(pl) ==
  /\ subscribing > 0
  /\ subscribing' = subscribing - 1
  /\ Paid(pl) \/ DeclinedNew(pl)
  /\ Unfitted
  /\ UNCHANGED <<cycle, claimed, handling, session>>

\* provision_tenant: a library is born with a trial, or without a subscription.
StartTrial(pl) ==
  /\ subStatus = "none"
  /\ claimed = {} /\ subscribing = 0 /\ members = 0
  /\ \A j \in Joiners : joining[j] = "out"
  /\ subStatus' = "trialing" /\ plan' = pl /\ left' = Period
  /\ UNCHANGED <<dunned, grace, credit, unpaid, charges, cycle, callVars, memberVars>>

\* complete_checkout, by the API or by the gateway's event.  A decline rolls
\* everything back, the claim of the event too.
CompleteCheckout(s) ==
  /\ session[s] = "open"
  /\ Paid(SessionPlan[s])
  /\ session' = [session EXCEPT ![s] = "completed"]
  /\ Unfitted
  /\ UNCHANGED <<cycle, claimed, handling, subscribing>>

----------------------------------------------------------------------------
(* The billing cycle.                                                      *)

\* Mutation: nobody gives up.
NeverExhausted == FALSE

\* The grace is over and so are the attempts.
Exhausted == dunned >= MaxDunning /\ ~grace

\* run_billing_cycle lists the due and the past due subscriptions.
ListDue ==
  /\ cycle = "idle"
  /\ \/ subStatus \in {"active", "trialing"} /\ left = 0 /\ cycle' = "charge"
     \/ /\ subStatus = "past_due"
        /\ cycle' = IF Exhausted THEN "cancel" ELSE "charge"
  /\ UNCHANGED <<subscriptionVars, unpaid, charges, callVars, memberVars>>

\* Mutation: what the list said is not looked at again.
AnyMayCharge == subStatus # "canceled"

MayCharge ==
  /\ subStatus # "canceled"
  /\ ~(subStatus \in {"active", "trialing"} /\ left > 0)

\* charge_subscription
ChargeListed ==
  /\ cycle = "charge"
  /\ cycle' = "idle"
  /\ \/ MayCharge /\ (Paid(plan) \/ EnterDunning)
     \/ ~MayCharge /\ UNCHANGED <<subscriptionVars, unpaid, charges>>
  /\ UNCHANGED <<callVars, memberVars>>

\* cancel_subscription, without another look at the dunning.
CancelListed ==
  /\ cycle = "cancel"
  /\ cycle' = "idle"
  /\ subStatus' = "canceled"
  /\ UNCHANGED <<plan, left, dunned, grace, credit, unpaid, charges, callVars,
                 memberVars>>

----------------------------------------------------------------------------
(* Staff.                                                                  *)

\* Mutation: usage is not compared with the smaller plan.
Roomy(pl) == TRUE

\* Usage must fit the new plan.
Fits(pl) == PatronCap[pl] # None => members <= PatronCap[pl]

\* _prorate, of the time that is left.
Prorated(pl) == (Price[pl] * left) \div Period

\* change_plan: free during a trial; an upgrade is charged first, a downgrade
\* leaves credit, and any subscription but a trial is active afterwards.
ChangePlan(pl) ==
  /\ subStatus \in {"active", "trialing", "past_due"}
  /\ Fits(pl)
  /\ plan' = pl
  /\ subStatus' = IF subStatus = "trialing" THEN "trialing" ELSE "active"
  /\ credit' = IF subStatus = "trialing" \/ Prorated(pl) >= Prorated(plan) THEN credit
               ELSE credit + Prorated(plan) - Prorated(pl)
  /\ credit' <= MaxCredit
  /\ fitted' = TRUE /\ unasked' = 0
  /\ UNCHANGED <<left, dunned, grace, unpaid, charges, cycle, callVars, members,
                 joining>>

CancelSubscription ==
  /\ subStatus \in SubscriptionStatus \ {"canceled"}
  /\ subStatus' = "canceled"
  /\ UNCHANGED <<plan, left, dunned, grace, credit, unpaid, charges, cycle, callVars,
                 memberVars>>

----------------------------------------------------------------------------
(* The gateway's events: each may arrive any number of times, late, and in  *)
(* any order.                                                              *)

\* _claim_gateway_event; a claim that is not committed makes others wait.
Unclaimed(e) == e \notin claimed

Subscribed == subStatus # "none"

\* handle_gateway_event claims the event and reads the subscription.
ReadEvent(e) ==
  /\ Unclaimed(e) /\ handling[e] = None
  /\ Subscribed
  /\ handling' = [handling EXCEPT ![e] = subStatus]
  /\ UNCHANGED <<subscriptionVars, unpaid, charges, cycle, claimed, session,
                 subscribing, memberVars>>

\* An event that finds no subscription keeps its claim: it is never tried again.
MissEvent(e) ==
  /\ Unclaimed(e) /\ ~Subscribed
  /\ claimed' = claimed \cup {e}
  /\ UNCHANGED <<subscriptionVars, unpaid, charges, cycle, handling, session,
                 subscribing, memberVars>>

\* Mutation: a cancelled subscription is brought back by an event.
NeverIgnores(e) == FALSE

Ignores(e) == handling[e] = "canceled" /\ EventStatus[e] # "canceled"

\* It saves the status, whatever became of it, and what belongs to it.
ApplyEvent(e) ==
  /\ handling[e] # None
  /\ handling' = [handling EXCEPT ![e] = None]
  /\ claimed' = claimed \cup {e}
  /\ IF Ignores(e) THEN UNCHANGED <<subStatus, grace, dunned, unpaid>>
     ELSE /\ subStatus' = EventStatus[e]
          /\ grace' = CASE EventStatus[e] = "past_due" ->
                             grace \/ handling[e] # "past_due"
                        [] EventStatus[e] = "active" -> FALSE
                        [] OTHER -> grace
          /\ dunned' = IF EventStatus[e] = "active" THEN 0 ELSE dunned
          /\ unpaid' = CASE EventStatus[e] = "past_due" -> TRUE
                         [] EventStatus[e] = "active" -> FALSE
                         [] OTHER -> unpaid
  /\ UNCHANGED <<plan, left, credit, charges, cycle, session, subscribing, memberVars>>

\* The process dies: the claim is rolled back, and the gateway sends again.
LoseEvent(e) ==
  /\ handling[e] # None
  /\ handling' = [handling EXCEPT ![e] = None]
  /\ UNCHANGED <<subscriptionVars, unpaid, charges, cycle, claimed, session,
                 subscribing, memberVars>>

----------------------------------------------------------------------------
(* Limits.                                                                 *)

\* remaining, for patrons: nothing without service.
HasRoomFor ==
  /\ subStatus # "none" => Serviceable
  /\ subStatus # "none" /\ PatronCap[plan] # None => members < PatronCap[plan]

\* register_patron: assert_within_limit, and then the new profile.
AskToJoin(j) ==
  /\ joining[j] = "out" /\ HasRoomFor /\ members < MaxMembers
  /\ joining' = [joining EXCEPT ![j] = "asked"]
  /\ UNCHANGED <<subscriptionVars, unpaid, charges, cycle, callVars, members,
                 fitted, unasked>>

Join(j) ==
  /\ joining[j] = "asked"
  /\ joining' = [joining EXCEPT ![j] = "out"]
  /\ members' = members + 1
  /\ UNCHANGED <<subscriptionVars, unpaid, charges, cycle, callVars, fitted, unasked>>

\* _ensure_connection_membership: who signs in through the library's identity
\* provider becomes a patron, and nobody asks for room.
SignInJoins ==
  /\ members < MaxMembers
  /\ members' = members + 1
  /\ unasked' = IF fitted THEN unasked + 1 ELSE 0
  /\ UNCHANGED <<subscriptionVars, unpaid, charges, cycle, callVars, joining, fitted>>

\* erase_patron deletes the profile.
LeaveLibrary ==
  /\ members > 0
  /\ members' = members - 1
  /\ unasked' = IF unasked > 0 THEN unasked - 1 ELSE 0
  /\ UNCHANGED <<subscriptionVars, unpaid, charges, cycle, callVars, joining, fitted>>

----------------------------------------------------------------------------
(* Time.                                                                   *)

Tick ==
  /\ subStatus # "none" /\ left > 0
  /\ left' = left - 1
  /\ UNCHANGED <<subStatus, plan, dunned, grace, credit, unpaid, charges, cycle,
                 callVars, memberVars>>

GraceEnds ==
  /\ grace
  /\ grace' = FALSE
  /\ UNCHANGED <<subStatus, plan, left, dunned, credit, unpaid, charges, cycle,
                 callVars, memberVars>>

BillingInit ==
  /\ subStatus = "none" /\ plan = None
  /\ left = 0 /\ dunned = 0 /\ grace = FALSE /\ credit = 0
  /\ unpaid = FALSE /\ charges = 0 /\ cycle = "idle"
  /\ claimed = {} /\ handling = [e \in GatewayEvents |-> None]
  /\ session = [s \in Sessions |-> "open"]
  /\ subscribing = 0
  /\ members = 0 /\ joining = [j \in Joiners |-> "out"]
  /\ fitted = FALSE /\ unasked = 0

BillingNext ==
  \/ FindNone
  \/ \E pl \in Plans : Subscribe(pl) \/ StartTrial(pl) \/ ChangePlan(pl)
  \/ \E s \in Sessions : CompleteCheckout(s)
  \/ ListDue \/ ChargeListed \/ CancelListed
  \/ CancelSubscription
  \/ \E e \in GatewayEvents : ReadEvent(e) \/ MissEvent(e) \/ ApplyEvent(e) \/ LoseEvent(e)
  \/ \E j \in Joiners : AskToJoin(j) \/ Join(j)
  \/ SignInJoins \/ LeaveLibrary
  \/ Tick \/ GraceEnds

BillingSpec == BillingInit /\ [][BillingNext]_billingVars

\* The scheduler runs the cycle again and again.  A grace ends, and not for ever
\* just between the list and the charge.
BillingFairness ==
  /\ WF_billingVars(ListDue)
  /\ WF_billingVars(ChargeListed \/ CancelListed)
  /\ SF_billingVars(cycle = "idle" /\ GraceEnds)

BillingFairSpec == BillingSpec /\ BillingFairness

----------------------------------------------------------------------------
(* Properties.                                                             *)

BillingTypeOK ==
  /\ subStatus \in SubscriptionStatus \cup {"none"}
  /\ plan \in Plans \cup {None}
  /\ subStatus = "none" <=> plan = None
  /\ left \in 0 .. Period
  /\ dunned \in 0 .. MaxDunning
  /\ grace \in BOOLEAN /\ unpaid \in BOOLEAN
  /\ credit \in Nat
  /\ charges \in {0, 1}
  /\ cycle \in {"idle", "charge", "cancel"}
  /\ claimed \subseteq GatewayEvents
  /\ handling \in [GatewayEvents -> SubscriptionStatus \cup {None}]
  /\ session \in [Sessions -> {"open", "completed"}]
  /\ subscribing \in 0 .. MaxSubscribing
  /\ members \in Nat /\ fitted \in BOOLEAN /\ unasked \in Nat
  /\ joining \in [Joiners -> {"out", "asked"}]

\* A cancelled subscription comes back in three steps only: a checkout that is
\* completed; a subscribe whose caller had found no subscription, before there was
\* one; and the end of an event whose handler had read the subscription before it
\* was cancelled.
CanceledIsFinal ==
  [][subStatus = "canceled" /\ subStatus' # "canceled" =>
       \/ \E s \in Sessions : session[s] # session'[s]
       \/ subscribing' < subscribing
       \/ \E e \in GatewayEvents :
            handling[e] \notin {None, "canceled"} /\ handling'[e] = None]_billingVars

\* A period is charged for once: before it is over, nobody charges again unless
\* the last charge was declined (or the gateway said so), but for a checkout and
\* a subscribe that found no subscription, which begin a period at any time.
ChargedOnce ==
  [][charges' # charges /\ left > 0 =>
       \/ unpaid
       \/ \E s \in Sessions : session[s] # session'[s]
       \/ subscribing' < subscribing]_billingVars

\* Since a plan was found to fit, its limit is passed by no more than those who
\* signed in without asking and the registrations under way at one time, although
\* the plan may change between a registration's question and its profile.
\* (subscribe and a checkout do not look at usage at all.)
LimitOverrun ==
  fitted /\ PatronCap[plan] # None =>
    members + Cardinality({j \in Joiners : joining[j] = "asked"})
      <= PatronCap[plan] + Cardinality(Joiners) + unasked

\* Dunning ends: a subscription does not stay past due for ever.
DunningEnds == subStatus = "past_due" ~> subStatus # "past_due"

\* As the comment in change_plan has it, a tier is never delivered "on an unpaid
\* invoice": while a subscription is active its period has not been declined.
ActiveIsPaid == subStatus = "active" => ~unpaid
=============================================================================
