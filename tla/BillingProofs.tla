---------------------------- MODULE BillingProofs ----------------------------
(***************************************************************************)
(* What brings a cancelled subscription back, that a period is charged for *)
(* once, and by how much the limit of the plan is passed: for any plans,   *)
(* prices, limits, periods, events, sessions, registrations, sign-ins, and *)
(* any number of callers who choose a first plan.                          *)
(***************************************************************************)
EXTENDS MCBackOffice, FinanceProofs, MessagesProofs

\* Only change_plan looks at usage, and it needs a subscription.
FittedHasPlan == fitted => subStatus # "none"

\* What was listed or is being handled had a subscription, which is never deleted.
ListedHasPlan ==
  /\ cycle # "idle" => subStatus # "none"
  /\ \A e \in GatewayEvents : handling[e] # None => subStatus # "none"

\* Past due is who was declined, or was said to be by the gateway.
PastDueUnpaid == subStatus = "past_due" => unpaid

BillingInv ==
  BillingTypeOK /\ FittedHasPlan /\ ListedHasPlan /\ PastDueUnpaid /\ LimitOverrun

Asked == {j \in Joiners : joining[j] = "asked"}

LEMMA LeastIsNat ==
  ASSUME NEW a \in Nat, NEW b \in Nat
  PROVE  Least(a, b) \in Nat /\ Least(a, b) <= a /\ Least(a, b) <= b
BY DEF Least

\* A share of a price that is not negative.
LEMMA ProratedIsNat ==
  ASSUME NEW pl \in Plans, left \in Nat
  PROVE  Prorated(pl) \in Nat
<1>1. Price[pl] \in Nat /\ Period \in Nat /\ Period > 0
  BY BillingAssumption
<1>2. Price[pl] * left \in Nat
  BY <1>1
<1> QED BY <1>1, <1>2 DEF Prorated

LEMMA Sizes ==
  /\ Period \in Nat /\ Period >= 1
  /\ MaxDunning \in Nat /\ MaxDunning >= 1
  /\ \A pl \in Plans : Price[pl] \in Nat
<1>1. Period \in Nat \ {0} /\ MaxDunning \in Nat \ {0}
  BY BillingAssumption
<1>2. Price \in [Plans -> Nat]
  BY BillingAssumption
<1> QED BY <1>1, <1>2

LEMMA PaidType ==
  ASSUME BillingTypeOK, NEW pl \in Plans, Paid(pl)
  PROVE  /\ subStatus' = "active" /\ plan' = pl /\ left' \in 0 .. Period
         /\ dunned' \in 0 .. MaxDunning /\ grace' \in BOOLEAN /\ unpaid' \in BOOLEAN
         /\ credit' \in Nat /\ charges' \in {0, 1}
<1>1. Price[pl] \in Nat /\ Period \in Nat /\ MaxDunning \in Nat /\ credit \in Nat
  BY Sizes DEF BillingTypeOK
<1>2. credit - Least(credit, Price[pl]) \in Nat
  BY <1>1, LeastIsNat
<1>3. 1 - charges \in {0, 1}
  BY DEF BillingTypeOK
<1>4. grace' \in BOOLEAN /\ unpaid' \in BOOLEAN
  BY Zenon DEF Paid
<1>5. left' \in 0 .. Period /\ dunned' \in 0 .. MaxDunning
  BY <1>1 DEF Paid
<1> HIDE DEF Least
<1> QED BY <1>1, <1>2, <1>3, <1>4, <1>5 DEF Paid

LEMMA InitInv == BillingInit => BillingInv
<1> SUFFICES ASSUME BillingInit PROVE BillingInv
  OBVIOUS
<1>1. BillingTypeOK
  <2>1. grace \in BOOLEAN /\ unpaid \in BOOLEAN /\ fitted \in BOOLEAN
    BY Zenon DEF BillingInit
  <2>2. left \in 0 .. Period /\ dunned \in 0 .. MaxDunning /\ credit \in Nat
        /\ members \in Nat /\ unasked \in Nat /\ subscribing \in 0 .. MaxSubscribing
    BY Sizes, BillingAssumption DEF BillingInit
  <2> QED
    BY <2>1, <2>2, BillingAssumption DEF BillingInit, BillingTypeOK, SubscriptionStatus
<1>2. FittedHasPlan /\ ListedHasPlan /\ PastDueUnpaid /\ LimitOverrun
  BY DEF BillingInit, FittedHasPlan, ListedHasPlan, PastDueUnpaid, LimitOverrun
<1> QED BY <1>1, <1>2 DEF BillingInv

LEMMA NextType ==
  ASSUME BillingTypeOK, ListedHasPlan, BillingNext
  PROVE  BillingTypeOK'
<1>0. /\ Period \in Nat /\ MaxDunning \in Nat /\ MaxDunning >= 1
      /\ None \notin Plans /\ MaxSubscribing \in Nat
      /\ EventStatus \in [GatewayEvents -> {"active", "past_due", "canceled"}]
      /\ SessionPlan \in [Sessions -> Plans]
  BY Sizes, BillingAssumption
<1> USE <1>0 DEF BillingTypeOK, SubscriptionStatus, subscriptionVars, callVars, memberVars
<1>1. ASSUME NEW pl \in Plans, Paid(pl), UNCHANGED <<cycle, claimed, handling>>, Unfitted,
             session' \in [Sessions -> {"open", "completed"}],
             subscribing' \in 0 .. MaxSubscribing
      PROVE  BillingTypeOK'
  <2>1. unasked' \in Nat /\ fitted' \in BOOLEAN
    BY <1>1, Zenon DEF Unfitted
  <2> QED BY <1>1, <2>1, PaidType DEF Unfitted
<1>2. ASSUME NEW pl \in Plans, Subscribe(pl) \/ StartTrial(pl)
      PROVE  BillingTypeOK'
  <2>1. CASE Paid(pl) /\ Subscribe(pl)
    BY <1>1, <2>1 DEF Subscribe
  <2>2. CASE DeclinedNew(pl) /\ Subscribe(pl)
    <3>1. unasked' \in Nat /\ fitted' \in BOOLEAN /\ grace' \in BOOLEAN /\ unpaid' \in BOOLEAN
      BY <2>2, Zenon DEF Subscribe, Unfitted, DeclinedNew
    <3>2. /\ subStatus' = "past_due" /\ plan' = pl /\ left' = Period /\ dunned' = 1
          /\ UNCHANGED <<credit, charges, members, joining, cycle, claimed, handling, session>>
          /\ subscribing' \in 0 .. MaxSubscribing
      BY <2>2 DEF Subscribe, Unfitted, DeclinedNew
    <3> QED BY <3>1, <3>2
  <2>3. CASE StartTrial(pl)
    BY <2>3 DEF StartTrial
  <2> QED BY <1>2, <2>1, <2>2, <2>3 DEF Subscribe
<1>3. ASSUME NEW pl \in Plans, ChangePlan(pl)
      PROVE  BillingTypeOK'
  <2>1. plan \in Plans
    BY <1>3 DEF ChangePlan
  <2>2. Prorated(pl) \in Nat /\ Prorated(plan) \in Nat
    BY <2>1, ProratedIsNat
  <2>3. credit' \in Nat
    BY <1>3, <2>2 DEF ChangePlan
  <2> QED BY <1>3, <2>3 DEF ChangePlan
<1>4. ASSUME NEW s \in Sessions, CompleteCheckout(s)
      PROVE  BillingTypeOK'
  BY <1>1, <1>4 DEF CompleteCheckout
<1>5. CASE ListDue
  BY <1>5 DEF ListDue
<1>6. CASE ChargeListed
  <2>1. plan \in Plans
    BY <1>6 DEF ChargeListed, ListedHasPlan
  <2>2. CASE Paid(plan)
    <3>1. cycle' = "idle" /\ UNCHANGED <<callVars, memberVars>>
      BY <1>6 DEF ChargeListed
    <3>2. /\ subStatus' = "active" /\ plan' = plan /\ left' \in 0 .. Period
          /\ dunned' \in 0 .. MaxDunning /\ grace' \in BOOLEAN /\ unpaid' \in BOOLEAN
          /\ credit' \in Nat /\ charges' \in {0, 1}
      BY <2>1, <2>2, PaidType
    <3> QED BY <2>1, <3>1, <3>2
  <2>3. CASE EnterDunning
    BY <1>6, <2>1, <2>3 DEF ChargeListed, EnterDunning, Least
  <2>4. CASE UNCHANGED <<subscriptionVars, unpaid, charges>>
    BY <1>6, <2>4 DEF ChargeListed
  <2> QED BY <1>6, <2>2, <2>3, <2>4 DEF ChargeListed
<1>7. CASE CancelListed \/ CancelSubscription
  BY <1>7 DEF CancelListed, CancelSubscription, ListedHasPlan
<1>8. ASSUME NEW e \in GatewayEvents,
             ReadEvent(e) \/ MissEvent(e) \/ LoseEvent(e)
      PROVE  BillingTypeOK'
  BY <1>8 DEF ReadEvent, MissEvent, LoseEvent, Subscribed
<1>8a. ASSUME NEW e \in GatewayEvents, ApplyEvent(e)
       PROVE  BillingTypeOK'
  <2>1. EventStatus[e] \in {"active", "past_due", "canceled"} /\ subStatus # "none"
    BY <1>8a DEF ApplyEvent, ListedHasPlan
  <2>2. CASE Ignores(e)
    BY <1>8a, <2>2 DEF ApplyEvent
  <2>3. CASE ~Ignores(e)
    <3>1. subStatus' = EventStatus[e] /\ plan' = plan
      BY <1>8a, <2>3 DEF ApplyEvent
    <3>2. dunned' \in 0 .. MaxDunning
      BY <1>8a, <2>3 DEF ApplyEvent
    <3>4. grace' \in BOOLEAN /\ unpaid' \in BOOLEAN
      <4>1. CASE EventStatus[e] = "past_due"
        BY <1>8a, <2>3, <4>1, Zenon DEF ApplyEvent
      <4>2. CASE EventStatus[e] = "active"
        BY <1>8a, <2>3, <4>2, Zenon DEF ApplyEvent
      <4>3. CASE EventStatus[e] = "canceled"
        <5>1. grace' = grace /\ unpaid' = unpaid
          BY <1>8a, <2>3, <4>3 DEF ApplyEvent
        <5> QED BY <5>1
      <4> QED BY <2>1, <4>1, <4>2, <4>3
    <3>3. /\ claimed' \subseteq GatewayEvents
          /\ handling' \in [GatewayEvents -> SubscriptionStatus \cup {None}]
          /\ UNCHANGED <<left, credit, charges, cycle, session, subscribing, memberVars>>
      BY <1>8a DEF ApplyEvent
    <3> QED BY <2>1, <3>1, <3>2, <3>3, <3>4
  <2> QED BY <2>2, <2>3
<1>9. ASSUME NEW j \in Joiners, AskToJoin(j) \/ Join(j)
      PROVE  BillingTypeOK'
  BY <1>9 DEF AskToJoin, Join
<1>10. CASE Tick \/ GraceEnds
  <2>1. CASE Tick
    BY <2>1 DEF Tick
  <2>2. CASE GraceEnds
    <3>1. grace' \in BOOLEAN
      BY <2>2, Zenon DEF GraceEnds
    <3> QED BY <2>2, <3>1 DEF GraceEnds
  <2> QED BY <1>10, <2>1, <2>2
<1>11. CASE FindNone
  BY <1>11 DEF FindNone
<1>12. CASE SignInJoins \/ LeaveLibrary
  <2>1. members' \in Nat /\ unasked' \in Nat
    BY <1>12 DEF SignInJoins, LeaveLibrary
  <2> QED BY <1>12, <2>1 DEF SignInJoins, LeaveLibrary
<1> QED
  BY <1>2, <1>3, <1>4, <1>5, <1>6, <1>7, <1>8, <1>9, <1>10, <1>8a, <1>11, <1>12 DEF BillingNext

----------------------------------------------------------------------------
(* A subscription is never deleted.                                        *)

LEMMA NextPlan ==
  ASSUME BillingTypeOK, FittedHasPlan, ListedHasPlan, PastDueUnpaid, BillingNext
  PROVE  /\ subStatus # "none" => subStatus' # "none"
         /\ FittedHasPlan' /\ ListedHasPlan' /\ PastDueUnpaid'
<1> USE DEF BillingTypeOK, FittedHasPlan, ListedHasPlan, PastDueUnpaid, SubscriptionStatus,
            subscriptionVars, callVars, memberVars
<1>1. ASSUME NEW pl \in Plans, Subscribe(pl) \/ StartTrial(pl) \/ ChangePlan(pl)
      PROVE  subStatus' # "none" /\ FittedHasPlan' /\ ListedHasPlan' /\ PastDueUnpaid'
  BY <1>1 DEF Subscribe, Unfitted, Paid, DeclinedNew, StartTrial, ChangePlan
<1>2. ASSUME NEW s \in Sessions, CompleteCheckout(s)
      PROVE  subStatus' # "none" /\ FittedHasPlan' /\ ListedHasPlan' /\ PastDueUnpaid'
  BY <1>2 DEF CompleteCheckout, Unfitted, Paid
<1>3. CASE ListDue
  BY <1>3 DEF ListDue
<1>4. CASE ChargeListed
  BY <1>4 DEF ChargeListed, Paid, EnterDunning
<1>5. CASE CancelListed \/ CancelSubscription
  BY <1>5 DEF CancelListed, CancelSubscription
<1>6. ASSUME NEW e \in GatewayEvents, ReadEvent(e) \/ MissEvent(e) \/ LoseEvent(e)
      PROVE  UNCHANGED subStatus /\ FittedHasPlan' /\ ListedHasPlan' /\ PastDueUnpaid'
  BY <1>6 DEF ReadEvent, MissEvent, LoseEvent, Subscribed
<1>7. ASSUME NEW e \in GatewayEvents, ApplyEvent(e)
      PROVE  subStatus' # "none" /\ FittedHasPlan' /\ ListedHasPlan' /\ PastDueUnpaid'
  <2>1. subStatus # "none" /\ EventStatus[e] # "none"
    BY <1>7, BillingAssumption DEF ApplyEvent
  <2>2. subStatus' # "none"
    BY <1>7, <2>1 DEF ApplyEvent
  <2>3. PastDueUnpaid'
    <3>1. CASE Ignores(e)
      BY <1>7, <3>1 DEF ApplyEvent
    <3>2. CASE ~Ignores(e)
      BY <1>7, <3>2 DEF ApplyEvent
    <3> QED BY <3>1, <3>2
  <2>4. fitted' = fitted /\ cycle' = cycle
    BY <1>7 DEF ApplyEvent
  <2> QED BY <2>1, <2>2, <2>3, <2>4
<1>8. CASE \/ Tick \/ GraceEnds \/ FindNone \/ SignInJoins \/ LeaveLibrary
           \/ \E j \in Joiners : AskToJoin(j) \/ Join(j)
  BY <1>8 DEF Tick, GraceEnds, FindNone, SignInJoins, LeaveLibrary, AskToJoin, Join
<1> QED BY <1>1, <1>2, <1>3, <1>4, <1>5, <1>6, <1>7, <1>8 DEF BillingNext

----------------------------------------------------------------------------
(* The limit of the plan.                                                  *)

LEMMA AskedIsSmall ==
  /\ IsFiniteSet(Asked)
  /\ Cardinality(Asked) \in Nat /\ Cardinality(Joiners) \in Nat
  /\ Cardinality(Asked) <= Cardinality(Joiners)
BY BillingAssumption, FS_Subset, FS_CardinalityType DEF Asked

LEMMA AskedIsSmallNext ==
  Cardinality(Asked') \in Nat /\ Cardinality(Asked') <= Cardinality(Joiners)
BY BillingAssumption, FS_Subset, FS_CardinalityType DEF Asked

\* The limit, with the registrations under way by their name.
Overrun ==
  fitted /\ PatronCap[plan] # None =>
    members + Cardinality(Asked) <= PatronCap[plan] + Cardinality(Joiners) + unasked

LEMMA OverrunIsLimit == (LimitOverrun <=> Overrun) /\ (LimitOverrun' <=> Overrun')
BY DEF LimitOverrun, Overrun, Asked

LEMMA NextOverrun ==
  ASSUME BillingTypeOK, FittedHasPlan, ListedHasPlan, LimitOverrun, BillingNext
  PROVE  LimitOverrun'
<1> SUFFICES Overrun'
  BY OverrunIsLimit
<1>0. Overrun
  BY OverrunIsLimit
<1> USE DEF BillingTypeOK, subscriptionVars, callVars, memberVars
<1>a. \A pl \in Plans : PatronCap[pl] \in Nat \cup {None}
  BY BillingAssumption
<1>1. ASSUME UNCHANGED <<members, joining, fitted, unasked, plan>>
      PROVE  Overrun'
  BY <1>0, <1>1 DEF Overrun, Asked
<1>2. ASSUME NEW pl \in Plans, Subscribe(pl) \/ StartTrial(pl)
      PROVE  Overrun'
  <2>1. fitted' # TRUE
    BY <1>2 DEF Subscribe, Unfitted, StartTrial, FittedHasPlan
  <2> QED BY <2>1 DEF Overrun
<1>3. ASSUME NEW pl \in Plans, ChangePlan(pl)
      PROVE  Overrun'
  <2>1. members' = members /\ plan' = pl /\ members \in Nat /\ unasked' = 0
    BY <1>3 DEF ChangePlan
  <2>2. PatronCap[pl] # None => members <= PatronCap[pl]
    BY <1>3 DEF ChangePlan, Fits
  <2> QED BY <1>a, <2>1, <2>2, AskedIsSmall, AskedIsSmallNext DEF Overrun
<1>4. ASSUME NEW s \in Sessions, CompleteCheckout(s)
      PROVE  Overrun'
  BY <1>4 DEF CompleteCheckout, Unfitted, Overrun
<1>5. CASE ListDue \/ CancelListed \/ CancelSubscription \/ Tick \/ GraceEnds
  BY <1>1, <1>5 DEF ListDue, CancelListed, CancelSubscription, Tick, GraceEnds
<1>6. CASE ChargeListed
  BY <1>1, <1>6 DEF ChargeListed, Paid, EnterDunning
<1>7. ASSUME NEW e \in GatewayEvents,
             ReadEvent(e) \/ MissEvent(e) \/ ApplyEvent(e) \/ LoseEvent(e)
      PROVE  Overrun'
  BY <1>1, <1>7 DEF ReadEvent, MissEvent, ApplyEvent, LoseEvent
<1>8. ASSUME NEW j \in Joiners, AskToJoin(j)
      PROVE  Overrun'
  <2>1. UNCHANGED <<members, plan, fitted, unasked>> /\ members \in Nat
    BY <1>8 DEF AskToJoin
  <2>2. fitted /\ PatronCap[plan] # None => plan \in Plans /\ members < PatronCap[plan]
    BY <1>8 DEF AskToJoin, HasRoomFor, FittedHasPlan
  <2> QED BY <1>a, <2>1, <2>2, AskedIsSmall, AskedIsSmallNext DEF Overrun
<1>9. ASSUME NEW j \in Joiners, Join(j)
      PROVE  Overrun'
  <2>1. /\ members' = members + 1 /\ UNCHANGED <<plan, fitted, unasked>> /\ members \in Nat
        /\ fitted => plan \in Plans
    BY <1>9 DEF Join, FittedHasPlan
  <2>2. j \in Asked /\ Asked' = Asked \ {j}
    BY <1>9 DEF Join, Asked
  <2>3. Cardinality(Asked') = Cardinality(Asked) - 1
    BY <2>2, AskedIsSmall, FS_RemoveElement
  <2> QED BY <1>0, <1>a, <2>1, <2>3, AskedIsSmall DEF Overrun
<1>10. CASE FindNone
  BY <1>1, <1>10 DEF FindNone
<1>11. CASE SignInJoins \/ LeaveLibrary
  <2>1. UNCHANGED <<plan, fitted, joining, Asked>> /\ (fitted => plan \in Plans)
    BY <1>11 DEF SignInJoins, LeaveLibrary, Asked, FittedHasPlan
  <2>2. CASE SignInJoins
    <3>1. members' = members + 1 /\ (fitted => unasked' = unasked + 1)
      BY <2>2 DEF SignInJoins
    <3> QED BY <1>0, <1>a, <2>1, <3>1, AskedIsSmall DEF Overrun
  <2>3. CASE LeaveLibrary
    <3>1. members' = members - 1 /\ unasked' = IF unasked > 0 THEN unasked - 1 ELSE 0
      BY <2>3 DEF LeaveLibrary
    <3> QED BY <1>0, <1>a, <2>1, <3>1, AskedIsSmall DEF Overrun
  <2> QED BY <1>11, <2>2, <2>3
<1> QED BY <1>2, <1>3, <1>4, <1>5, <1>6, <1>7, <1>8, <1>9, <1>10, <1>11 DEF BillingNext

----------------------------------------------------------------------------
(* The theorems.                                                           *)

LEMMA NextInv == BillingInv /\ [BillingNext]_billingVars => BillingInv'
<1>1. CASE BillingNext
  BY <1>1, NextType, NextPlan, NextOverrun DEF BillingInv
<1>2. CASE UNCHANGED billingVars
  BY <1>2 DEF BillingInv, BillingTypeOK, FittedHasPlan, ListedHasPlan, PastDueUnpaid,
              LimitOverrun, billingVars, subscriptionVars, callVars, memberVars
<1> QED BY <1>1, <1>2

\* The invariant that the three theorems below rest on.
THEOREM Inductive == BillingSpec => []BillingInv
<1> QED BY InitInv, NextInv, PTL DEF BillingSpec

\* Since a plan was found to fit, its limit (entitlements.py) is passed by no more
\* than the registrations that are under way at one time and those who became
\* patrons by signing in (sso.py), where nobody asks for room.
THEOREM LimitHolds == BillingSpec => []LimitOverrun
<1>1. BillingInv => LimitOverrun
  BY DEF BillingInv
<1> QED BY <1>1, Inductive, PTL

\* However lists, charges, checkouts, first plans and the gateway's events cross,
\* a period that is not over is charged for again only by a checkout or by the
\* subscribe of a caller who had found no subscription, unless the last charge
\* was declined or the gateway said that it was (billing.py).
THEOREM PeriodChargedOnce == BillingSpec => ChargedOnce
<1> DEFINE Excused == \/ unpaid
                      \/ \E s \in Sessions : session[s] # session'[s]
                      \/ subscribing' < subscribing
<1>1. BillingInv /\ [BillingNext]_billingVars =>
        [charges' # charges /\ left > 0 => Excused]_billingVars
  <2> SUFFICES ASSUME BillingInv, BillingNext, charges' # charges, left > 0
               PROVE  Excused
    OBVIOUS
  <2> USE DEF subscriptionVars, callVars, memberVars
  <2>1. CASE ChargeListed
    <3>1. MayCharge /\ subStatus # "none"
      BY <2>1 DEF ChargeListed, BillingInv, ListedHasPlan
    <3>2. subStatus = "past_due"
      BY <3>1 DEF MayCharge, BillingInv, BillingTypeOK, SubscriptionStatus
    <3> QED BY <3>2 DEF BillingInv, PastDueUnpaid
  <2>2. ASSUME NEW pl \in Plans, Subscribe(pl)
        PROVE  Excused
    BY <2>2 DEF Subscribe, BillingInv, BillingTypeOK
  <2>3. ASSUME NEW s \in Sessions, CompleteCheckout(s)
        PROVE  Excused
    BY <2>3 DEF CompleteCheckout, BillingInv, BillingTypeOK
  <2>4. CASE UNCHANGED charges
    BY <2>4
  <2> QED
    BY <2>1, <2>2, <2>3, <2>4
    DEF BillingNext, StartTrial, ChangePlan, ListDue, CancelListed, CancelSubscription, Tick,
        GraceEnds, ReadEvent, MissEvent, ApplyEvent, LoseEvent, AskToJoin, Join, FindNone,
        SignInJoins, LeaveLibrary
<1> QED BY <1>1, Inductive, PTL DEF BillingSpec, ChargedOnce

\* A cancelled subscription comes back in a checkout, in the subscribe of a caller
\* who had found no subscription (views.py, api.py), and at the end of an event
\* whose handler had read it before it was cancelled: in no other step, whatever
\* else is under way.
THEOREM CanceledStays == BillingSpec => CanceledIsFinal
<1> DEFINE Back == \/ \E s \in Sessions : session[s] # session'[s]
                   \/ subscribing' < subscribing
                   \/ \E e \in GatewayEvents :
                        handling[e] \notin {None, "canceled"} /\ handling'[e] = None
<1>1. BillingInv /\ [BillingNext]_billingVars =>
        [subStatus = "canceled" /\ subStatus' # "canceled" => Back]_billingVars
  <2> SUFFICES ASSUME BillingInv, BillingNext, subStatus = "canceled", subStatus' # "canceled"
               PROVE  Back
    OBVIOUS
  <2> USE DEF BillingInv, BillingTypeOK, subscriptionVars, callVars, memberVars
  <2>1. ASSUME NEW s \in Sessions, CompleteCheckout(s)
        PROVE  Back
    BY <2>1 DEF CompleteCheckout
  <2>2. ASSUME NEW e \in GatewayEvents, ApplyEvent(e)
        PROVE  Back
    BY <2>2 DEF ApplyEvent, Ignores
  <2>3. ASSUME NEW pl \in Plans, Subscribe(pl)
        PROVE  Back
    BY <2>3 DEF Subscribe
  <2>4. ASSUME NEW pl \in Plans, StartTrial(pl) \/ ChangePlan(pl)
        PROVE  FALSE
    BY <2>4 DEF StartTrial, ChangePlan
  <2>5. CASE ChargeListed
    BY <2>5 DEF ChargeListed, MayCharge
  <2>6. CASE UNCHANGED subStatus \/ subStatus' = "canceled"
    BY <2>6
  <2> QED
    BY <2>1, <2>2, <2>3, <2>4, <2>5, <2>6
    DEF BillingNext, ListDue, CancelListed, CancelSubscription, Tick, GraceEnds, ReadEvent,
        MissEvent, LoseEvent, AskToJoin, Join, FindNone, SignInJoins, LeaveLibrary
<1> QED BY <1>1, Inductive, PTL DEF BillingSpec, CanceledIsFinal

----------------------------------------------------------------------------
(* Messages and money.                                                     *)

\* What is proved of each component is proved of the instance that is searched.
THEOREM BackOfficeIsAll ==
  BackOffice => OutboxSpec /\ WebhooksSpec /\ FeesSpec /\ BillingSpec
<1>1. Init => OutboxInit /\ WebhooksInit /\ FeesInit /\ BillingInit
  BY DEF Init
<1> DEFINE step == [Next]_<<component, outboxVars, hookVars, feesVars, billingVars>>
<1>2. step => [OutboxNext]_outboxVars
  BY DEF Next
<1>3. step => [WebhooksNext]_hookVars
  BY DEF Next
<1>4. step => [FeesNext]_feesVars
  BY DEF Next
<1>5. step => [BillingNext]_billingVars
  BY DEF Next
<1> QED BY <1>1, <1>2, <1>3, <1>4, <1>5, PTL
        DEF BackOffice, OutboxSpec, WebhooksSpec, FeesSpec, BillingSpec

\* Every field of the four has its type, a worker works on an event of its own
\* batch, a sweep sends what it claimed, no more of a payment is taken back from
\* a fee than it gave, and a period never runs below zero.
THEOREM BackOfficeTypeCorrect == BackOffice => []BackOfficeTypeOK
<1>1. WebhooksInv => WebhooksTypeOK
  BY DEF WebhooksInv
<1>2. BillingInv => BillingTypeOK
  BY DEF BillingInv
<1>3. OutboxTypeOK /\ WebhooksTypeOK /\ FeesTypeOK /\ BillingTypeOK => BackOfficeTypeOK
  BY DEF BackOfficeTypeOK
<1> QED BY <1>1, <1>2, <1>3, BackOfficeIsAll, OutboxTypeCorrect, WebhooksInductive,
           FeesTyped, Inductive, PTL
=============================================================================
