\* Two plans, two late events and two joiners: staff change a plan that is past due.
SPECIFICATION BillingSpec
CONSTANTS
  None = None
  Patrons = {}
  small = small
  big = big
  ePaid = ePaid
  eFailed = eFailed
  c1 = c1
  Plans = {small, big}
  Price <- Prices
  PatronCap <- Caps
  Period = 2
  MaxDunning = 2
  GatewayEvents = {ePaid, eFailed}
  EventStatus <- Statuses
  Sessions = {c1}
  SessionPlan <- PlanOf
  Joiners = {j1, j2}
  MaxCredit = 2
  MaxMembers = 2
  MaxSubscribing = 1
INVARIANT ActiveIsPaid
SYMMETRY JoinerSymmetry
CHECK_DEADLOCK FALSE
