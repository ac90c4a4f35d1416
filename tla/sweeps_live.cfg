\* Webhooks: two sweeps, two deliveries.  Digital: three patrons; a licence for
\* one reader, and one for all with one checkout.  Billing: two plans and a late
\* event.
SPECIFICATION Sweeps
CONSTANTS
  None = None
  Patrons = {p1, p2, p3}
  Sweepers = {s1, s2}
  Deliveries = {d1, d2}
  Unreadable = {}
  WebhookMaxAttempts = 2
  HookBatch = 2
  Threshold = 2
  MaxHookFaults = 2
  e1 = e1
  Editions = {e1}
  Licenses = {1, 2}
  EditionOf <- OneEdition
  Limit <- OneThenAll
  Allowed <- SecondOnce
  Retaining = {}
  LoanRows = 3
  HoldRows = 3
  small = small  big = big  ePaid = ePaid  eFailed = eFailed  c1 = c1
  Plans = {small, big}
  Price <- Prices
  PatronCap <- Caps
  Period = 2
  MaxDunning = 2
  GatewayEvents = {eFailed}
  EventStatus <- Statuses
  Sessions = {c1}
  SessionPlan <- PlanOf
  Joiners = {}
  MaxCredit = 2
  MaxMembers = 0
  MaxSubscribing = 1
VIEW State
PROPERTIES HooksSettle HoldsServed DunningEnds
CHECK_DEADLOCK FALSE
