SPECIFICATION Spec

CONSTANTS
  alice = alice  bob = bob  carol = carol
  e1 = e1  e2 = e2  w1 = w1  w2 = w2  w3 = w3  w4 = w4
  None = None
  User = {alice, bob, carol}
  UsageId = {e1, e2}
  WebhookId = {w1, w2, w3, w4}
  Request = {r1, r2}
  Initial <- DailyAccounts
  Calls <- DailyCalls
  Concurrency = 2
  Abandons = 0
  LastDay = 0
  Overnight = TRUE
  SignupGrant = 3
  ReferralGrant = 5
  DailyGrant <- MCDailyGrant
  MonthlyCredits <- MCMonthlyCredits
  MonthDays = 2
  MinTrigger = 1
  MinRefill = 2
  MinPurchase = 1
  MaxPurchase = 9

SYMMETRY Symmetry

INVARIANTS
  DailyOnce
