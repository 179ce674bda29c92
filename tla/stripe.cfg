SPECIFICATION StripeSpec

CONSTANTS
  alice = alice
  None = None
  User = {alice}
  UsageId = {e1}
  WebhookId = {1, 2, 3, 4}
  Request = {r1}
  Initial <- MCAccounts
  Calls <- MCCalls
  Concurrency = 1
  Abandons = 1
  LastDay = 2
  Overnight = FALSE
  SignupGrant = 3
  ReferralGrant = 5
  DailyGrant <- NoDailyGrant
  MonthlyCredits <- MCMonthlyCredits
  MonthDays = 2
  MinTrigger = 1
  MinRefill = 2
  MinPurchase = 1
  MaxPurchase = 9
  MaxSessions = 2
  MaxEvents = 4
  PeriodDays = 2

INVARIANTS
  StripeType
  SubscriptionFollows
  SecondAskedEarly
  PeriodCreditsBounded
  PurchasesPaid

CONSTRAINT Apart
