SPECIFICATION Spec

CONSTANTS
  alice = alice  bob = bob  carol = carol
  e1 = e1  e2 = e2  w1 = w1  w2 = w2  w3 = w3  w4 = w4
  None = None
  User = {alice, bob}
  UsageId = {e1, e2}
  WebhookId = {w1, w2, w3, w4}
  Request = {r1, r2, r3, r4}
  Initial <- ChargeAccounts
  Calls <- ChargeCalls
  Concurrency = 3
  Abandons = 1
  LastDay = 0
  Overnight = TRUE
  SignupGrant = 3
  ReferralGrant = 5
  DailyGrant <- MCDailyGrant
  MonthlyCredits <- MCMonthlyCredits
  MonthDays = 2
  MinTrigger = 1
  MinRefill = 2
  MinPurchase = 1
  MaxPurchase = 9

SYMMETRY Symmetry

INVARIANTS
  NoOverdraft
  ChargedOnce
  LedgerExplainsBalance
  RunningBalance
  RefillsAccounted

PROPERTIES
  LedgerImplemented
