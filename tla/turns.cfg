SPECIFICATION FairSpec

CONSTANTS
  alice = alice  bob = bob  evt = evt
  None = None
  User = {alice, bob}
  UsageId <- MCUsageId
  WebhookId = {evt}
  Random = {1, 2}
  Million = 1000
  Half = 16384
  Turns <- MCTurns
  Quotes <- MCQuotes
  Caller = {c1, c2}
  Calls <- MCCalls
  Concurrency = 1
  Restarts = 1
  Initial <- MCAccounts
  PageLimit = 1
  TicksPerMs = 2
  FirstTick = 1
  LastTick = 2
  LagoMaxRetries = 3
  Losses = 1

INVARIANTS
  MeteringType
  IndexComplete
  StoredExplained
  CountersExplain
  PagesMissNothing
  ScansAgree
  TurnAffordable
  ChargedAtLeastOne
  PricesInOrder
  AliasesAgree
  ForwardedCharged

PROPERTIES
  RocksImplementsLedger
  ForwardedInTheEnd
