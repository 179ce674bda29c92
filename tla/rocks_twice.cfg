SPECIFICATION Spec

CONSTANTS
  alice = alice  bob = bob  evt = evt
  None = None
  User = {alice, bob}
  UsageId <- MCUsageId
  WebhookId = {evt}
  Random = {1, 2}
  Million = 1000
  Half = 16384
  Turns <- TwiceTurns
  Quotes = {}
  Caller = {c1, c2}
  Calls <- TwiceCalls
  Concurrency = 2
  Restarts = 0
  Initial <- MCAccounts
  PageLimit = 1
  TicksPerMs = 2
  FirstTick = 1
  LastTick = 2
  LagoMaxRetries = 3
  Losses = 2

INVARIANT RocksEventChargedOnce
