\* Two events for one endpoint.  A lease of 2 outlasts a batch, and one of 1 does
\* not, as in the default configuration.
CONSTANTS
  p1 = p1
  p2 = p2
  w1 = w1
  w2 = w2
  x1 = x1
  x2 = x2
  Null = Null
  Event = {1, 2}
  Endpoint = {p1}
  Subscribed <- MCSubscribed
  Dispatcher = {x1, x2}
  Worker = {w1, w2}
  DispatchBatch = 1
  BatchSize = 2
  Leases = {1, 2}
  RequestTimeout = 1
  MaxAttempts = 2
  DegradeAfter = 1
  DisableAfter = 2
  BackoffBase = 1
  BackoffCap = 1
  MaxMishaps <- MCBound
  MaxReplays <- MCBound
SPECIFICATION WebhookLiveSpec
CHECK_DEADLOCK FALSE
INVARIANTS
  NoLostEvents
  WorkedTwiceOnlyIfLate
  BudgetSpent
PROPERTIES
  EventuallySettled
