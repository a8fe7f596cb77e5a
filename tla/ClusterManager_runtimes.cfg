CONSTANTS
  None = None
  Runtimes = {r1, r2}
  Removals = {u1}
  Subscribers = {w1}
  DegradedThreshold = 2
  ReconnectThreshold = 3
  MaxFails = 6
  HealthInterval = 30
  BackoffStart = 1
  BackoffMax = 3
SPECIFICATION FairSpec
INVARIANT RemovedIsSilent
INVARIANT StoreIsCurrent
INVARIANT HealthMatchesFailures
INVARIANT BackoffDoubles
PROPERTY CallsReturn
CONSTRAINT LostUnwatched
CHECK_DEADLOCK FALSE
