CONSTANTS
  DialFrames = {d1}
  MaxSessions = 2
  BackoffStart = 1
  BackoffMax = 3
SPECIFICATION ClientFairSpec
INVARIANT HandlerLeavesNothing
PROPERTY AttemptsGoOn
PROPERTY SessionEndsWhole
CHECK_DEADLOCK FALSE
