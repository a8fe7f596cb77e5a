CONSTANTS
  Terms = {t1}
  Logs = {l1}
  SizeCap = 1
  MaxUnread = 1
SPECIFICATION StreamsFairSpec
INVARIANT SessionAudited
PROPERTY PumpEnds
PROPERTY ChattyLogEnds
CHECK_DEADLOCK FALSE
