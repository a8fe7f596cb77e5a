CONSTANTS
  Nothing = Nothing
  Requests = {a1}
  Others = {x1}
  Users = {u1}
  Listeners = {c1}
  FeedCap = 1
  Configs = {g1, g2}
  Attachments = {n1}
SPECIFICATION FairSpec
CONSTRAINT GatewayAlone
INVARIANT FeedIsStored
INVARIANT OutcomeRecorded
INVARIANT ServedWithCurrentCredentials
PROPERTY FeedDrains
CHECK_DEADLOCK FALSE
