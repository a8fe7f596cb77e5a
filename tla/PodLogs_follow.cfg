CONSTANTS
  None = None
  WatchConns = {c1, c2}
  Pods = {p1}
  Followers = {f1, f2, f3}
SPECIFICATION FairSpec
INVARIANT FollowerAccounted
PROPERTY FollowersEndWithConn
CHECK_DEADLOCK FALSE
