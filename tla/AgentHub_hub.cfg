CONSTANTS
  k1 = k1
  Clusters = {k1}
  Home = k1
  ClusterOf <- SameCluster
  None = None
  Conns = {c1, c2}
  Dials = {d1}
SPECIFICATION FairSpec
CONSTRAINT RevokedAlone
CONSTRAINT DialedAlone
CONSTRAINT LostAlone
INVARIANT DegradedWhenGone
INVARIANT PipeHasDialer
PROPERTY ConnIdsAreVouchers
PROPERTY OnlyOwnEntryRemoved
PROPERTY GoneNotReadyForever
PROPERTY HandlerEnds
CHECK_DEADLOCK FALSE
