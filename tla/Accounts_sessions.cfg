CONSTANTS
  None = None
  Ids = {u1}
  NameOf <- OneName
  Bob = bob
  Admin = admin
  Passwords = {w1, w2}
  Tokens = {t1, t2}
  Requests = {p1, p2}
SPECIFICATION FairSpec
INVARIANT SessionsFollowRow
INVARIANT ExchangedOnce
PROPERTY LockedOut
CHECK_DEADLOCK FALSE
