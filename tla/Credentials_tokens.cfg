CONSTANTS
  None = None
  Short = {s1}
  Enroll = {e1}
  Calls = {p1, p2}
  MaxNow = 3
  CodeTTL = 1
  LinkTTL = 2
  DefaultTTL = 2
  MinTTL = 1
  MaxTTL = 2
  TtlRequests = {0, 1, 3}
  EnrollDefault = 1
  EnrollMax = 2
  Units = {1, 3}
  Numbers = {0, 1, 2}
  HalfRange = 4
SYMMETRY Symmetry
SPECIFICATION Spec
INVARIANT NothingVoidDelivered
PROPERTY RefusedStaysRefused
PROPERTY CodesAreVouchers
