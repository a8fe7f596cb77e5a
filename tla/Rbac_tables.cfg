CONSTANTS
  None = None
  Wild = wild
  All = all
  Users = {u1}
  Groups = {g1}
  Roles = {viewer, r1}
  RoleGroups = {q1}
  Builtin = {viewer}
  Viewer = viewer
  AdminRole = admin
  Read = read
  Write = write
  Perms = {read, write}
  PermChoices <- JustWrite
  SeedPerms <- ViewerSeeds
  IdentityRole <- Everyone
  K1 = k1
  N1 = n1
  Clusters = {k1, k2}
  Namespaces = {n1, n2}
  ScopeChoices <- Lists
  Legacy <- OldBindings
  LegacyScopes <- Everywhere
  MaxGrants = 1
  Calls = {p1, p2}
SPECIFICATION Spec
SYMMETRY Symmetry
INVARIANT ScopesHaveGrant
INVARIANT CascadeComplete
INVARIANT AuthorizeIsHolds
PROPERTY BuiltinImmutable
CHECK_DEADLOCK FALSE
