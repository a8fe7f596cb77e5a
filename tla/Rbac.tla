--------------------------------- MODULE Rbac ---------------------------------
(* Roles, role groups, user groups and the grants between them:              *)
(* service/role.go over the tables of store/rbac.go. A step is one SQL       *)
(* statement or one transaction; requests interleave between their look-ups  *)
(* and their write. References are plain ids: the only foreign key that      *)
(* AutoMigrate makes is grant_scopes.grant_id (Grant.Scopes).                *)
(*                                                                           *)
(* SQLite, the default, admits one writer at a time, so a transaction is one *)
(* step. On Postgres (READ COMMITTED) others commit between its statements.  *)
(* A membership or grant that comes in after the DELETE it would have fallen *)
(* to survives the transaction, as it does when it is inserted right after   *)
(* it by a request that has looked before: the step below and then the       *)
(* insertion, which late records. A grant that comes in between the DELETE   *)
(* of the scopes and that of the grants has scopes by the foreign key, which *)
(* then refuses the second DELETE: the transaction is rolled back (Fail).    *)
EXTENDS Naturals, FiniteSets

CONSTANTS
  Users, Groups, Roles, RoleGroups,   \* ids; an id is never given out twice
  Builtin,                            \* the roles of BuiltinRoleSeeds
  Perms,                              \* permission points
  PermChoices,                        \* the lists of permissions that callers send
  All,                                \* PermAll, the permission "*"
  SeedPerms,                          \* the seeded permissions of a built-in role
  IdentityRole,                       \* the role column of each user: a built-in role
  AdminRole,                          \* the built-in role "admin"
  Clusters, Namespaces,               \* what requests and scopes may name
  Wild,                               \* "*" in a scope, "" in a query
  ScopeChoices,                       \* the lists of scopes that callers send
  Legacy,                             \* pairs that an old role_bindings table may hold
  LegacyScopes,                       \* their scopes
  MaxGrants,                          \* bound on the rows of grants
  Calls,                              \* concurrent requests
  None

Subjects == Users \cup Groups
Objects == Roles \cup RoleGroups
Scope == [cluster : Clusters \cup {Wild}, namespace : Namespaces \cup {Wild}]

ASSUME RbacAssumption ==
  /\ Builtin \subseteq Roles
  /\ None \notin Subjects \cup Objects
  /\ Users \cap Groups = {} /\ Roles \cap RoleGroups = {} /\ Subjects \cap Objects = {}
  /\ PermChoices \subseteq SUBSET Perms
  /\ SeedPerms \in [Builtin -> SUBSET Perms]
  /\ Legacy \subseteq Subjects \X Roles /\ LegacyScopes \subseteq Scope
  /\ \A S \in ScopeChoices : S \subseteq Scope
  /\ Clusters # {} /\ Namespaces # {} /\ Wild \notin Clusters \cup Namespaces
  /\ IdentityRole \in [Users -> Builtin \cup {AdminRole}]
  /\ \A r \in Builtin \ {AdminRole} : All \notin SeedPerms[r]

(* users, groups, roleGroups : the ids of the rows                           *)
(* roles       : the ids of the rows of roles, perms : their permissions     *)
(* member      : user_group_members, groupRole : role_group_roles            *)
(* grants      : the pairs of the grants table, scope : its grant_scopes     *)
(* legacy      : rows of the old role_bindings table                         *)
(* used        : ids that have been given out                                *)
(* call        : where each request stands                                   *)
(* late        : references that were inserted when their end had gone       *)
(*               already (history)                                           *)
VARIABLES users, groups, roleGroups, roles, perms, member, groupRole, grants, scope,
          legacy, used, call, late
vars == <<users, groups, roleGroups, roles, perms, member, groupRole, grants, scope,
          legacy, used, call, late>>
links == <<member, groupRole, grants, scope>>
rolesTable == <<roles, perms>>
ends == <<users, groups, roleGroups, rolesTable>>

Idle == [at |-> "idle", a |-> None, b |-> None]
Steps == {"idle", "saveRole", "deleteRole", "saveGroup", "deleteGroup", "saveRoleGroup",
          "deleteRoleGroup", "memberUser", "memberInsert", "roleOfGroup", "roleInsert",
          "roleRemove", "object", "subjectAgain", "grantInsert"}
Goto(p, at, a, b) == call' = [call EXCEPT ![p] = [at |-> at, a |-> a, b |-> b]]
Done(p) == call' = [call EXCEPT ![p] = Idle]
Free(p) == call[p].at = "idle"

SubjectName(s) == s \in users \cup groups
ObjectName(o) == o \in roles \cup roleGroups

-------------------------------------------------------------------------------
(* SeedDefaults creates the built-in roles that are missing and fills those  *)
(* that an old schema left without permissions.                              *)
SeedDefaults ==
  /\ roles' = roles \cup Builtin
  /\ perms' = [r \in Roles |-> IF r \in Builtin /\ (r \notin roles \/ perms[r] = {})
                               THEN SeedPerms[r] ELSE perms[r]]

(* migrateLegacyRoleBindings: every old binding becomes a grant, one that    *)
(* exists already is skipped. The old table is dropped, which may fail, and  *)
(* then the next start does it all again. *)
Dangling(G) == {g \in G : ~SubjectName(g[1]) \/ ~ObjectName(g[2])}

MigrateLegacy ==
  /\ grants' = grants \cup legacy
  /\ scope' = scope \cup ((legacy \ grants) \X LegacyScopes)
  /\ legacy' \in {legacy, {}}
  /\ late' = late \cup Dangling(legacy \ grants)

(* The server stops in the middle of its requests and starts again. *)
Restart ==
  /\ SeedDefaults
  /\ MigrateLegacy
  /\ call' = [p \in Calls |-> Idle]
  /\ UNCHANGED <<users, groups, roleGroups, member, groupRole, used>>

(* The first start over the tables of the previous release: L is what its    *)
(* role_bindings held, about rows that may have gone since. *)
Init ==
  /\ \E L \in SUBSET Legacy :
       /\ used = Builtin \cup {g[1] : g \in L} \cup {g[2] : g \in L}
       /\ grants = L /\ scope = L \X LegacyScopes
       /\ legacy \in {L, {}}
  /\ users \in SUBSET (used \cap Users) /\ groups \in SUBSET (used \cap Groups)
  /\ roleGroups = {} /\ member = {} /\ groupRole = {}
  /\ roles \in {Builtin \cup R : R \in SUBSET (used \cap Roles)}
  /\ perms = [r \in Roles |-> IF r \in Builtin THEN SeedPerms[r] ELSE {}]
  /\ call = [p \in Calls |-> Idle]
  /\ late = Dangling(grants)

-------------------------------------------------------------------------------
(* Users come and go with UserService; deleting one touches no table here.   *)
CreateUser(u) ==
  /\ u \notin used
  /\ users' = users \cup {u}
  /\ used' = used \cup {u}
  /\ UNCHANGED <<groups, roleGroups, rolesTable, links, legacy, call, late>>

DeleteUser(u) ==
  /\ u \in users
  /\ users' = users \ {u}
  /\ UNCHANGED <<groups, roleGroups, rolesTable, links, legacy, used, call, late>>

(* CreateRole, CreateUserGroup, CreateRoleGroup: one INSERT; the look-up by  *)
(* name before it is decided again by the unique index on the name.          *)
CreateRole(r, P) ==
  /\ r \notin used
  /\ roles' = roles \cup {r}
  /\ perms' = [perms EXCEPT ![r] = P]
  /\ used' = used \cup {r}
  /\ UNCHANGED <<users, groups, roleGroups, links, legacy, call, late>>

CreateUserGroup(g) ==
  /\ g \notin used
  /\ groups' = groups \cup {g}
  /\ used' = used \cup {g}
  /\ UNCHANGED <<users, roleGroups, rolesTable, links, legacy, call, late>>

CreateRoleGroup(q) ==
  /\ q \notin used
  /\ roleGroups' = roleGroups \cup {q}
  /\ used' = used \cup {q}
  /\ UNCHANGED <<users, groups, rolesTable, links, legacy, call, late>>

(* The first statement of a request: it looks its row up and ends if there   *)
(* is none. Only what the later statements use is kept. *)
Begin(p, found, at, a, b) ==
  /\ Free(p)
  /\ found
  /\ Goto(p, at, a, b)
  /\ UNCHANGED <<ends, links, legacy, used, late>>

CustomAnything(r) == TRUE
Custom(r) == r \notin Builtin

UpdateRole(p, r) == Begin(p, r \in roles /\ Custom(r), "saveRole", r, None)
DeleteRole(p, r) == Begin(p, r \in roles /\ Custom(r), "deleteRole", r, None)
UpdateUserGroup(p, g) == Begin(p, g \in groups, "saveGroup", g, None)
DeleteUserGroup(p, g) == Begin(p, g \in groups, "deleteGroup", g, None)
UpdateRoleGroup(p, q) == Begin(p, q \in roleGroups, "saveRoleGroup", q, None)
DeleteRoleGroup(p, q) == Begin(p, q \in roleGroups, "deleteRoleGroup", q, None)
AddGroupMember(p, g, u) == Begin(p, g \in groups, "memberUser", g, u)
AddRoleGroupRole(p, q, r) == Begin(p, q \in roleGroups, "roleOfGroup", q, r)
RemoveRoleGroupRole(p, q, r) == Begin(p, q \in roleGroups, "roleRemove", q, r)
CreateGrant(p, s, o) == Begin(p, SubjectName(s), "object", s, o)

(* A further look-up of the request. *)
Check(p, at, found, next) ==
  /\ call[p].at = at
  /\ IF found THEN Goto(p, next, call[p].a, call[p].b) ELSE Done(p)
  /\ UNCHANGED <<ends, links, legacy, used, late>>

MemberUser(p) == Check(p, "memberUser", call[p].b \in users, "memberInsert")
RoleOfGroup(p) == Check(p, "roleOfGroup", call[p].b \in roles, "roleInsert")
GrantObject(p) == Check(p, "object", ObjectName(call[p].b), "subjectAgain")
GrantSubject(p) == Check(p, "subjectAgain", SubjectName(call[p].a), "grantInsert")

-------------------------------------------------------------------------------
(* The writes. gorm's Save writes the whole row, and inserts it again when   *)
(* it has gone. *)
SaveRole(p, P) ==
  /\ call[p].at = "saveRole"
  /\ roles' = roles \cup {call[p].a}
  /\ perms' = [perms EXCEPT ![call[p].a] = P]
  /\ Done(p)
  /\ UNCHANGED <<users, groups, roleGroups, links, legacy, used, late>>

SaveUserGroup(p) ==
  /\ call[p].at = "saveGroup"
  /\ groups' = groups \cup {call[p].a}
  /\ Done(p)
  /\ UNCHANGED <<users, roleGroups, rolesTable, links, legacy, used, late>>

SaveRoleGroup(p) ==
  /\ call[p].at = "saveRoleGroup"
  /\ roleGroups' = roleGroups \cup {call[p].a}
  /\ Done(p)
  /\ UNCHANGED <<users, groups, rolesTable, links, legacy, used, late>>

(* Deletes the grants G with their scopes; X is what else the request deletes. *)
CascadeNoScopes(G, X) == grants' = grants \ G /\ scope' = scope /\ late' = late \ (G \cup X)

Cascade(G, X) ==
  /\ grants' = grants \ G
  /\ scope' = {x \in scope : x[1] \notin G}
  /\ late' = late \ (G \cup X)

RolesOf(q) == {x \in groupRole : x[1] = q}
GroupsOf(r) == {x \in groupRole : x[2] = r}
Members(g) == {x \in member : x[1] = g}
ObjectGrants(o) == {g \in grants : g[2] = o}
NoGrants(s) == {}
SubjectGrants(s) == {g \in grants : g[1] = s}

(* One transaction; without a row to delete it is rolled back. *)
DropRole(p) ==
  LET r == call[p].a IN
  /\ call[p].at = "deleteRole"
  /\ IF r \in roles
     THEN /\ groupRole' = groupRole \ GroupsOf(r)
          /\ Cascade(ObjectGrants(r), GroupsOf(r))
          /\ roles' = roles \ {r}
          /\ perms' = [perms EXCEPT ![r] = {}]
     ELSE UNCHANGED <<groupRole, grants, scope, rolesTable, late>>
  /\ Done(p)
  /\ UNCHANGED <<users, groups, roleGroups, member, legacy, used>>

DropRoleGroup(p) ==
  LET q == call[p].a IN
  /\ call[p].at = "deleteRoleGroup"
  /\ IF q \in roleGroups
     THEN /\ Cascade(ObjectGrants(q), RolesOf(q))
          /\ groupRole' = groupRole \ RolesOf(q)
          /\ roleGroups' = roleGroups \ {q}
     ELSE UNCHANGED <<groupRole, grants, scope, roleGroups, late>>
  /\ Done(p)
  /\ UNCHANGED <<users, groups, rolesTable, member, legacy, used>>

DropUserGroup(p) ==
  LET g == call[p].a IN
  /\ call[p].at = "deleteGroup"
  /\ IF g \in groups
     THEN /\ Cascade(SubjectGrants(g), Members(g))
          /\ member' = member \ Members(g)
          /\ groups' = groups \ {g}
     ELSE UNCHANGED <<member, grants, scope, groups, late>>
  /\ Done(p)
  /\ UNCHANGED <<users, roleGroups, rolesTable, groupRole, legacy, used>>

(* FirstOrCreate of a membership. *)
InsertMember(p) ==
  LET x == <<call[p].a, call[p].b>> IN
  /\ call[p].at = "memberInsert"
  /\ member' = member \cup {x}
  /\ late' = IF x[1] \in groups THEN late ELSE late \cup {x}
  /\ Done(p)
  /\ UNCHANGED <<ends, groupRole, grants, scope, legacy, used>>

RemoveGroupMember(p, g, u) ==
  /\ Free(p)
  /\ <<g, u>> \in member
  /\ member' = member \ {<<g, u>>}
  /\ late' = late \ {<<g, u>>}
  /\ UNCHANGED <<ends, groupRole, grants, scope, legacy, used, call>>

InsertGroupRole(p) ==
  LET x == <<call[p].a, call[p].b>> IN
  /\ call[p].at = "roleInsert"
  /\ groupRole' = groupRole \cup {x}
  /\ late' = IF x[1] \in roleGroups /\ x[2] \in roles THEN late ELSE late \cup {x}
  /\ Done(p)
  /\ UNCHANGED <<ends, member, grants, scope, legacy, used>>

DeleteGroupRole(p) ==
  /\ call[p].at = "roleRemove"
  /\ groupRole' = groupRole \ {<<call[p].a, call[p].b>>}
  /\ late' = late \ {<<call[p].a, call[p].b>>}
  /\ Done(p)
  /\ UNCHANGED <<ends, member, grants, scope, legacy, used>>

(* validateScopes: at least one, and no namespace of an unnamed cluster. *)
ValidateScopes(S) == S # {} /\ \A s \in S : s.cluster = Wild => s.namespace = Wild

(* The grant and its scopes in one transaction; the unique index refuses a   *)
(* pair that is there already, whatever GetGrant said before. *)
InsertGrant(p, S) ==
  LET g == <<call[p].a, call[p].b>> IN
  /\ call[p].at = "grantInsert"
  /\ ValidateScopes(S)
  /\ g \in grants \/ Cardinality(grants) < MaxGrants
  /\ IF g \notin grants
     THEN /\ grants' = grants \cup {g}
          /\ scope' = scope \cup ({g} \X S)
          /\ late' = late \cup Dangling({g})
     ELSE UNCHANGED <<grants, scope, late>>
  /\ Done(p)
  /\ UNCHANGED <<ends, member, groupRole, legacy, used>>

DeleteGrant(p, g) ==
  /\ Free(p)
  /\ g \in grants
  /\ Cascade({g}, {})
  /\ UNCHANGED <<ends, member, groupRole, legacy, used, call>>

(* A statement fails: the request ends with what it has written so far,      *)
(* which is nothing, since each writes once. *)
Fail(p) ==
  /\ ~Free(p)
  /\ Done(p)
  /\ UNCHANGED <<ends, links, legacy, used, late>>

Next ==
  \/ Restart
  \/ \E u \in Users : CreateUser(u) \/ DeleteUser(u)
  \/ \E r \in Roles, P \in PermChoices : CreateRole(r, P)
  \/ \E g \in Groups : CreateUserGroup(g)
  \/ \E q \in RoleGroups : CreateRoleGroup(q)
  \/ \E p \in Calls :
       \/ \E r \in Roles : UpdateRole(p, r) \/ DeleteRole(p, r)
       \/ \E g \in Groups : UpdateUserGroup(p, g) \/ DeleteUserGroup(p, g)
       \/ \E q \in RoleGroups : UpdateRoleGroup(p, q) \/ DeleteRoleGroup(p, q)
       \/ \E g \in Groups, u \in Users : AddGroupMember(p, g, u) \/ RemoveGroupMember(p, g, u)
       \/ \E q \in RoleGroups, r \in Roles : AddRoleGroupRole(p, q, r) \/ RemoveRoleGroupRole(p, q, r)
       \/ \E s \in Subjects, o \in Objects : CreateGrant(p, s, o)
       \/ \E g \in grants : DeleteGrant(p, g)
       \/ MemberUser(p) \/ RoleOfGroup(p) \/ GrantObject(p) \/ GrantSubject(p)
       \/ \E P \in PermChoices : SaveRole(p, P)
       \/ SaveUserGroup(p) \/ SaveRoleGroup(p)
       \/ DropRole(p) \/ DropRoleGroup(p) \/ DropUserGroup(p)
       \/ InsertMember(p) \/ InsertGroupRole(p) \/ DeleteGroupRole(p)
       \/ \E S \in ScopeChoices : InsertGrant(p, S)
       \/ Fail(p)

Spec == Init /\ [][Next]_vars

-------------------------------------------------------------------------------
(* Authorization, a pure function of the tables.                             *)
ScopeMatchesEither(S, c, n) ==
  \/ c = Wild \/ n = Wild
  \/ \E s \in S : s.cluster \in {Wild, c} /\ s.namespace \in {Wild, n}

(* scopeMatches: an empty query names nothing and matches everything. *)
ScopeMatches(S, c, n) ==
  \/ c = Wild /\ n = Wild
  \/ \E s \in S : (c = Wild \/ s.cluster \in {Wild, c}) /\ (n = Wild \/ s.namespace \in {Wild, n})

(* GrantsForUser: his own grants and those of the groups he is listed in. *)
GrantsForUser(u) == {g \in grants : g[1] = u \/ <<g[1], u>> \in member}

(* permissionsForObject: a role that has gone gives nothing, a role group    *)
(* gives what the join with its roles yields. *)
Decoded(r) == IF r \in roles THEN perms[r] ELSE {}
PermissionsForObject(o) ==
  IF o \in Roles THEN Decoded(o)
  ELSE UNION {Decoded(x[2]) : x \in {y \in groupRole : y[1] = o}}

EffectivePermissions(u, c, n) ==
  IF IdentityRole[u] = AdminRole THEN {All}
  ELSE SeedPerms[IdentityRole[u]] \cup
       UNION {PermissionsForObject(g[2]) :
                g \in {x \in GrantsForUser(u) : ScopeMatches({y[2] : y \in {z \in scope : z[1] = x}}, c, n)}}

Authorize(u, perm, c, n) == EffectivePermissions(u, c, n) \cap {All, perm} # {}

-------------------------------------------------------------------------------
(* Every variable keeps its type, and a request knows the rows it is about. *)
TablesTypeOK ==
  /\ users \subseteq Users /\ groups \subseteq Groups /\ roleGroups \subseteq RoleGroups
  /\ roles \subseteq Roles /\ perms \in [Roles -> SUBSET Perms]
  /\ member \subseteq Groups \X Users
  /\ groupRole \subseteq RoleGroups \X Roles
  /\ grants \subseteq Subjects \X Objects
  /\ scope \subseteq (Subjects \X Objects) \X Scope
  /\ legacy \subseteq Legacy
  /\ used \subseteq Subjects \cup Objects

Call == [at : Steps, a : Subjects \cup Objects \cup {None}, b : Users \cup Objects \cup {None}]

Informed(c) ==
  /\ c.at \in {"saveRole", "deleteRole"} => c.a \in Roles \ Builtin
  /\ c.at \in {"saveGroup", "deleteGroup"} => c.a \in Groups
  /\ c.at \in {"saveRoleGroup", "deleteRoleGroup"} => c.a \in RoleGroups
  /\ c.at \in {"memberUser", "memberInsert"} => c.a \in Groups /\ c.b \in Users
  /\ c.at \in {"roleOfGroup", "roleInsert", "roleRemove"} => c.a \in RoleGroups /\ c.b \in Roles
  /\ c.at \in {"object", "subjectAgain", "grantInsert"} => c.a \in Subjects /\ c.b \in Objects

CallTypeOK == call \in [Calls -> Call] /\ \A p \in Calls : Informed(call[p])

RbacTypeOK == TablesTypeOK /\ CallTypeOK

(* The cascades leave no scope without its grant, which a later grant with   *)
(* the same id would inherit. *)
ScopesHaveGrant == \A x \in scope : x[1] \in grants

(* "级联": deleting a role, a role group or a user group takes every          *)
(* reference to it away in the same transaction. A grant or a membership     *)
(* that refers to nothing was inserted after the deletion, by a request that *)
(* had looked before it; only users are deleted without their grants. *)
CascadeComplete ==
  /\ \A g \in grants : g \in late \/ ((g[1] \in Groups => g[1] \in groups) /\ ObjectName(g[2]))
  /\ \A x \in member : x \in late \/ x[1] \in groups
  /\ \A x \in groupRole : x \in late \/ (x[1] \in roleGroups /\ x[2] \in roles)

(* A built-in role is never changed or deleted, by no order of requests and  *)
(* restarts: "built-in role is immutable". *)
BuiltinImmutable == [][\A r \in Builtin : r \in roles' /\ perms'[r] = perms[r]]_vars

(* What a query names: every cluster and namespace it may be about. *)
Places(x, all) == IF x = Wild THEN all ELSE {x}
Region(c, n) == Places(c, Clusters) \X Places(n, Namespaces)

(* The decision of Authorize is the one that the tables call for: a user     *)
(* holds a permission for a query if his identity role has it or a chain of  *)
(* rows leads from him to a role that has it, by a grant one of whose scopes *)
(* meets the query (a query without cluster and namespace asks for no scope).*)
Reached(u) == {u} \cup {g \in Groups : <<g, u>> \in member}
Gives(o) == {o} \cup {r \in Roles : <<o, r>> \in groupRole}
Holds(u, perm, c, n) ==
  \/ IdentityRole[u] = AdminRole
  \/ perm \in SeedPerms[IdentityRole[u]]
  \/ \E g \in grants :
       /\ g[1] \in Reached(u)
       /\ \E r \in Gives(g[2]) \cap Roles : r \in roles /\ {perm, All} \cap perms[r] # {}
       /\ \/ c = Wild /\ n = Wild
          \/ \E s \in Scope : <<g, s>> \in scope
                              /\ Region(s.cluster, s.namespace) \cap Region(c, n) # {}

AuthorizeIsHolds ==
  \A u \in Users, perm \in Perms \ {All}, c \in Clusters \cup {Wild}, n \in Namespaces \cup {Wild} :
    Authorize(u, perm, c, n) <=> Holds(u, perm, c, n)
===============================================================================
