------------------------------ MODULE Rbac_proofs ------------------------------
(* Proofs about Rbac: for any users, groups, roles, permissions and requests. *)
EXTENDS Rbac, TLAPS

(* The built-in roles are there as they were seeded; their ids are taken.    *)
Seeded ==
  /\ Builtin \subseteq used /\ Builtin \subseteq roles
  /\ \A r \in Builtin : perms[r] = SeedPerms[r]

IInv == RbacTypeOK /\ Seeded /\ ScopesHaveGrant /\ CascadeComplete

-------------------------------------------------------------------------------
(* A request moves on by itself: the tables stay as they are.                *)
LEMMA TablesStay ==
  ASSUME IInv, UNCHANGED <<ends, links, legacy, used, late>>
  PROVE  TablesTypeOK' /\ Seeded' /\ ScopesHaveGrant' /\ CascadeComplete'
<1>1. TablesTypeOK'
  BY DEF IInv, RbacTypeOK, TablesTypeOK, ends, links, rolesTable
<1>2. Seeded'
  BY DEF IInv, Seeded, ends, rolesTable
<1>3. ScopesHaveGrant' /\ CascadeComplete'
  BY DEF IInv, ScopesHaveGrant, CascadeComplete, ObjectName, ends, links, rolesTable
<1> QED BY <1>1, <1>2, <1>3

(* Request p goes to a place it is informed for.                             *)
LEMMA CallMoves ==
  ASSUME IInv, NEW p \in Calls, NEW c \in Call, Informed(c),
         call' = [call EXCEPT ![p] = c]
  PROVE  CallTypeOK'
<1>1. call \in [Calls -> Call] /\ \A q \in Calls : Informed(call[q])
  BY DEF IInv, RbacTypeOK, CallTypeOK
<1>2. call' \in [Calls -> Call]
  BY <1>1
<1>3. \A q \in Calls : call'[q] = IF q = p THEN c ELSE call[q]
  BY <1>1
<1> QED BY <1>1, <1>2, <1>3 DEF CallTypeOK

LEMMA IdleIsInformed == Idle \in Call /\ Informed(Idle)
BY DEF Idle, Call, Informed, Steps

LEMMA CallEnds ==
  ASSUME IInv, NEW p \in Calls, Done(p)
  PROVE  CallTypeOK'
BY CallMoves, IdleIsInformed DEF Done

LEMMA CallStays ==
  ASSUME IInv, UNCHANGED call
  PROVE  CallTypeOK'
BY DEF IInv, RbacTypeOK, CallTypeOK

(* The first statement of a request.                                         *)
LEMMA Begins ==
  ASSUME IInv, NEW p \in Calls, NEW at \in Steps,
         NEW a \in Subjects \cup Objects \cup {None}, NEW b \in Users \cup Objects \cup {None},
         NEW found \in BOOLEAN, Informed([at |-> at, a |-> a, b |-> b]),
         Begin(p, found, at, a, b)
  PROVE  IInv'
<1> DEFINE c == [at |-> at, a |-> a, b |-> b]
<1>1. c \in Call
  BY DEF Call
<1>2. CallTypeOK'
  <2>1. call' = [call EXCEPT ![p] = c]
    BY DEF Begin, Goto
  <2> QED BY <1>1, <2>1, CallMoves
<1>3. UNCHANGED <<ends, links, legacy, used, late>>
  BY DEF Begin
<1> QED BY <1>2, <1>3, TablesStay DEF IInv, RbacTypeOK

(* A further look-up of the same rows.                                       *)
LEMMA Checks ==
  ASSUME IInv, NEW p \in Calls, NEW at, NEW found, NEW next \in Steps,
         Informed([at |-> next, a |-> call[p].a, b |-> call[p].b]),
         Check(p, at, found, next)
  PROVE  IInv'
<1> DEFINE c == [at |-> next, a |-> call[p].a, b |-> call[p].b]
<1>1. c \in Call
  BY DEF Call, IInv, RbacTypeOK, CallTypeOK
<1>2. CallTypeOK'
  <2>1. CASE Done(p)
    BY <2>1, CallEnds
  <2>2. CASE call' = [call EXCEPT ![p] = c]
    BY <1>1, <2>2, CallMoves
  <2> QED BY <2>1, <2>2 DEF Check, Goto
<1>3. UNCHANGED <<ends, links, legacy, used, late>>
  BY DEF Check
<1> QED BY <1>2, <1>3, TablesStay DEF IInv, RbacTypeOK

-------------------------------------------------------------------------------
(* Rows are created; users disappear.                                        *)
(* A new user.                                                               *)
LEMMA UserCreated ==
  ASSUME IInv, NEW u \in Users, CreateUser(u)
  PROVE  IInv'
<1>1. CallTypeOK'
  BY CallStays DEF CreateUser
<1>2. TablesTypeOK'
  BY RbacAssumption
  DEF IInv, RbacTypeOK, TablesTypeOK, CreateUser, Subjects, rolesTable, links
<1>3. Seeded'
  BY RbacAssumption
  DEF IInv, RbacTypeOK, TablesTypeOK, Seeded, CreateUser, Subjects, rolesTable, links
<1>4. ScopesHaveGrant'
  BY DEF IInv, ScopesHaveGrant, CreateUser, Subjects, rolesTable, links
<1>5. CascadeComplete'
  BY RbacAssumption
  DEF IInv, RbacTypeOK, TablesTypeOK, CascadeComplete, ObjectName, Subjects, Objects,
      CreateUser, rolesTable, links
<1> QED BY <1>1, <1>2, <1>3, <1>4, <1>5 DEF IInv, RbacTypeOK

(* His grants and memberships stay behind.                                   *)
LEMMA UserDeleted ==
  ASSUME IInv, NEW u \in Users, DeleteUser(u)
  PROVE  IInv'
<1>1. CallTypeOK'
  BY CallStays DEF DeleteUser
<1>2. TablesTypeOK'
  BY RbacAssumption DEF IInv, RbacTypeOK, TablesTypeOK, DeleteUser, rolesTable, links
<1>3. Seeded'
  BY RbacAssumption
  DEF IInv, RbacTypeOK, TablesTypeOK, Seeded, DeleteUser, rolesTable, links
<1>4. ScopesHaveGrant'
  BY DEF IInv, ScopesHaveGrant, DeleteUser, rolesTable, links
<1>5. CascadeComplete'
  BY RbacAssumption
  DEF IInv, RbacTypeOK, TablesTypeOK, CascadeComplete, ObjectName, Subjects, Objects,
      DeleteUser, rolesTable, links
<1> QED BY <1>1, <1>2, <1>3, <1>4, <1>5 DEF IInv, RbacTypeOK

(* An id that is not used is that of no built-in role.                       *)
LEMMA RoleCreated ==
  ASSUME IInv, NEW r \in Roles, NEW P \in PermChoices, CreateRole(r, P)
  PROVE  IInv'
<1>1. CallTypeOK'
  BY CallStays DEF CreateRole
<1>2. TablesTypeOK'
  BY RbacAssumption DEF IInv, RbacTypeOK, TablesTypeOK, CreateRole, Objects, links
<1>3. Seeded'
  BY RbacAssumption DEF IInv, RbacTypeOK, TablesTypeOK, Seeded, CreateRole, Objects, links
<1>4. ScopesHaveGrant'
  BY DEF IInv, ScopesHaveGrant, CreateRole, Objects, links
<1>5. CascadeComplete'
  BY RbacAssumption
  DEF IInv, RbacTypeOK, TablesTypeOK, CascadeComplete, ObjectName, Subjects, Objects,
      CreateRole, links
<1> QED BY <1>1, <1>2, <1>3, <1>4, <1>5 DEF IInv, RbacTypeOK

(* A new user group.                                                         *)
LEMMA UserGroupCreated ==
  ASSUME IInv, NEW g \in Groups, CreateUserGroup(g)
  PROVE  IInv'
<1>1. CallTypeOK'
  BY CallStays DEF CreateUserGroup
<1>2. TablesTypeOK'
  BY RbacAssumption
  DEF IInv, RbacTypeOK, TablesTypeOK, CreateUserGroup, Subjects, rolesTable, links
<1>3. Seeded'
  BY RbacAssumption
  DEF IInv, RbacTypeOK, TablesTypeOK, Seeded, CreateUserGroup, Subjects, rolesTable, links
<1>4. ScopesHaveGrant'
  BY DEF IInv, ScopesHaveGrant, CreateUserGroup, Subjects, rolesTable, links
<1>5. CascadeComplete'
  BY RbacAssumption
  DEF IInv, RbacTypeOK, TablesTypeOK, CascadeComplete, ObjectName, Subjects, Objects,
      CreateUserGroup, rolesTable, links
<1> QED BY <1>1, <1>2, <1>3, <1>4, <1>5 DEF IInv, RbacTypeOK

(* A new role group.                                                         *)
LEMMA RoleGroupCreated ==
  ASSUME IInv, NEW q \in RoleGroups, CreateRoleGroup(q)
  PROVE  IInv'
<1>1. CallTypeOK'
  BY CallStays DEF CreateRoleGroup
<1>2. TablesTypeOK'
  BY RbacAssumption
  DEF IInv, RbacTypeOK, TablesTypeOK, CreateRoleGroup, Objects, rolesTable, links
<1>3. Seeded'
  BY RbacAssumption
  DEF IInv, RbacTypeOK, TablesTypeOK, Seeded, CreateRoleGroup, Objects, rolesTable, links
<1>4. ScopesHaveGrant'
  BY DEF IInv, ScopesHaveGrant, CreateRoleGroup, Objects, rolesTable, links
<1>5. CascadeComplete'
  BY RbacAssumption
  DEF IInv, RbacTypeOK, TablesTypeOK, CascadeComplete, ObjectName, Subjects, Objects,
      CreateRoleGroup, rolesTable, links
<1> QED BY <1>1, <1>2, <1>3, <1>4, <1>5 DEF IInv, RbacTypeOK

(* A role that is saved is no built-in one.                                  *)
LEMMA RoleSaved ==
  ASSUME IInv, NEW p \in Calls, NEW P \in PermChoices, SaveRole(p, P)
  PROVE  IInv'
<1>1. CallTypeOK'
  BY CallEnds DEF SaveRole
<1>2. TablesTypeOK'
  BY RbacAssumption
  DEF IInv, RbacTypeOK, TablesTypeOK, SaveRole, Informed, links, CallTypeOK, Call
<1>3. Seeded'
  BY RbacAssumption
  DEF IInv, RbacTypeOK, TablesTypeOK, Seeded, SaveRole, Informed, links, CallTypeOK, Call
<1>4. ScopesHaveGrant'
  BY DEF IInv, ScopesHaveGrant, SaveRole, Informed, links, RbacTypeOK, CallTypeOK, Call
<1>5. CascadeComplete'
  BY RbacAssumption
  DEF IInv, RbacTypeOK, TablesTypeOK, CascadeComplete, ObjectName, Subjects, Objects,
      SaveRole, Informed, links, CallTypeOK, Call
<1> QED BY <1>1, <1>2, <1>3, <1>4, <1>5 DEF IInv, RbacTypeOK

(* A save can bring a deleted group back, which repairs references.          *)
LEMMA UserGroupSaved ==
  ASSUME IInv, NEW p \in Calls, SaveUserGroup(p)
  PROVE  IInv'
<1>1. CallTypeOK'
  BY CallEnds DEF SaveUserGroup
<1>2. TablesTypeOK'
  BY RbacAssumption
  DEF IInv, RbacTypeOK, TablesTypeOK, SaveUserGroup, Informed, rolesTable, links,
      CallTypeOK, Call
<1>3. Seeded'
  BY RbacAssumption
  DEF IInv, RbacTypeOK, TablesTypeOK, Seeded, SaveUserGroup, Informed, rolesTable, links,
      CallTypeOK, Call
<1>4. ScopesHaveGrant'
  BY DEF IInv, ScopesHaveGrant, SaveUserGroup, Informed, rolesTable, links, RbacTypeOK,
         CallTypeOK, Call
<1>5. CascadeComplete'
  BY RbacAssumption
  DEF IInv, RbacTypeOK, TablesTypeOK, CascadeComplete, ObjectName, Subjects, Objects,
      SaveUserGroup, Informed, rolesTable, links, CallTypeOK, Call
<1> QED BY <1>1, <1>2, <1>3, <1>4, <1>5 DEF IInv, RbacTypeOK

(* The same for role groups.                                                 *)
LEMMA RoleGroupSaved ==
  ASSUME IInv, NEW p \in Calls, SaveRoleGroup(p)
  PROVE  IInv'
<1>1. CallTypeOK'
  BY CallEnds DEF SaveRoleGroup
<1>2. TablesTypeOK'
  BY RbacAssumption
  DEF IInv, RbacTypeOK, TablesTypeOK, SaveRoleGroup, Informed, rolesTable, links,
      CallTypeOK, Call
<1>3. Seeded'
  BY RbacAssumption
  DEF IInv, RbacTypeOK, TablesTypeOK, Seeded, SaveRoleGroup, Informed, rolesTable, links,
      CallTypeOK, Call
<1>4. ScopesHaveGrant'
  BY DEF IInv, ScopesHaveGrant, SaveRoleGroup, Informed, rolesTable, links, RbacTypeOK,
         CallTypeOK, Call
<1>5. CascadeComplete'
  BY RbacAssumption
  DEF IInv, RbacTypeOK, TablesTypeOK, CascadeComplete, ObjectName, Subjects, Objects,
      SaveRoleGroup, Informed, rolesTable, links, CallTypeOK, Call
<1> QED BY <1>1, <1>2, <1>3, <1>4, <1>5 DEF IInv, RbacTypeOK

(* The transaction of DeleteRole.                                            *)
LEMMA RoleDropped ==
  ASSUME IInv, NEW p \in Calls, DropRole(p)
  PROVE  IInv'
<1>1. CallTypeOK'
  BY CallEnds DEF DropRole
<1>2. TablesTypeOK'
  BY RbacAssumption
  DEF IInv, RbacTypeOK, TablesTypeOK, DropRole, Informed, rolesTable, Cascade, GroupsOf,
      ObjectGrants, CallTypeOK, Call
<1>3. Seeded'
  BY RbacAssumption
  DEF IInv, RbacTypeOK, TablesTypeOK, Seeded, DropRole, Informed, rolesTable, Cascade,
      GroupsOf, ObjectGrants, CallTypeOK, Call
<1>4. ScopesHaveGrant'
  BY DEF IInv, ScopesHaveGrant, DropRole, Informed, rolesTable, Cascade, GroupsOf,
         ObjectGrants, RbacTypeOK, CallTypeOK, Call
<1>5. CascadeComplete'
  BY RbacAssumption
  DEF IInv, RbacTypeOK, TablesTypeOK, CascadeComplete, ObjectName, Subjects, Objects,
      DropRole, Informed, rolesTable, Cascade, GroupsOf, ObjectGrants, CallTypeOK, Call
<1> QED BY <1>1, <1>2, <1>3, <1>4, <1>5 DEF IInv, RbacTypeOK

(* The transaction of DeleteRoleGroup.                                       *)
LEMMA RoleGroupDropped ==
  ASSUME IInv, NEW p \in Calls, DropRoleGroup(p)
  PROVE  IInv'
<1>1. CallTypeOK'
  BY CallEnds DEF DropRoleGroup
<1>2. TablesTypeOK'
  BY RbacAssumption
  DEF IInv, RbacTypeOK, TablesTypeOK, DropRoleGroup, Informed, rolesTable, Cascade,
      RolesOf, ObjectGrants, CallTypeOK, Call
<1>3. Seeded'
  BY RbacAssumption
  DEF IInv, RbacTypeOK, TablesTypeOK, Seeded, DropRoleGroup, Informed, rolesTable,
      Cascade, RolesOf, ObjectGrants, CallTypeOK, Call
<1>4. ScopesHaveGrant'
  BY DEF IInv, ScopesHaveGrant, DropRoleGroup, Informed, rolesTable, Cascade, RolesOf,
         ObjectGrants, RbacTypeOK, CallTypeOK, Call
<1>5. CascadeComplete'
  BY RbacAssumption
  DEF IInv, RbacTypeOK, TablesTypeOK, CascadeComplete, ObjectName, Subjects, Objects,
      DropRoleGroup, Informed, rolesTable, Cascade, RolesOf, ObjectGrants, CallTypeOK,
      Call
<1> QED BY <1>1, <1>2, <1>3, <1>4, <1>5 DEF IInv, RbacTypeOK

(* The transaction of DeleteUserGroup.                                       *)
LEMMA UserGroupDropped ==
  ASSUME IInv, NEW p \in Calls, DropUserGroup(p)
  PROVE  IInv'
<1>1. CallTypeOK'
  BY CallEnds DEF DropUserGroup
<1>2. TablesTypeOK'
  BY RbacAssumption
  DEF IInv, RbacTypeOK, TablesTypeOK, DropUserGroup, Informed, rolesTable, Cascade,
      Members, SubjectGrants, CallTypeOK, Call
<1>3. Seeded'
  BY RbacAssumption
  DEF IInv, RbacTypeOK, TablesTypeOK, Seeded, DropUserGroup, Informed, rolesTable,
      Cascade, Members, SubjectGrants, CallTypeOK, Call
<1>4. ScopesHaveGrant'
  BY DEF IInv, ScopesHaveGrant, DropUserGroup, Informed, rolesTable, Cascade, Members,
         SubjectGrants, RbacTypeOK, CallTypeOK, Call
<1>5. CascadeComplete'
  BY RbacAssumption
  DEF IInv, RbacTypeOK, TablesTypeOK, CascadeComplete, ObjectName, Subjects, Objects,
      DropUserGroup, Informed, rolesTable, Cascade, Members, SubjectGrants, CallTypeOK,
      Call
<1> QED BY <1>1, <1>2, <1>3, <1>4, <1>5 DEF IInv, RbacTypeOK

(* A membership of a group that has gone is late.                            *)
LEMMA MemberInserted ==
  ASSUME IInv, NEW p \in Calls, InsertMember(p)
  PROVE  IInv'
<1>1. CallTypeOK'
  BY CallEnds DEF InsertMember
<1>2. TablesTypeOK'
  BY RbacAssumption
  DEF IInv, RbacTypeOK, TablesTypeOK, InsertMember, Informed, ends, rolesTable,
      CallTypeOK, Call
<1>3. Seeded'
  BY RbacAssumption
  DEF IInv, RbacTypeOK, TablesTypeOK, Seeded, InsertMember, Informed, ends, rolesTable,
      CallTypeOK, Call
<1>4. ScopesHaveGrant'
  BY DEF IInv, ScopesHaveGrant, InsertMember, Informed, ends, rolesTable, RbacTypeOK,
         CallTypeOK, Call
<1>5. CascadeComplete'
  BY RbacAssumption
  DEF IInv, RbacTypeOK, TablesTypeOK, CascadeComplete, ObjectName, Subjects, Objects,
      InsertMember, Informed, ends, rolesTable, CallTypeOK, Call
<1> QED BY <1>1, <1>2, <1>3, <1>4, <1>5 DEF IInv, RbacTypeOK

(* Removing a membership.                                                    *)
LEMMA MemberRemoved ==
  ASSUME IInv, NEW p \in Calls, NEW g \in Groups, NEW u \in Users, RemoveGroupMember(p, g, u)
  PROVE  IInv'
<1>1. CallTypeOK'
  BY CallStays DEF RemoveGroupMember
<1>2. TablesTypeOK'
  BY RbacAssumption DEF IInv, RbacTypeOK, TablesTypeOK, RemoveGroupMember, ends, rolesTable
<1>3. Seeded'
  BY RbacAssumption
  DEF IInv, RbacTypeOK, TablesTypeOK, Seeded, RemoveGroupMember, ends, rolesTable
<1>4. ScopesHaveGrant'
  BY DEF IInv, ScopesHaveGrant, RemoveGroupMember, ends, rolesTable
<1>5. CascadeComplete'
  BY RbacAssumption
  DEF IInv, RbacTypeOK, TablesTypeOK, CascadeComplete, ObjectName, Subjects, Objects,
      RemoveGroupMember, ends, rolesTable
<1> QED BY <1>1, <1>2, <1>3, <1>4, <1>5 DEF IInv, RbacTypeOK

(* A role put into a group, late if either has gone.                         *)
LEMMA GroupRoleInserted ==
  ASSUME IInv, NEW p \in Calls, InsertGroupRole(p)
  PROVE  IInv'
<1>1. CallTypeOK'
  BY CallEnds DEF InsertGroupRole
<1>2. TablesTypeOK'
  BY RbacAssumption
  DEF IInv, RbacTypeOK, TablesTypeOK, InsertGroupRole, Informed, ends, rolesTable,
      CallTypeOK, Call
<1>3. Seeded'
  BY RbacAssumption
  DEF IInv, RbacTypeOK, TablesTypeOK, Seeded, InsertGroupRole, Informed, ends,
      rolesTable, CallTypeOK, Call
<1>4. ScopesHaveGrant'
  BY DEF IInv, ScopesHaveGrant, InsertGroupRole, Informed, ends, rolesTable, RbacTypeOK,
         CallTypeOK, Call
<1>5. CascadeComplete'
  BY RbacAssumption
  DEF IInv, RbacTypeOK, TablesTypeOK, CascadeComplete, ObjectName, Subjects, Objects,
      InsertGroupRole, Informed, ends, rolesTable, CallTypeOK, Call
<1> QED BY <1>1, <1>2, <1>3, <1>4, <1>5 DEF IInv, RbacTypeOK

(* Taking a role out of a group.                                             *)
LEMMA GroupRoleDeleted ==
  ASSUME IInv, NEW p \in Calls, DeleteGroupRole(p)
  PROVE  IInv'
<1>1. CallTypeOK'
  BY CallEnds DEF DeleteGroupRole
<1>2. TablesTypeOK'
  BY RbacAssumption
  DEF IInv, RbacTypeOK, TablesTypeOK, DeleteGroupRole, Informed, ends, rolesTable,
      CallTypeOK, Call
<1>3. Seeded'
  BY RbacAssumption
  DEF IInv, RbacTypeOK, TablesTypeOK, Seeded, DeleteGroupRole, Informed, ends,
      rolesTable, CallTypeOK, Call
<1>4. ScopesHaveGrant'
  BY DEF IInv, ScopesHaveGrant, DeleteGroupRole, Informed, ends, rolesTable, RbacTypeOK,
         CallTypeOK, Call
<1>5. CascadeComplete'
  BY RbacAssumption
  DEF IInv, RbacTypeOK, TablesTypeOK, CascadeComplete, ObjectName, Subjects, Objects,
      DeleteGroupRole, Informed, ends, rolesTable, CallTypeOK, Call
<1> QED BY <1>1, <1>2, <1>3, <1>4, <1>5 DEF IInv, RbacTypeOK

(* A grant with its scopes, late if either end has gone.                     *)
LEMMA GrantInserted ==
  ASSUME IInv, NEW p \in Calls, NEW S \in ScopeChoices, InsertGrant(p, S)
  PROVE  IInv'
<1>1. CallTypeOK'
  BY CallEnds DEF InsertGrant
<1>2. TablesTypeOK'
  BY RbacAssumption
  DEF IInv, RbacTypeOK, TablesTypeOK, InsertGrant, Informed, Dangling, SubjectName, ends,
      rolesTable, CallTypeOK, Call
<1>3. Seeded'
  BY RbacAssumption
  DEF IInv, RbacTypeOK, TablesTypeOK, Seeded, InsertGrant, Informed, Dangling,
      SubjectName, ends, rolesTable, CallTypeOK, Call
<1>4. ScopesHaveGrant'
  BY DEF IInv, ScopesHaveGrant, InsertGrant, Informed, Dangling, SubjectName, ends,
         rolesTable, RbacTypeOK, CallTypeOK, Call
<1>5. CascadeComplete'
  BY RbacAssumption
  DEF IInv, RbacTypeOK, TablesTypeOK, CascadeComplete, ObjectName, Subjects, Objects,
      InsertGrant, Informed, Dangling, SubjectName, ends, rolesTable, CallTypeOK, Call
<1> QED BY <1>1, <1>2, <1>3, <1>4, <1>5 DEF IInv, RbacTypeOK

(* A grant goes with its scopes.                                             *)
LEMMA GrantDeleted ==
  ASSUME IInv, NEW p \in Calls, NEW g \in grants, DeleteGrant(p, g)
  PROVE  IInv'
<1>1. CallTypeOK'
  BY CallStays DEF DeleteGrant
<1>2. TablesTypeOK'
  BY RbacAssumption
  DEF IInv, RbacTypeOK, TablesTypeOK, DeleteGrant, Cascade, ends, rolesTable
<1>3. Seeded'
  BY RbacAssumption
  DEF IInv, RbacTypeOK, TablesTypeOK, Seeded, DeleteGrant, Cascade, ends, rolesTable
<1>4. ScopesHaveGrant'
  BY DEF IInv, ScopesHaveGrant, DeleteGrant, Cascade, ends, rolesTable
<1>5. CascadeComplete'
  BY RbacAssumption
  DEF IInv, RbacTypeOK, TablesTypeOK, CascadeComplete, ObjectName, Subjects, Objects,
      DeleteGrant, Cascade, ends, rolesTable
<1> QED BY <1>1, <1>2, <1>3, <1>4, <1>5 DEF IInv, RbacTypeOK

(* A restart cuts every request off, seeds the built-in roles again, which   *)
(* changes none that is there, and may migrate the old bindings once more.   *)
LEMMA Restarted ==
  ASSUME IInv, Restart
  PROVE  IInv'
<1>1. CallTypeOK'
  BY IdleIsInformed DEF CallTypeOK, Restart
<1>2. TablesTypeOK'
  BY RbacAssumption
  DEF IInv, RbacTypeOK, TablesTypeOK, Restart, SeedDefaults, MigrateLegacy, Objects, Subjects
<1>3. Seeded'
  BY RbacAssumption
  DEF IInv, RbacTypeOK, TablesTypeOK, Seeded, Restart, SeedDefaults
<1>4. ScopesHaveGrant'
  BY DEF IInv, ScopesHaveGrant, Restart, MigrateLegacy
<1>5. CascadeComplete'
  <2>1. \A g \in grants' : g \in late' \/ ((g[1] \in Groups => g[1] \in groups') /\ ObjectName(g[2])')
    BY RbacAssumption
    DEF IInv, RbacTypeOK, TablesTypeOK, CascadeComplete, Restart, MigrateLegacy, SeedDefaults,
        Dangling, SubjectName, ObjectName
  <2>2. \A x \in member' : x \in late' \/ x[1] \in groups'
    BY DEF IInv, CascadeComplete, Restart, MigrateLegacy
  <2>3. \A x \in groupRole' : x \in late' \/ (x[1] \in roleGroups' /\ x[2] \in roles')
    BY DEF IInv, CascadeComplete, Restart, MigrateLegacy, SeedDefaults
  <2> QED BY <2>1, <2>2, <2>3 DEF CascadeComplete, ObjectName
<1> QED BY <1>1, <1>2, <1>3, <1>4, <1>5 DEF IInv, RbacTypeOK

-------------------------------------------------------------------------------
LEMMA Initially == ASSUME Init PROVE IInv
<1>1. CallTypeOK
  BY IdleIsInformed DEF CallTypeOK, Init
<1>2. TablesTypeOK
  BY RbacAssumption DEF Init, TablesTypeOK, Objects, Subjects
<1>3. Seeded
  BY RbacAssumption DEF Init, Seeded
<1>4. ScopesHaveGrant
  BY DEF Init, ScopesHaveGrant
<1>5. CascadeComplete
  BY <1>2, RbacAssumption
  DEF Init, TablesTypeOK, CascadeComplete, Dangling, SubjectName, ObjectName
<1> QED BY <1>1, <1>2, <1>3, <1>4, <1>5 DEF IInv, RbacTypeOK

(* The first statements of the ten kinds of requests that look a row up.     *)
LEMMA RequestsBegin ==
  ASSUME IInv, NEW p \in Calls,
         \/ \E r \in Roles : UpdateRole(p, r) \/ DeleteRole(p, r)
         \/ \E g \in Groups : UpdateUserGroup(p, g) \/ DeleteUserGroup(p, g)
         \/ \E q \in RoleGroups : UpdateRoleGroup(p, q) \/ DeleteRoleGroup(p, q)
         \/ \E g \in Groups, u \in Users : AddGroupMember(p, g, u)
         \/ \E q \in RoleGroups, r \in Roles : AddRoleGroupRole(p, q, r) \/ RemoveRoleGroupRole(p, q, r)
         \/ \E s \in Subjects, o \in Objects : CreateGrant(p, s, o)
  PROVE  IInv'
<1>1. UNCHANGED <<ends, links, legacy, used, late>>
  BY DEF UpdateRole, DeleteRole, UpdateUserGroup, DeleteUserGroup, UpdateRoleGroup,
         DeleteRoleGroup, AddGroupMember, AddRoleGroupRole, RemoveRoleGroupRole, CreateGrant, Begin
<1>2. \E c \in Call : Informed(c) /\ call' = [call EXCEPT ![p] = c]
  <2>1. CASE \E r \in Roles : UpdateRole(p, r) \/ DeleteRole(p, r)
    BY <2>1 DEF UpdateRole, DeleteRole, Begin, Goto, Custom, Call, Informed, Steps, Objects
  <2>2. CASE \E g \in Groups : UpdateUserGroup(p, g) \/ DeleteUserGroup(p, g)
    BY <2>2
    DEF UpdateUserGroup, DeleteUserGroup, Begin, Goto, Call, Informed, Steps, Subjects
  <2>3. CASE \E q \in RoleGroups : UpdateRoleGroup(p, q) \/ DeleteRoleGroup(p, q)
    BY <2>3
    DEF UpdateRoleGroup, DeleteRoleGroup, Begin, Goto, Call, Informed, Steps, Objects
  <2>4. CASE \E g \in Groups, u \in Users : AddGroupMember(p, g, u)
    BY <2>4 DEF AddGroupMember, Begin, Goto, Call, Informed, Steps, Subjects
  <2>5. CASE \E q \in RoleGroups, r \in Roles : AddRoleGroupRole(p, q, r) \/ RemoveRoleGroupRole(p, q, r)
    BY <2>5
    DEF AddRoleGroupRole, RemoveRoleGroupRole, Begin, Goto, Call, Informed, Steps, Objects
  <2>6. CASE \E s \in Subjects, o \in Objects : CreateGrant(p, s, o)
    BY <2>6 DEF CreateGrant, Begin, Goto, Call, Informed, Steps
  <2> QED BY <2>1, <2>2, <2>3, <2>4, <2>5, <2>6
<1>3. CallTypeOK'
  BY <1>2, CallMoves
<1> QED BY <1>1, <1>3, TablesStay DEF IInv, RbacTypeOK

(* The look-ups that follow keep the rows the request is about.              *)
LEMMA RequestsCheck ==
  ASSUME IInv, NEW p \in Calls,
         MemberUser(p) \/ RoleOfGroup(p) \/ GrantObject(p) \/ GrantSubject(p)
  PROVE  IInv'
<1> USE DEF IInv, RbacTypeOK, CallTypeOK, Informed, Steps
<1>1. CASE MemberUser(p)
  BY <1>1, Checks DEF MemberUser, Check
<1>2. CASE RoleOfGroup(p)
  BY <1>2, Checks DEF RoleOfGroup, Check
<1>3. CASE GrantObject(p)
  BY <1>3, Checks DEF GrantObject, Check
<1>4. CASE GrantSubject(p)
  BY <1>4, Checks DEF GrantSubject, Check
<1> QED BY <1>1, <1>2, <1>3, <1>4

(* A request that fails has written nothing.                                 *)
LEMMA RequestFails ==
  ASSUME IInv, NEW p \in Calls, Fail(p)
  PROVE  IInv'
BY CallEnds, TablesStay DEF Fail, IInv, RbacTypeOK

LEMMA StepKeeps == ASSUME IInv, [Next]_vars PROVE IInv'
<1>1. CASE UNCHANGED vars
  BY <1>1, CallStays, TablesStay DEF vars, ends, links, rolesTable, IInv, RbacTypeOK
<1>2. CASE Restart
  BY <1>2, Restarted
<1>3. CASE \E u \in Users : CreateUser(u) \/ DeleteUser(u)
  BY <1>3, UserCreated, UserDeleted
<1>4. CASE \/ \E r \in Roles, P \in PermChoices : CreateRole(r, P)
           \/ \E g \in Groups : CreateUserGroup(g)
           \/ \E q \in RoleGroups : CreateRoleGroup(q)
  BY <1>4, RoleCreated, UserGroupCreated, RoleGroupCreated
<1>5. ASSUME NEW p \in Calls,
             \/ \E g \in Groups, u \in Users : RemoveGroupMember(p, g, u)
             \/ \E g \in grants : DeleteGrant(p, g)
             \/ \E P \in PermChoices : SaveRole(p, P)
             \/ SaveUserGroup(p) \/ SaveRoleGroup(p)
             \/ DropRole(p) \/ DropRoleGroup(p) \/ DropUserGroup(p)
             \/ InsertMember(p) \/ InsertGroupRole(p) \/ DeleteGroupRole(p)
             \/ \E S \in ScopeChoices : InsertGrant(p, S)
      PROVE  IInv'
  BY <1>5, MemberRemoved, GrantDeleted, RoleSaved, UserGroupSaved, RoleGroupSaved, RoleDropped,
     RoleGroupDropped, UserGroupDropped, MemberInserted, GroupRoleInserted, GroupRoleDeleted, GrantInserted
<1> QED BY <1>1, <1>2, <1>3, <1>4, <1>5, RequestsBegin, RequestsCheck, RequestFails DEF Next

LEMMA Invariant == Spec => []IInv
BY Initially, StepKeeps, PTL DEF Spec

-------------------------------------------------------------------------------
(* Tables and requests keep their types in any number of concurrent requests *)
(* and restarts: a request writes only rows it has looked up.                *)
THEOREM TypeCorrect == Spec => []RbacTypeOK
<1>1. IInv => RbacTypeOK
  BY DEF IInv
<1> QED BY <1>1, Invariant, PTL

(* The scopes of a grant go with it, in DeleteGrant and in the three         *)
(* cascades, so that no later grant inherits them.                           *)
THEOREM ScopesAlwaysHaveGrant == Spec => []ScopesHaveGrant
<1>1. IInv => ScopesHaveGrant
  BY DEF IInv
<1> QED BY <1>1, Invariant, PTL

(* DeleteRole, DeleteRoleGroup and DeleteUserGroup leave no reference to     *)
(* what they delete: what dangles was inserted later, by a check made before.*)
THEOREM CascadesComplete == Spec => []CascadeComplete
<1>1. IInv => CascadeComplete
  BY DEF IInv
<1> QED BY <1>1, Invariant, PTL

(* The built-in roles are what they were seeded as in every state, so no     *)
(* step changes them: ErrBuiltinImmutable covers every way to write a role.  *)
THEOREM BuiltinNeverChanges == Spec => BuiltinImmutable
<1>1. ASSUME IInv, IInv' PROVE \A r \in Builtin : r \in roles' /\ perms'[r] = perms[r]
  BY <1>1 DEF IInv, Seeded
<1> QED BY <1>1, Invariant, PTL DEF BuiltinImmutable
-------------------------------------------------------------------------------
(* A scope matches a query exactly when they have a place in common, or the  *)
(* query names nothing.                                                      *)
LEMMA ScopesMeet ==
  ASSUME NEW s \in Scope, NEW c \in Clusters \cup {Wild}, NEW n \in Namespaces \cup {Wild}
  PROVE  (Region(s.cluster, s.namespace) \cap Region(c, n) # {}) <=>
         ((c = Wild \/ s.cluster \in {Wild, c}) /\ (n = Wild \/ s.namespace \in {Wild, n}))
<1>1. (Places(s.cluster, Clusters) \cap Places(c, Clusters) # {}) <=> (c = Wild \/ s.cluster \in {Wild, c})
  BY RbacAssumption DEF Places, Scope
<1>2. (Places(s.namespace, Namespaces) \cap Places(n, Namespaces) # {}) <=> (n = Wild \/ s.namespace \in {Wild, n})
  BY RbacAssumption DEF Places, Scope
<1>3. (Region(s.cluster, s.namespace) \cap Region(c, n) # {}) <=>
        /\ Places(s.cluster, Clusters) \cap Places(c, Clusters) # {}
        /\ Places(s.namespace, Namespaces) \cap Places(n, Namespaces) # {}
  <2>1. ASSUME NEW x \in Region(s.cluster, s.namespace) \cap Region(c, n)
        PROVE  /\ x[1] \in Places(s.cluster, Clusters) \cap Places(c, Clusters)
               /\ x[2] \in Places(s.namespace, Namespaces) \cap Places(n, Namespaces)
    BY DEF Region
  <2>2. ASSUME NEW a \in Places(s.cluster, Clusters) \cap Places(c, Clusters),
               NEW b \in Places(s.namespace, Namespaces) \cap Places(n, Namespaces)
        PROVE  <<a, b>> \in Region(s.cluster, s.namespace) \cap Region(c, n)
    BY DEF Region
  <2> QED BY <2>1, <2>2
<1> QED BY <1>1, <1>2, <1>3

(* What an object gives is what the roles it stands for hold.                *)
LEMMA ObjectGives ==
  ASSUME TablesTypeOK, NEW o \in Objects, NEW x
  PROVE  x \in PermissionsForObject(o) <=> \E r \in Gives(o) \cap Roles : r \in roles /\ x \in perms[r]
<1>1. CASE o \in Roles
  BY <1>1, RbacAssumption DEF TablesTypeOK, PermissionsForObject, Decoded, Gives
<1>2. CASE o \notin Roles
  <2>1. x \in PermissionsForObject(o) <=>
          \E y \in groupRole : y[1] = o /\ y[2] \in roles /\ x \in perms[y[2]]
    BY <1>2 DEF PermissionsForObject, Decoded
  <2>2. \A r \in Roles : r \in Gives(o) <=> <<o, r>> \in groupRole
    BY <1>2 DEF Gives
  <2>3. \A y \in groupRole : y[2] \in Roles /\ y = <<y[1], y[2]>>
    BY DEF TablesTypeOK
  <2>4. ASSUME NEW r \in Gives(o) \cap Roles, r \in roles, x \in perms[r]
        PROVE  x \in PermissionsForObject(o)
    <3>1. <<o, r>> \in groupRole /\ <<o, r>>[1] = o /\ <<o, r>>[2] = r
      BY <2>2, <2>4
    <3> QED BY <2>1, <2>4, <3>1
  <2>5. ASSUME x \in PermissionsForObject(o)
        PROVE  \E r \in Gives(o) \cap Roles : r \in roles /\ x \in perms[r]
    <3>1. PICK y \in groupRole : y[1] = o /\ y[2] \in roles /\ x \in perms[y[2]]
      BY <2>1, <2>5
    <3>2. <<o, y[2]>> \in groupRole
      BY <2>3, <3>1
    <3> QED BY <2>2, <2>3, <3>1, <3>2
  <2> QED BY <2>4, <2>5
<1> QED BY <1>1, <1>2

(* The grants that EffectivePermissions follows.                             *)
LEMMA GrantCounts ==
  ASSUME TablesTypeOK, NEW u \in Users, NEW g \in grants,
         NEW c \in Clusters \cup {Wild}, NEW n \in Namespaces \cup {Wild}
  PROVE  /\ g \in GrantsForUser(u) <=> g[1] \in Reached(u)
         /\ ScopeMatches({y[2] : y \in {z \in scope : z[1] = g}}, c, n) <=>
              \/ c = Wild /\ n = Wild
              \/ \E s \in Scope : <<g, s>> \in scope /\ Region(s.cluster, s.namespace) \cap Region(c, n) # {}
<1>1. g \in GrantsForUser(u) <=> g[1] \in Reached(u)
  BY DEF TablesTypeOK, GrantsForUser, Reached
<1>2. {y[2] : y \in {z \in scope : z[1] = g}} = {s \in Scope : <<g, s>> \in scope}
  BY DEF TablesTypeOK
<1>3. \A s \in Scope : (Region(s.cluster, s.namespace) \cap Region(c, n) # {}) <=>
         ((c = Wild \/ s.cluster \in {Wild, c}) /\ (n = Wild \/ s.namespace \in {Wild, n}))
  BY ScopesMeet
<1> QED BY <1>1, <1>2, <1>3 DEF ScopeMatches

(* Authorize grants what the tables call for, whatever they hold and while   *)
(* they change: scopeMatches, permissionsForObject and GrantsForUser lose    *)
(* nothing and add nothing.                                                  *)
THEOREM AuthorizeDecides == Spec => []AuthorizeIsHolds
<1>1. TablesTypeOK => AuthorizeIsHolds
  <2> SUFFICES ASSUME TablesTypeOK,
                      NEW u \in Users, NEW perm \in Perms \ {All},
                      NEW c \in Clusters \cup {Wild}, NEW n \in Namespaces \cup {Wild}
               PROVE  Authorize(u, perm, c, n) <=> Holds(u, perm, c, n)
    BY DEF AuthorizeIsHolds
  <2> DEFINE Hit(g) == ScopeMatches({y[2] : y \in {z \in scope : z[1] = g}}, c, n)
             Wanted(g) == \E r \in Gives(g[2]) \cap Roles : r \in roles /\ {perm, All} \cap perms[r] # {}
  <2>1. CASE IdentityRole[u] = AdminRole
    BY <2>1 DEF Authorize, EffectivePermissions, Holds
  <2>2. CASE IdentityRole[u] # AdminRole
    <3>1. All \notin SeedPerms[IdentityRole[u]]
      BY <2>2, RbacAssumption
    <3>2. \A g \in grants : Wanted(g) <=> PermissionsForObject(g[2]) \cap {All, perm} # {}
      BY ObjectGives DEF TablesTypeOK
    <3>3. Authorize(u, perm, c, n) <=>
            \/ perm \in SeedPerms[IdentityRole[u]]
            \/ \E g \in GrantsForUser(u) : Hit(g) /\ PermissionsForObject(g[2]) \cap {All, perm} # {}
      BY <2>2, <3>1 DEF Authorize, EffectivePermissions
    <3>4. GrantsForUser(u) \subseteq grants
      BY DEF GrantsForUser
    <3>5. Authorize(u, perm, c, n) <=>
            \/ perm \in SeedPerms[IdentityRole[u]]
            \/ \E g \in grants : g[1] \in Reached(u) /\ Wanted(g) /\ Hit(g)
      BY <3>2, <3>3, <3>4, GrantCounts
    <3>6. Holds(u, perm, c, n) <=>
            \/ perm \in SeedPerms[IdentityRole[u]]
            \/ \E g \in grants : g[1] \in Reached(u) /\ Wanted(g) /\ Hit(g)
      BY <2>2, GrantCounts DEF Holds
    <3> QED BY <3>5, <3>6
  <2> QED BY <2>1, <2>2
<1>2. IInv => TablesTypeOK
  BY DEF IInv, RbacTypeOK
<1> QED BY <1>1, <1>2, Invariant, PTL
===============================================================================
