---------------------- MODULE UserAdministration_proofs ----------------------
(***************************************************************************)
(* Theorems about RoleAdministration and UserAdministration, for any       *)
(* enterprises, users, roles, slots and workload; and about Seed, which    *)
(* makes the first of them, for any number of seeds.                       *)
(***************************************************************************)
EXTENDS UserAdministration, Seed, FiniteSetTheorems, SequenceTheorems, TLAPS

-----------------------------------------------------------------------------
(* What no request changes: whose role and whose user it is *)

\* What the rows of a table keep: they are not deleted and stay in their enterprise.
Keeps(S, rows, rowsN) ==
    \A x \in S : rows[x] # NULL => rowsN[x] # NULL /\ rowsN[x].enterprise = rows[x].enterprise

\* A row of user_roles joins a user and a role of one enterprise.
SoundRow(m, roles, users) ==
    /\ m \in UserRoles
    /\ users[m.user] # NULL
    /\ roles[m.role] # NULL
    /\ roles[m.role].enterprise = users[m.user].enterprise

\* What is known of a role request in flight, in view of the table.
SoundRole(t, roles) ==
    /\ t \in RoleTasks
    /\ t.at = "insert" => t.entity \in Roles /\ t.ask \in SUBSET Perms
    /\ t.at \in {"select", "write", "delete", "grants"} =>
          t.id \in RoleIds /\ roles[t.id] # NULL
    /\ t.at \in {"select", "write"} =>
          t.entity \in Roles /\ t.entity.enterprise = roles[t.id].enterprise
    /\ t.at = "write" => "enterprise" \notin t.cols
    /\ \A g \in t.loaded \cup t.again : roles[g.role] # NULL
    /\ t.at \in {"delete", "grants"} => t.ask \in SUBSET Perms

\* And of a user request: once past the validation, its roles are those of its
\* enterprise, and the rows it has read join what belongs together.
SoundUser(t, roles, users) ==
    /\ t \in UserTasks
    /\ t.at # "idle" => t.id \in UserIds
    /\ t.at = "validate" => t.op \in {"create", "update", "assign"}
    /\ t.at = "insert" => t.op = "create"
    /\ t.at \in {"clear", "commit"} => t.op = "update"
    /\ t.at \in {"find", "assign"} => t.op = "assign"
    /\ t.at \in {"select", "write"} => t.op \in {"remove", "reactivate"}
    /\ t.op \in {"create", "update", "assign"} =>
          t.id \in UserIds /\ t.enterprise \in Enterprises
    /\ t.op \in {"update", "assign"} =>
          users[t.id] # NULL /\ users[t.id].enterprise = t.enterprise
    /\ t.op \in {"remove", "reactivate"} => t.id \in UserIds /\ users[t.id] # NULL
    /\ t.at \in {"insert", "clear", "commit", "find", "assign"} =>
          \A r \in t.ids : roles[r] # NULL /\ roles[r].enterprise = t.enterprise
    /\ \A m \in t.rows \cup t.again : SoundRow(m, roles, users)

Apart ==
    /\ TypeOK
    /\ \A m \in member : SoundRow(m, role, user)
    /\ \A g \in grant : role[g.role] # NULL
    /\ \A s \in RoleSlots : SoundRole(roleTask[s], role)
    /\ \A s \in UserSlots : SoundUser(userTask[s], role, user)

LEMMA NullIsNothing ==
    /\ NULL \notin Roles /\ NULL \notin RoleIds /\ NULL \notin Enterprises
    /\ NULL \notin Users /\ NULL \notin UserIds /\ NULL \notin SUBSET Perms
    /\ MaxRequests \in Nat /\ RECEIVE_INCIDENTS_PERMISSIONS \subseteq Perms
    /\ PermissionLists \subseteq SUBSET Perms
  BY RoleAssumption, FirstUsersAssumption DEF RoleAssumption, FirstUsersAssumption

LEMMA IdleRoleType ==
    /\ IdleRole \in RoleTasks /\ IdleRole.at = "idle" /\ IdleRole.op = "none"
    /\ IdleRole.loaded = {} /\ IdleRole.again = {}
    /\ \A roles : SoundRole(IdleRole, roles)
<1>1. IdleRole \in RoleTasks
  <2>1. 0 \in 0..MaxRequests
    BY NullIsNothing
  <2>2. QED
    BY <2>1 DEF IdleRole, RoleTasks
<1>2. IdleRole.at = "idle" /\ IdleRole.op = "none"
      /\ IdleRole.loaded = {} /\ IdleRole.again = {}
  BY DEF IdleRole
<1>3. QED
  BY <1>1, <1>2 DEF SoundRole

LEMMA IdleUserType ==
    /\ IdleUser \in UserTasks /\ IdleUser.at = "idle" /\ IdleUser.op = "none"
    /\ IdleUser.rows = {} /\ IdleUser.again = {}
    /\ \A roles, users : SoundUser(IdleUser, roles, users)
<1>1. IdleUser \in UserTasks
  BY NullIsNothing DEF IdleUser, UserTasks
<1>2. IdleUser.at = "idle" /\ IdleUser.op = "none" /\ IdleUser.rows = {} /\ IdleUser.again = {}
  BY DEF IdleUser
<1>3. QED
  BY <1>1, <1>2 DEF SoundUser

LEMMA SoundRowStays ==
    ASSUME NEW m, NEW roles, NEW rolesN, NEW users, NEW usersN,
           Keeps(RoleIds, roles, rolesN), Keeps(UserIds, users, usersN),
           SoundRow(m, roles, users)
    PROVE  SoundRow(m, rolesN, usersN)
  BY DEF SoundRow, Keeps, UserRoles

LEMMA SoundRoleStays ==
    ASSUME NEW t, NEW roles, NEW rolesN, Keeps(RoleIds, roles, rolesN), SoundRole(t, roles)
    PROVE  SoundRole(t, rolesN)
<1>1. \A g \in t.loaded \cup t.again : g.role \in RoleIds
  BY DEF SoundRole, RoleTasks, RolePermissions
<1>2. QED
  BY <1>1 DEF SoundRole, Keeps

LEMMA SoundUserStays ==
    ASSUME NEW t, NEW roles, NEW rolesN, NEW users, NEW usersN,
           Keeps(RoleIds, roles, rolesN), Keeps(UserIds, users, usersN),
           SoundUser(t, roles, users)
    PROVE  SoundUser(t, rolesN, usersN)
<1>1. \A r \in t.ids : r \in RoleIds
  BY DEF SoundUser, UserTasks
<1>2. \A m \in t.rows \cup t.again : SoundRow(m, rolesN, usersN)
  BY SoundRowStays DEF SoundUser
<1>3. QED
  BY <1>1, <1>2 DEF SoundUser, Keeps

\* A role request goes on, and what it writes belongs together.
LEMMA RoleMoveKeepsApart ==
    ASSUME Apart, NEW s \in RoleSlots, NEW n, RoleBecomes(s, n), UNCHANGED userVars,
           requests' \in 0..MaxRequests,
           role' \in [RoleIds -> Roles \cup {NULL}],
           Keeps(RoleIds, role, role'),
           grant' \subseteq RolePermissions, \A g \in grant' : role'[g.role] # NULL,
           SoundRole(n, role')
    PROVE  Apart'
<1>1. roleTask' \in [RoleSlots -> RoleTasks]
  BY DEF Apart, TypeOK, RoleTypeOK, RoleBecomes, SoundRole
<1>2. TypeOK'
  BY <1>1 DEF Apart, TypeOK, RoleTypeOK, userVars
<1>3. Keeps(UserIds, user, user')
  BY DEF userVars, Keeps
<1>4. \A m \in member' : SoundRow(m, role', user')
  BY <1>3, SoundRowStays DEF Apart, userVars
<1>5. \A q \in RoleSlots : SoundRole(roleTask'[q], role')
  BY SoundRoleStays DEF Apart, TypeOK, RoleTypeOK, RoleBecomes
<1>6. \A q \in UserSlots : SoundUser(userTask'[q], role', user')
  BY <1>3, SoundUserStays DEF Apart, userVars
<1>7. QED
  BY <1>2, <1>4, <1>5, <1>6 DEF Apart

LEMMA RolesStay == Keeps(RoleIds, role, role) /\ Keeps(UserIds, user, user)
  BY DEF Keeps

\* It writes nothing.
LEMMA QuietRoleKeepsApart ==
    ASSUME Apart, NEW s \in RoleSlots, NEW n, RoleBecomes(s, n), UNCHANGED userVars,
           requests' \in 0..MaxRequests, UNCHANGED <<role, grant>>, SoundRole(n, role)
    PROVE  Apart'
<1>1. Keeps(RoleIds, role, role')
  BY RolesStay
<1>2. QED
  BY <1>1, RoleMoveKeepsApart DEF Apart, TypeOK, RoleTypeOK

LEMMA NextRequest ==
    ASSUME Apart, requests < MaxRequests
    PROVE  requests + 1 \in 0..MaxRequests
  BY NullIsNothing DEF Apart, TypeOK, RoleTypeOK

LEMMA ToGrantType ==
    ASSUME NEW P \in PermissionLists \cup {NULL}, NEW receives
    PROVE  ToGrant(P, receives) \in SUBSET Perms
  BY NullIsNothing DEF ToGrant

LEMMA StartRoleKeepsApart ==
    ASSUME Apart, NEW s \in RoleSlots, NEW t, StartRole(s, t), UNCHANGED userVars,
           SoundRole(t, role)
    PROVE  Apart'
<1> DEFINE n == [t EXCEPT !.by = requests + 1]
<1>1. RoleBecomes(s, n) /\ requests' = requests + 1 /\ UNCHANGED <<role, grant>>
  BY DEF StartRole
<1>2. requests + 1 \in 0..MaxRequests
  BY NextRequest DEF StartRole
<1>3. /\ n \in RoleTasks
      /\ n.at = t.at /\ n.id = t.id /\ n.entity = t.entity /\ n.cols = t.cols /\ n.ask = t.ask
      /\ n.loaded = t.loaded /\ n.again = t.again
  BY <1>2 DEF SoundRole, RoleTasks
<1> HIDE DEF n
<1>4. SoundRole(n, role)
  BY <1>3 DEF SoundRole
<1>5. QED
  BY <1>1, <1>2, <1>4, QuietRoleKeepsApart

LEMMA GrantingType ==
    ASSUME Apart, NEW r
    PROVE  Granting(r) \in SUBSET RolePermissions /\ \A g \in Granting(r) : role[g.role] # NULL
  BY DEF Apart, TypeOK, RoleTypeOK, Granting

LEMMA CreateRoleKeepsApart ==
    ASSUME Apart, NEW s \in RoleSlots, UNCHANGED userVars,
           NEW e \in Enterprises \cup {NULL}, NEW n \in Names, NEW P \in PermissionLists,
           NEW receives \in BOOLEAN, CreateRole(s, e, n, P, receives)
    PROVE  Apart'
<1> DEFINE entity == [enterprise |-> e, name |-> n,
                      canReceiveIncidents |-> receives, isActive |-> TRUE]
           ask == ToGrant(P, receives)
           t == [IdleRole EXCEPT !.op = "create", !.at = "insert", !.entity = entity,
                                 !.ask = ask]
<1>1. StartRole(s, t)
  BY DEF CreateRole
<1>2. entity \in Roles /\ ask \in SUBSET Perms
  BY ToGrantType DEF Roles
<1> HIDE DEF entity, ask
<1>3. t \in RoleTasks /\ t.at = "insert" /\ t.entity = entity /\ t.ask = ask
      /\ t.loaded = {} /\ t.again = {}
  BY <1>2, IdleRoleType DEF RoleTasks, RoleOps
<1> HIDE DEF t
<1>4. SoundRole(t, role)
  BY <1>2, <1>3 DEF SoundRole
<1>5. QED
  BY <1>1, <1>4, StartRoleKeepsApart

LEMMA UpdateRoleKeepsApart ==
    ASSUME Apart, NEW s \in RoleSlots, UNCHANGED userVars, NEW id \in RoleIds,
           NEW e \in Enterprises \cup {NULL}, NEW n \in Names \cup {NULL},
           NEW P \in PermissionLists \cup {NULL}, NEW receives \in BOOLEAN \cup {NULL},
           UpdateRole(s, id, e, n, P, receives)
    PROVE  Apart'
<1> DEFINE entity == Merged(role[id], n, receives)
           loaded == Granting(id)
           ask == IF P = NULL /\ receives = NULL THEN NULL
                  ELSE ToGrant(P, entity.canReceiveIncidents)
           t == [IdleRole EXCEPT !.op = "update", !.at = "select", !.id = id,
                                 !.entity = entity, !.loaded = loaded, !.ask = ask]
<1>1. StartRole(s, t) /\ role[id] # NULL
  BY DEF UpdateRole, FoundRole
<1>2. role[id] \in Roles
  BY <1>1 DEF Apart, TypeOK, RoleTypeOK
<1>3. entity \in Roles /\ entity.enterprise = role[id].enterprise
  BY <1>2 DEF Merged, Roles
<1>4. ask \in (SUBSET Perms) \cup {NULL}
  <2>1. ToGrant(P, entity.canReceiveIncidents) \in SUBSET Perms
    BY ToGrantType
  <2>2. QED
    BY <2>1
<1>5. loaded \in SUBSET RolePermissions /\ \A g \in loaded : role[g.role] # NULL
  BY GrantingType
<1> HIDE DEF entity, loaded, ask
<1>6. t \in RoleTasks /\ t.at = "select" /\ t.id = id /\ t.entity = entity
      /\ t.loaded = loaded /\ t.again = {}
  BY <1>3, <1>4, <1>5, IdleRoleType DEF RoleTasks, RoleOps
<1> HIDE DEF t
<1>7. SoundRole(t, role)
  BY <1>1, <1>3, <1>5, <1>6 DEF SoundRole
<1>8. QED
  BY <1>1, <1>7, StartRoleKeepsApart

LEMMA RemoveRoleKeepsApart ==
    ASSUME Apart, NEW s \in RoleSlots, UNCHANGED userVars, NEW id \in RoleIds,
           NEW e \in Enterprises \cup {NULL}, RemoveRole(s, id, e)
    PROVE  Apart'
<1> DEFINE entity == [role[id] EXCEPT !.isActive = FALSE]
           loaded == Granting(id)
           t == [IdleRole EXCEPT !.op = "remove", !.at = "select", !.id = id,
                                 !.entity = entity, !.loaded = loaded]
<1>1. StartRole(s, t) /\ role[id] # NULL
  BY DEF RemoveRole, FoundRole
<1>2. role[id] \in Roles
  BY <1>1 DEF Apart, TypeOK, RoleTypeOK
<1>3. entity \in Roles /\ entity.enterprise = role[id].enterprise
  BY <1>2 DEF Roles
<1>4. loaded \in SUBSET RolePermissions /\ \A g \in loaded : role[g.role] # NULL
  BY GrantingType
<1> HIDE DEF entity, loaded
<1>5. t \in RoleTasks /\ t.at = "select" /\ t.id = id /\ t.entity = entity
      /\ t.loaded = loaded /\ t.again = {}
  BY <1>3, <1>4, IdleRoleType DEF RoleTasks, RoleOps
<1> HIDE DEF t
<1>6. SoundRole(t, role)
  BY <1>1, <1>3, <1>4, <1>5 DEF SoundRole
<1>7. QED
  BY <1>1, <1>6, StartRoleKeepsApart

LEMMA InsertRoleKeepsApart ==
    ASSUME Apart, NEW s \in RoleSlots, UNCHANGED userVars, NEW id \in RoleIds,
           InsertRole(s, id)
    PROVE  Apart'
<1> DEFINE t == roleTask[s]
           on == [t EXCEPT !.at = "grants", !.id = id]
           n == IF t.ask = {} THEN IdleRole ELSE on
<1>1. /\ t.at = "insert" /\ role[id] = NULL
      /\ role' = [role EXCEPT ![id] = t.entity]
      /\ RoleBecomes(s, n)
      /\ UNCHANGED <<requests, grant>>
  BY DEF InsertRole
<1>2. SoundRole(t, role) /\ t \in RoleTasks /\ t.entity \in Roles /\ t.ask \in SUBSET Perms
  BY <1>1 DEF Apart, SoundRole
<1>3. \A r \in RoleIds : role'[r] = IF r = id THEN t.entity ELSE role[r]
  BY <1>1 DEF Apart, TypeOK, RoleTypeOK
<1>4. role' \in [RoleIds -> Roles \cup {NULL}]
  BY <1>1, <1>2 DEF Apart, TypeOK, RoleTypeOK
<1>5. Keeps(RoleIds, role, role')
  BY <1>1, <1>3 DEF Keeps
<1>6. \A g \in grant : role'[g.role] # NULL
  BY <1>1, <1>3, <1>5 DEF Apart, TypeOK, RoleTypeOK, RolePermissions, Keeps
<1>7. on \in RoleTasks /\ on.at = "grants" /\ on.id = id /\ on.ask = t.ask
      /\ on.loaded = t.loaded /\ on.again = t.again
  BY <1>2 DEF RoleTasks
<1> HIDE DEF on
<1>8. SoundRole(on, role')
  <2>1. \A g \in t.loaded \cup t.again : role'[g.role] # NULL
    BY <1>2, <1>5, SoundRoleStays DEF SoundRole
  <2>2. QED
    BY <1>2, <1>3, <1>7, <2>1, NullIsNothing DEF SoundRole
<1>9. SoundRole(n, role')
  BY <1>8, IdleRoleType
<1> HIDE DEF n
<1>10. QED
  BY <1>1, <1>4, <1>5, <1>6, <1>9, RoleMoveKeepsApart DEF Apart, TypeOK, RoleTypeOK

LEMMA RoleSelectKeepsApart ==
    ASSUME Apart, NEW s \in RoleSlots, UNCHANGED userVars, RoleSelect(s)
    PROVE  Apart'
<1> DEFINE t == roleTask[s]
           cols == Changed(t.entity, role[t.id])
           again == Reinserted(t.loaded, Granting(t.id))
           cut == CutOff(t.loaded, Granting(t.id))
           n == [t EXCEPT !.at = "write", !.cols = cols, !.again = again, !.cut = cut]
<1>1. t.at = "select" /\ RoleBecomes(s, n) /\ UNCHANGED <<requests, role, grant>>
  BY DEF RoleSelect
<1>2. SoundRole(t, role) /\ t \in RoleTasks /\ t.entity \in Roles /\ t.id \in RoleIds
      /\ role[t.id] # NULL /\ t.entity.enterprise = role[t.id].enterprise
  BY <1>1 DEF Apart, SoundRole
<1>3. role[t.id] \in Roles
  BY <1>2 DEF Apart, TypeOK, RoleTypeOK
<1>4. cols \in SUBSET {"enterprise", "name", "canReceiveIncidents", "isActive"}
      /\ "enterprise" \notin cols
  BY <1>2, <1>3 DEF Changed, Roles
<1>5. again \in SUBSET RolePermissions /\ cut \in SUBSET RolePermissions
      /\ again \subseteq t.loaded
  BY <1>2, GrantingType DEF RoleTasks, Reinserted, CutOff
<1> HIDE DEF cols, again, cut
<1>6. /\ n \in RoleTasks /\ n.at = "write" /\ n.cols = cols
      /\ n.id = t.id /\ n.entity = t.entity /\ n.loaded = t.loaded /\ n.again = again
  BY <1>2, <1>4, <1>5 DEF RoleTasks
<1> HIDE DEF n
<1>7. SoundRole(n, role)
  BY <1>2, <1>4, <1>5, <1>6 DEF SoundRole
<1>8. QED
  BY <1>1, <1>7, QuietRoleKeepsApart DEF Apart, TypeOK, RoleTypeOK

LEMMA RoleWriteKeepsApart ==
    ASSUME Apart, NEW s \in RoleSlots, UNCHANGED userVars, RoleWrite(s)
    PROVE  Apart'
<1> DEFINE t == roleTask[s]
           row == Written(role[t.id], t.entity, t.cols)
           on == [t EXCEPT !.at = "delete"]
           n == IF t.ask = NULL THEN IdleRole ELSE on
<1>1. /\ t.at = "write" /\ RoleBecomes(s, n) /\ requests' = requests
      /\ role' = [role EXCEPT ![t.id] = row]
      /\ grant' = (grant \ t.cut) \cup t.again
  BY DEF RoleWrite
<1>2. SoundRole(t, role) /\ t \in RoleTasks /\ t.entity \in Roles /\ t.id \in RoleIds
      /\ role[t.id] # NULL /\ "enterprise" \notin t.cols
  BY <1>1 DEF Apart, SoundRole
<1>3. role[t.id] \in Roles
  BY <1>2 DEF Apart, TypeOK, RoleTypeOK
<1>4. row \in Roles /\ row.enterprise = role[t.id].enterprise
  BY <1>2, <1>3 DEF Written, Roles
<1> HIDE DEF row
<1>5. \A r \in RoleIds : role'[r] = IF r = t.id THEN row ELSE role[r]
  BY <1>1 DEF Apart, TypeOK, RoleTypeOK
<1>6. role' \in [RoleIds -> Roles \cup {NULL}]
  BY <1>1, <1>4 DEF Apart, TypeOK, RoleTypeOK
<1>7. Keeps(RoleIds, role, role')
  BY <1>4, <1>5, NullIsNothing DEF Keeps
<1>8. on \in RoleTasks /\ on.at = "delete" /\ on.id = t.id /\ on.ask = t.ask
      /\ on.loaded = t.loaded /\ on.again = t.again
  BY <1>2 DEF RoleTasks
<1>9. t.ask \in SUBSET Perms \/ t.ask = NULL
  BY <1>2 DEF RoleTasks
<1> HIDE DEF on
<1>10. t.ask # NULL => SoundRole(on, role')
  <2>1. \A g \in t.loaded \cup t.again : role'[g.role] # NULL
    BY <1>2, <1>7, SoundRoleStays DEF SoundRole
  <2>2. QED
    BY <1>2, <1>7, <1>8, <1>9, <2>1 DEF SoundRole, Keeps
<1>11. SoundRole(n, role')
  BY <1>10, IdleRoleType
<1> HIDE DEF n
<1>12. grant' \subseteq RolePermissions
  BY <1>1, <1>2 DEF Apart, TypeOK, RoleTypeOK, RoleTasks
<1>13. \A g \in grant' : role'[g.role] # NULL
  <2> SUFFICES ASSUME NEW g \in grant' PROVE role'[g.role] # NULL
    OBVIOUS
  <2>1. g.role \in RoleIds
    BY <1>12 DEF RolePermissions
  <2>2. CASE g \in grant
    BY <1>7, <2>1, <2>2 DEF Apart, Keeps
  <2>3. CASE g \in t.again
    BY <1>2, <1>7, <2>1, <2>3 DEF Keeps, SoundRole
  <2>4. QED
    BY <1>1, <2>2, <2>3
<1>14. QED
  BY <1>1, <1>6, <1>7, <1>11, <1>12, <1>13, RoleMoveKeepsApart DEF Apart, TypeOK, RoleTypeOK

LEMMA GrantsKeepApart ==
    ASSUME Apart, NEW s \in RoleSlots, UNCHANGED userVars,
           DeleteGrants(s) \/ InsertGrants(s) \/ RoleFails(s)
    PROVE  Apart'
<1> DEFINE t == roleTask[s]
           on == [t EXCEPT !.at = "grants"]
           new == [role : {t.id}, perm : t.ask, by : {t.by}]
<1>0. SoundRole(t, role) /\ t \in RoleTasks /\ Keeps(RoleIds, role, role)
  BY RolesStay DEF Apart, SoundRole
<1>1. CASE DeleteGrants(s)
  <2>1. /\ t.at = "delete" /\ UNCHANGED <<requests, role>>
        /\ grant' = grant \ Granting(t.id)
        /\ RoleBecomes(s, IF t.ask = {} THEN IdleRole ELSE on)
    BY <1>1 DEF DeleteGrants
  <2>2. on \in RoleTasks /\ on.at = "grants" /\ on.id = t.id /\ on.ask = t.ask
        /\ on.loaded = t.loaded /\ on.again = t.again
    BY <1>0 DEF RoleTasks
  <2> HIDE DEF on
  <2>3. SoundRole(on, role)
    BY <1>0, <2>1, <2>2 DEF SoundRole
  <2>4. grant' \subseteq RolePermissions /\ \A g \in grant' : role[g.role] # NULL
    BY <2>1 DEF Apart, TypeOK, RoleTypeOK
  <2>5. CASE t.ask = {}
    BY <1>0, <2>1, <2>4, <2>5, IdleRoleType, RoleMoveKeepsApart DEF Apart, TypeOK, RoleTypeOK
  <2>6. CASE t.ask # {}
    BY <1>0, <2>1, <2>3, <2>4, <2>6, RoleMoveKeepsApart DEF Apart, TypeOK, RoleTypeOK
  <2>7. QED
    BY <2>5, <2>6
<1>2. CASE InsertGrants(s)
  <2>1. /\ t.at = "grants" /\ UNCHANGED <<requests, role>>
        /\ grant' = grant \cup new /\ RoleBecomes(s, IdleRole)
    BY <1>2 DEF InsertGrants
  <2>2. t.id \in RoleIds /\ role[t.id] # NULL /\ t.ask \in SUBSET Perms /\ t.by \in 0..MaxRequests
    BY <1>0, <2>1 DEF SoundRole, RoleTasks
  <2>3. new \subseteq RolePermissions /\ \A g \in new : g.role = t.id
    BY <2>2 DEF RolePermissions
  <2> HIDE DEF new
  <2>4. grant' \subseteq RolePermissions /\ \A g \in grant' : role[g.role] # NULL
    BY <2>1, <2>2, <2>3 DEF Apart, TypeOK, RoleTypeOK
  <2>5. QED
    BY <1>0, <2>1, <2>4, IdleRoleType, RoleMoveKeepsApart DEF Apart, TypeOK, RoleTypeOK
<1>3. CASE RoleFails(s)
  BY <1>3, IdleRoleType, QuietRoleKeepsApart DEF RoleFails, Apart, TypeOK, RoleTypeOK
<1>4. QED
  BY <1>1, <1>2, <1>3

LEMMA RoleStepKeepsApart ==
    ASSUME Apart, NEW s \in RoleSlots, RoleStep(s), UNCHANGED userVars
    PROVE  Apart'
<1>1. CASE RolesController(s)
  BY <1>1, CreateRoleKeepsApart, UpdateRoleKeepsApart, RemoveRoleKeepsApart
     DEF RolesController
<1>2. CASE ~ RolesController(s)
  BY <1>2, InsertRoleKeepsApart, RoleSelectKeepsApart, RoleWriteKeepsApart, GrantsKeepApart
     DEF RoleStep
<1>3. QED
  BY <1>1, <1>2

-----------------------------------------------------------------------------
(* The users *)

\* A user request goes on, and what it writes belongs together.
LEMMA UserMoveKeepsApart ==
    ASSUME Apart, NEW s \in UserSlots, NEW n, UserBecomes(s, n), UNCHANGED roleVars,
           requests' \in 0..MaxRequests,
           user' \in [UserIds -> Users \cup {NULL}],
           Keeps(UserIds, user, user'),
           \A m \in member' : SoundRow(m, role, user'),
           revoked' \in [UserIds -> SUBSET RoleIds],
           SoundUser(n, role, user')
    PROVE  Apart'
<1>0. Keeps(RoleIds, role, role) /\ role' = role /\ grant' = grant /\ roleTask' = roleTask
  BY RolesStay DEF roleVars
<1>1. userTask' \in [UserSlots -> UserTasks]
  BY DEF Apart, TypeOK, UserBecomes, SoundUser
<1>2. member' \subseteq UserRoles
  BY DEF SoundRow
<1>3. TypeOK'
  BY <1>0, <1>1, <1>2 DEF Apart, TypeOK, RoleTypeOK
<1>4. \A q \in UserSlots : SoundUser(userTask'[q], role, user')
  BY <1>0, SoundUserStays DEF Apart, TypeOK, UserBecomes
<1>5. QED
  BY <1>0, <1>3, <1>4 DEF Apart

\* It writes nothing.
LEMMA QuietUserKeepsApart ==
    ASSUME Apart, NEW s \in UserSlots, NEW n, UserBecomes(s, n), UNCHANGED roleVars,
           requests' \in 0..MaxRequests, UNCHANGED <<user, member>>,
           revoked' \in [UserIds -> SUBSET RoleIds],
           SoundUser(n, role, user)
    PROVE  Apart'
<1>1. Keeps(UserIds, user, user')
  BY RolesStay
<1>2. QED
  BY <1>1, UserMoveKeepsApart DEF Apart, TypeOK

LEMMA StartUserKeepsApart ==
    ASSUME Apart, NEW s \in UserSlots, NEW t, StartUser(s, t), SoundUser(t, role, user)
    PROVE  Apart'
<1> DEFINE n == [t EXCEPT !.by = requests + 1]
<1>1. UserBecomes(s, n) /\ requests' = requests + 1 /\ UNCHANGED <<roleVars, user, member>>
  BY DEF StartUser
<1>2. requests + 1 \in 0..MaxRequests
  BY NextRequest DEF StartUser
<1>3. /\ n \in UserTasks
      /\ n.at = t.at /\ n.op = t.op /\ n.id = t.id /\ n.enterprise = t.enterprise
      /\ n.ids = t.ids /\ n.rows = t.rows /\ n.again = t.again
  BY <1>2 DEF SoundUser, UserTasks
<1> HIDE DEF n
<1>4. SoundUser(n, role, user)
  BY <1>3 DEF SoundUser
<1>5. revoked' \in [UserIds -> SUBSET RoleIds]
  BY DEF StartUser, Apart, TypeOK
<1>6. QED
  BY <1>1, <1>2, <1>4, <1>5, QuietUserKeepsApart

LEMMA MembershipsSound ==
    ASSUME Apart, NEW u
    PROVE  /\ Memberships(u) \in SUBSET UserRoles
           /\ \A m \in Memberships(u) : SoundRow(m, role, user)
  BY DEF Apart, TypeOK, Memberships

\* The requests that come with roles.
LEMMA GivingKeepsApart ==
    ASSUME Apart, NEW s \in UserSlots, NEW u \in UserIds, NEW e \in Enterprises,
           NEW ids \in SUBSET RoleIds, NEW active \in BOOLEAN,
           \/ CreateUser(s, u, e, ids, active)
           \/ UpdateUser(s, u, e, ids, active)
           \/ AssignRolesToUser(s, u, e, ids)
    PROVE  Apart'
<1> DEFINE t(op, point, a) == [IdleUser EXCEPT !.op = op, !.at = point, !.id = u, !.enterprise = e,
                                               !.ids = ids, !.active = a]
<1>1. CASE CreateUser(s, u, e, ids, active)
  <2> DEFINE point == IF ids = {} THEN "insert" ELSE "validate"
             n == t("create", point, active)
  <2>1. StartUser(s, n)
    BY <1>1 DEF CreateUser
  <2>2. /\ n \in UserTasks /\ n.op = "create" /\ n.id = u /\ n.enterprise = e /\ n.ids = ids
        /\ (n.at = IF ids = {} THEN "insert" ELSE "validate")
        /\ n.rows = {} /\ n.again = {}
    <3>1. point \in {"validate", "insert", "clear"} /\ "create" \in {"create", "update", "assign"}
      OBVIOUS
    <3> HIDE DEF point
    <3>2. /\ n \in UserTasks /\ n.op = "create" /\ n.id = u /\ n.enterprise = e
          /\ n.ids = ids /\ n.at = point /\ n.rows = {} /\ n.again = {}
      BY <3>1, IdleUserType DEF UserTasks, UserOps
    <3>3. QED
      BY <3>2 DEF point
  <2> HIDE DEF n
  <2>3. SoundUser(n, role, user)
    BY <2>2 DEF SoundUser
  <2>4. QED
    BY <2>1, <2>3, StartUserKeepsApart
<1>2. CASE UpdateUser(s, u, e, ids, active)
  <2> DEFINE point == IF ids = {} THEN "clear" ELSE "validate"
             n == t("update", point, active)
  <2>1. StartUser(s, n) /\ user[u] # NULL /\ user[u].enterprise = e
    BY <1>2 DEF UpdateUser, FoundUser
  <2>2. /\ n \in UserTasks /\ n.op = "update" /\ n.id = u /\ n.enterprise = e /\ n.ids = ids
        /\ (n.at = IF ids = {} THEN "clear" ELSE "validate")
        /\ n.rows = {} /\ n.again = {}
    <3>1. point \in {"validate", "insert", "clear"} /\ "update" \in {"create", "update", "assign"}
      OBVIOUS
    <3> HIDE DEF point
    <3>2. /\ n \in UserTasks /\ n.op = "update" /\ n.id = u /\ n.enterprise = e
          /\ n.ids = ids /\ n.at = point /\ n.rows = {} /\ n.again = {}
      BY <3>1, IdleUserType DEF UserTasks, UserOps
    <3>3. QED
      BY <3>2 DEF point
  <2> HIDE DEF n
  <2>3. SoundUser(n, role, user)
    BY <2>1, <2>2 DEF SoundUser
  <2>4. QED
    BY <2>1, <2>3, StartUserKeepsApart
<1>3. CASE AssignRolesToUser(s, u, e, ids)
  <2> DEFINE n == [IdleUser EXCEPT !.op = "assign", !.at = "validate", !.id = u,
                                   !.enterprise = e, !.ids = ids]
  <2>1. StartUser(s, n) /\ user[u] # NULL /\ user[u].enterprise = e
    BY <1>3 DEF AssignRolesToUser, FoundUser
  <2>2. /\ n \in UserTasks /\ n.op = "assign" /\ n.id = u /\ n.enterprise = e /\ n.ids = ids
        /\ n.at = "validate" /\ n.rows = {} /\ n.again = {}
    BY IdleUserType DEF UserTasks, UserOps
  <2> HIDE DEF n
  <2>3. SoundUser(n, role, user)
    BY <2>1, <2>2 DEF SoundUser
  <2>4. QED
    BY <2>1, <2>3, StartUserKeepsApart
<1>4. QED
  BY <1>1, <1>2, <1>3

\* And the others.
LEMMA TakingKeepsApart ==
    ASSUME Apart, NEW s \in UserSlots, NEW u \in UserIds, NEW e \in Enterprises,
           \/ \E r \in RoleIds : RemoveRoleFromUser(s, u, e, r)
           \/ RemoveUser(s, u, e)
           \/ Reactivate(s, u, e)
    PROVE  Apart'
<1> DEFINE rows == Memberships(u)
<1>0. rows \in SUBSET UserRoles /\ \A m \in rows : SoundRow(m, role, user)
  BY MembershipsSound
<1>1. ASSUME NEW r \in RoleIds, RemoveRoleFromUser(s, u, e, r)
      PROVE  Apart'
  <2> DEFINE n == [IdleUser EXCEPT !.op = "removeRole", !.at = "findMember", !.id = u,
                                   !.enterprise = e, !.ids = {r}]
  <2>1. StartUser(s, n)
    BY <1>1 DEF RemoveRoleFromUser
  <2>2. /\ n \in UserTasks /\ n.op = "removeRole" /\ n.id = u
        /\ n.at = "findMember" /\ n.rows = {} /\ n.again = {}
    BY IdleUserType DEF UserTasks, UserOps
  <2> HIDE DEF n
  <2>3. SoundUser(n, role, user)
    BY <2>2 DEF SoundUser
  <2>4. QED
    BY <2>1, <2>3, StartUserKeepsApart
<1> HIDE DEF rows
<1>2. ASSUME NEW op \in {"remove", "reactivate"}, NEW a \in BOOLEAN, user[u] # NULL,
             StartUser(s, [IdleUser EXCEPT !.op = op, !.at = "select", !.id = u,
                                           !.active = a, !.rows = rows])
      PROVE  Apart'
  <2> DEFINE n == [IdleUser EXCEPT !.op = op, !.at = "select", !.id = u,
                                   !.active = a, !.rows = rows]
  <2>1. /\ n \in UserTasks /\ n.op = op /\ n.id = u /\ n.at = "select"
        /\ n.rows = rows /\ n.again = {}
    BY <1>0, IdleUserType DEF UserTasks, UserOps
  <2>2. StartUser(s, n)
    BY <1>2
  <2> HIDE DEF n
  <2>3. SoundUser(n, role, user)
    BY <1>0, <1>2, <2>1 DEF SoundUser
  <2>4. QED
    BY <2>2, <2>3, StartUserKeepsApart
<1>3. CASE RemoveUser(s, u, e)
  BY <1>2, <1>3 DEF RemoveUser, FoundUser, rows
<1>4. CASE Reactivate(s, u, e)
  BY <1>2, <1>4 DEF Reactivate, rows
<1>5. QED
  BY <1>1, <1>3, <1>4


\* The statements of the user service.
LEMMA CheckingKeepsApart ==
    ASSUME Apart, NEW s \in UserSlots,
           Validate(s) \/ ClearRoles(s) \/ FindAssigned(s) \/ FindMember(s) \/ UserFails(s)
    PROVE  Apart'
<1> DEFINE t == userTask[s]
<1>0. /\ SoundUser(t, role, user) /\ t \in UserTasks
      /\ requests \in 0..MaxRequests /\ revoked \in [UserIds -> SUBSET RoleIds]
  BY DEF Apart, SoundUser, TypeOK, RoleTypeOK
<1>1. CASE Validate(s)
  <2> DEFINE point == CASE t.op = "create" -> "insert"
                        [] t.op = "update" -> "clear"
                        [] t.op = "assign" -> "find"
             n == [t EXCEPT !.at = point]
  <2>1. /\ t.at = "validate" /\ RolesAreValid(t.ids, t.enterprise) /\ UserBecomes(s, n)
        /\ UNCHANGED <<requests, roleVars, user, member, revoked>>
    BY <1>1 DEF Validate, Goes
  <2>2. \/ t.op = "create" /\ point = "insert"
        \/ t.op = "update" /\ point = "clear"
        \/ t.op = "assign" /\ point = "find"
    BY <1>0, <2>1 DEF SoundUser
  <2> HIDE DEF point
  <2>3. /\ n \in UserTasks /\ n.op = t.op /\ n.at = point /\ n.id = t.id
        /\ n.enterprise = t.enterprise /\ n.ids = t.ids /\ n.rows = t.rows /\ n.again = t.again
    BY <1>0, <2>2 DEF UserTasks
  <2> HIDE DEF n
  <2>4. SoundUser(n, role, user)
    BY <1>0, <2>1, <2>2, <2>3 DEF SoundUser, RolesAreValid
  <2>5. QED
    BY <1>0, <2>1, <2>4, QuietUserKeepsApart
<1>2. CASE ClearRoles(s)
  <2> DEFINE rows == Memberships(t.id)
             n == [t EXCEPT !.at = "commit", !.rows = rows]
  <2>1. /\ t.at = "clear" /\ UserBecomes(s, n)
        /\ UNCHANGED <<requests, roleVars, user, member, revoked>>
    BY <1>2 DEF ClearRoles
  <2>2. rows \in SUBSET UserRoles /\ \A m \in rows : SoundRow(m, role, user)
    BY MembershipsSound
  <2> HIDE DEF rows
  <2>3. /\ n \in UserTasks /\ n.op = t.op /\ n.at = "commit" /\ n.id = t.id
        /\ n.enterprise = t.enterprise /\ n.ids = t.ids /\ n.rows = rows /\ n.again = t.again
    BY <1>0, <2>2 DEF UserTasks
  <2> HIDE DEF n
  <2>4. SoundUser(n, role, user)
    BY <1>0, <2>1, <2>2, <2>3 DEF SoundUser
  <2>5. QED
    BY <1>0, <2>1, <2>4, QuietUserKeepsApart
<1>3. CASE FindAssigned(s)
  <2> DEFINE rows == Memberships(t.id)
             on == [t EXCEPT !.at = "assign", !.rows = rows]
             n == IF t.ids \subseteq RolesOf(t.id) THEN IdleUser ELSE on
  <2>1. /\ t.at = "find" /\ UserBecomes(s, n)
        /\ UNCHANGED <<requests, roleVars, user, member, revoked>>
    BY <1>3 DEF FindAssigned
  <2>2. rows \in SUBSET UserRoles /\ \A m \in rows : SoundRow(m, role, user)
    BY MembershipsSound
  <2> HIDE DEF rows
  <2>3. /\ on \in UserTasks /\ on.op = t.op /\ on.at = "assign" /\ on.id = t.id
        /\ on.enterprise = t.enterprise /\ on.ids = t.ids /\ on.rows = rows
        /\ on.again = t.again
    BY <1>0, <2>2 DEF UserTasks
  <2> HIDE DEF on
  <2>4. SoundUser(on, role, user)
    BY <1>0, <2>1, <2>2, <2>3 DEF SoundUser
  <2>5. SoundUser(n, role, user)
    BY <2>4, IdleUserType
  <2> HIDE DEF n
  <2>6. QED
    BY <1>0, <2>1, <2>5, QuietUserKeepsApart
<1>4. CASE FindMember(s)
  <2> DEFINE found == {m \in Memberships(t.id) : m.role \in t.ids}
             n == [t EXCEPT !.at = "deleteMember", !.rows = found]
  <2>1. /\ t.at = "findMember" /\ UserBecomes(s, n)
        /\ UNCHANGED <<requests, roleVars, user, member, revoked>>
    BY <1>4 DEF FindMember
  <2>2. found \in SUBSET UserRoles /\ \A m \in found : SoundRow(m, role, user)
    BY MembershipsSound
  <2> HIDE DEF found
  <2>3. /\ n \in UserTasks /\ n.op = t.op /\ n.at = "deleteMember" /\ n.id = t.id
        /\ n.enterprise = t.enterprise /\ n.ids = t.ids /\ n.rows = found /\ n.again = t.again
    BY <1>0, <2>2 DEF UserTasks
  <2> HIDE DEF n
  <2>4. SoundUser(n, role, user)
    BY <1>0, <2>1, <2>2, <2>3 DEF SoundUser
  <2>5. QED
    BY <1>0, <2>1, <2>4, QuietUserKeepsApart
<1>5. CASE UserFails(s)
  BY <1>0, <1>5, IdleUserType, QuietUserKeepsApart DEF UserFails
<1>6. QED
  BY <1>1, <1>2, <1>3, <1>4, <1>5

\* The user of a row, written with another isActive.
LEMMA ActiveKeepsUsers ==
    ASSUME Apart, NEW u \in UserIds, user[u] # NULL, NEW active \in BOOLEAN,
           user' = [user EXCEPT ![u].isActive = active]
    PROVE  user' \in [UserIds -> Users \cup {NULL}] /\ Keeps(UserIds, user, user')
<1>1. user[u] \in Users /\ user \in [UserIds -> Users \cup {NULL}]
  BY DEF Apart, TypeOK
<1> DEFINE row == [user[u] EXCEPT !.isActive = active]
<1>2. row \in Users /\ row.enterprise = user[u].enterprise
  BY <1>1 DEF Users
<1> HIDE DEF row
<1>3. user' = [user EXCEPT ![u] = row]
  BY DEF row
<1>4. QED
  BY <1>1, <1>2, <1>3, NullIsNothing DEF Keeps

LEMMA RevokeType ==
    ASSUME Apart, NEW s \in UserSlots, NEW R \in SUBSET RoleIds, Revoke(s, R)
    PROVE  revoked' \in [UserIds -> SUBSET RoleIds]
<1>1. revoked \in [UserIds -> SUBSET RoleIds]
  BY DEF Apart, TypeOK
<1>2. \A u, C : [revoked EXCEPT ![u] = @ \cup (R \ C)] \in [UserIds -> SUBSET RoleIds]
  BY <1>1
<1>3. QED
  BY <1>2 DEF Revoke

LEMMA NewRowsSound ==
    ASSUME NEW t \in UserTasks, t.id \in UserIds, NEW R \in SUBSET RoleIds,
           NEW roles, NEW users, users[t.id] # NULL,
           \A r \in R : roles[r] # NULL /\ roles[r].enterprise = users[t.id].enterprise
    PROVE  \A m \in NewRows(t, R) : SoundRow(m, roles, users)
<1> SUFFICES ASSUME NEW m \in NewRows(t, R) PROVE SoundRow(m, roles, users)
  OBVIOUS
<1>1. m \in [user : {t.id}, role : R, by : {t.by}] /\ t.by \in 0..MaxRequests
  BY DEF NewRows, UserTasks
<1>2. m \in UserRoles /\ m.user = t.id /\ m.role \in R
  BY <1>1 DEF UserRoles
<1>3. QED
  BY <1>2 DEF SoundRow

LEMMA WritingKeepsApart ==
    ASSUME Apart, NEW s \in UserSlots,
           InsertUser(s) \/ CommitRoles(s) \/ InsertAssigned(s) \/ DeleteMember(s)
    PROVE  Apart'
<1> DEFINE t == userTask[s]
<1>0. /\ SoundUser(t, role, user) /\ t \in UserTasks /\ t.ids \in SUBSET RoleIds
      /\ t.active \in BOOLEAN /\ t.rows \in SUBSET UserRoles
      /\ requests \in 0..MaxRequests /\ revoked \in [UserIds -> SUBSET RoleIds]
      /\ user \in [UserIds -> Users \cup {NULL}]
      /\ \A m \in member : SoundRow(m, role, user)
  BY DEF Apart, SoundUser, TypeOK, RoleTypeOK, UserTasks
<1>1. \A users : SoundUser(IdleUser, role, users)
  BY IdleUserType
<1>2. Keeps(RoleIds, role, role) /\ Keeps(UserIds, user, user)
  BY RolesStay DEF Keeps
<1>3. {m.role : m \in t.rows} \in SUBSET RoleIds
  BY <1>0 DEF UserRoles
<1>4. CASE InsertUser(s)
  <2> DEFINE row == [enterprise |-> t.enterprise, isActive |-> t.active]
             new == NewRows(t, t.ids)
  <2>1. /\ t.at = "insert" /\ user[t.id] = NULL /\ user' = [user EXCEPT ![t.id] = row]
        /\ member' = member \cup new /\ UserBecomes(s, IdleUser)
        /\ UNCHANGED <<requests, roleVars, revoked>>
    BY <1>4 DEF InsertUser
  <2>2. /\ t.id \in UserIds /\ t.enterprise \in Enterprises
        /\ \A r \in t.ids : role[r] # NULL /\ role[r].enterprise = t.enterprise
    BY <1>0, <2>1 DEF SoundUser
  <2>3. row \in Users /\ row # NULL /\ row.enterprise = t.enterprise
    BY <1>0, <2>2, NullIsNothing DEF Users
  <2> HIDE DEF row
  <2>4. user' \in [UserIds -> Users \cup {NULL}] /\ Keeps(UserIds, user, user')
        /\ user'[t.id] = row
    BY <1>0, <2>1, <2>2, <2>3 DEF Keeps
  <2>5. \A m \in new : SoundRow(m, role, user')
    BY <1>0, <2>2, <2>3, <2>4, NewRowsSound
  <2> HIDE DEF new
  <2>6. \A m \in member' : SoundRow(m, role, user')
    <3>1. \A m \in member : SoundRow(m, role, user')
      BY <1>0, <1>2, <2>4, SoundRowStays
    <3>2. QED
      BY <2>1, <2>5, <3>1
  <2>7. QED
    BY <1>0, <1>1, <2>1, <2>4, <2>6, UserMoveKeepsApart
<1>5. CASE CommitRoles(s)
  <2> DEFINE new == NewRows(t, t.ids)
             R == {m.role : m \in t.rows \cap member} \ t.ids
  <2>1. /\ t.at = "commit" /\ user' = [user EXCEPT ![t.id].isActive = t.active]
        /\ member' = (member \ t.rows) \cup new /\ UserBecomes(s, IdleUser)
        /\ Revoke(s, R) /\ UNCHANGED <<requests, roleVars>>
    BY <1>5 DEF CommitRoles
  <2>2. /\ t.id \in UserIds /\ user[t.id] # NULL /\ user[t.id].enterprise = t.enterprise
        /\ \A r \in t.ids : role[r] # NULL /\ role[r].enterprise = t.enterprise
    BY <1>0, <2>1 DEF SoundUser
  <2>3. user' \in [UserIds -> Users \cup {NULL}] /\ Keeps(UserIds, user, user')
    BY <1>0, <2>1, <2>2, ActiveKeepsUsers
  <2>4. \A m \in new : SoundRow(m, role, user)
    BY <1>0, <2>2, NewRowsSound
  <2> HIDE DEF new
  <2>5. \A m \in member' : SoundRow(m, role, user')
    BY <1>0, <1>2, <2>1, <2>3, <2>4, SoundRowStays
  <2>6. revoked' \in [UserIds -> SUBSET RoleIds]
    BY <1>3, <2>1, RevokeType
  <2>7. QED
    BY <1>0, <1>1, <2>1, <2>3, <2>5, <2>6, UserMoveKeepsApart
<1>6. CASE InsertAssigned(s)
  <2> DEFINE new == NewRows(t, t.ids \ {m.role : m \in t.rows})
  <2>1. /\ t.at = "assign" /\ member' = member \cup new /\ UserBecomes(s, IdleUser)
        /\ UNCHANGED <<requests, roleVars, user, revoked>>
    BY <1>6 DEF InsertAssigned
  <2>2. /\ t.id \in UserIds /\ user[t.id] # NULL /\ user[t.id].enterprise = t.enterprise
        /\ \A r \in t.ids : role[r] # NULL /\ role[r].enterprise = t.enterprise
    BY <1>0, <2>1 DEF SoundUser
  <2>3. \A m \in new : SoundRow(m, role, user)
    BY <1>0, <2>2, NewRowsSound
  <2> HIDE DEF new
  <2>4. QED
    BY <1>0, <1>1, <1>2, <2>1, <2>3, UserMoveKeepsApart
<1>7. CASE DeleteMember(s)
  <2> DEFINE R == {m.role : m \in t.rows \cap member}
  <2>1. /\ member' = member \ t.rows /\ UserBecomes(s, IdleUser) /\ Revoke(s, R)
        /\ UNCHANGED <<requests, roleVars, user>>
    BY <1>7 DEF DeleteMember
  <2>2. R \in SUBSET RoleIds
    BY <1>3
  <2>3. revoked' \in [UserIds -> SUBSET RoleIds]
    BY <2>1, <2>2, RevokeType
  <2>4. QED
    BY <1>0, <1>1, <1>2, <2>1, <2>3, UserMoveKeepsApart
<1>8. QED
  BY <1>4, <1>5, <1>6, <1>7

\* The save of remove and reactivate.
LEMMA SavingKeepsApart ==
    ASSUME Apart, NEW s \in UserSlots, UserSelect(s) \/ UserWrite(s)
    PROVE  Apart'
<1> DEFINE t == userTask[s]
<1>0. /\ SoundUser(t, role, user) /\ t \in UserTasks
      /\ t.active \in BOOLEAN /\ t.rows \in SUBSET UserRoles
      /\ requests \in 0..MaxRequests /\ revoked \in [UserIds -> SUBSET RoleIds]
      /\ \A m \in member : SoundRow(m, role, user)
  BY DEF Apart, SoundUser, TypeOK, RoleTypeOK, UserTasks
<1>1. CASE UserSelect(s)
  <2> DEFINE again == Reinserted(t.rows, Memberships(t.id))
             cut == CutOff(t.rows, Memberships(t.id))
             n == [t EXCEPT !.at = "write", !.again = again, !.cut = cut]
  <2>1. /\ t.at = "select" /\ UserBecomes(s, n)
        /\ UNCHANGED <<requests, roleVars, user, member, revoked>>
    BY <1>1 DEF UserSelect
  <2>2. again \subseteq t.rows /\ again \in SUBSET UserRoles /\ cut \in SUBSET UserRoles
    BY <1>0, MembershipsSound DEF Reinserted, CutOff
  <2> HIDE DEF again, cut
  <2>3. /\ n \in UserTasks /\ n.op = t.op /\ n.at = "write" /\ n.id = t.id
        /\ n.enterprise = t.enterprise /\ n.ids = t.ids /\ n.rows = t.rows /\ n.again = again
    BY <1>0, <2>2 DEF UserTasks
  <2> HIDE DEF n
  <2>4. SoundUser(n, role, user)
    BY <1>0, <2>1, <2>2, <2>3 DEF SoundUser
  <2>5. QED
    BY <1>0, <2>1, <2>4, QuietUserKeepsApart
<1>2. CASE UserWrite(s)
  <2>1. /\ t.at = "write" /\ user' = [user EXCEPT ![t.id].isActive = t.active]
        /\ member' = member \cup t.again /\ UserBecomes(s, IdleUser)
        /\ UNCHANGED <<requests, roleVars, revoked>>
    BY <1>2 DEF UserWrite
  <2>2. t.id \in UserIds /\ user[t.id] # NULL
    BY <1>0, <2>1 DEF SoundUser
  <2>3. user' \in [UserIds -> Users \cup {NULL}] /\ Keeps(UserIds, user, user')
    BY <1>0, <2>1, <2>2, ActiveKeepsUsers
  <2>4. Keeps(RoleIds, role, role)
    BY RolesStay
  <2>5. \A m \in member \cup t.again : SoundRow(m, role, user)
    BY <1>0 DEF SoundUser
  <2>6. \A m \in member' : SoundRow(m, role, user')
    BY <2>1, <2>3, <2>4, <2>5, SoundRowStays
  <2>7. QED
    BY <1>0, <2>1, <2>3, <2>6, IdleUserType, UserMoveKeepsApart
<1>3. QED
  BY <1>1, <1>2

LEMMA UserStepKeepsApart ==
    ASSUME Apart, NEW s \in UserSlots, UserStep(s)
    PROVE  Apart'
<1>1. CASE UsersController(s)
  <2> PICK u \in UserIds, e \in Enterprises :
        \/ \E ids \in SUBSET RoleIds, active \in BOOLEAN :
              CreateUser(s, u, e, ids, active) \/ UpdateUser(s, u, e, ids, active)
        \/ \E ids \in (SUBSET RoleIds) \ {{}} : AssignRolesToUser(s, u, e, ids)
        \/ \E r \in RoleIds : RemoveRoleFromUser(s, u, e, r)
        \/ RemoveUser(s, u, e)
        \/ Reactivate(s, u, e)
    BY <1>1 DEF UsersController
  <2>1. CASE \E ids \in SUBSET RoleIds, active \in BOOLEAN :
                CreateUser(s, u, e, ids, active) \/ UpdateUser(s, u, e, ids, active)
    BY <2>1, GivingKeepsApart
  <2>2. CASE \E ids \in (SUBSET RoleIds) \ {{}} : AssignRolesToUser(s, u, e, ids)
    <3>1. TRUE \in BOOLEAN
      OBVIOUS
    <3>2. QED
      BY <2>2, <3>1, GivingKeepsApart
  <2>3. QED
    BY <2>1, <2>2, TakingKeepsApart
<1>2. CASE ~ UsersController(s)
  BY <1>2, CheckingKeepsApart, WritingKeepsApart, SavingKeepsApart DEF UserStep
<1>3. QED
  BY <1>1, <1>2

LEMMA InitIsApart == Init => Apart
<1> SUFFICES ASSUME Init PROVE Apart
  OBVIOUS
<1>1. /\ requests = 0 /\ role = FirstRoles /\ grant = FirstGrants
      /\ user = FirstUsers /\ member = FirstMembers
      /\ roleTask = [s \in RoleSlots |-> IdleRole]
      /\ userTask = [s \in UserSlots |-> IdleUser]
      /\ revoked = [u \in UserIds |-> {}]
  BY DEF Init, RoleInit, UserInit
<1>2. 0 \in 0..MaxRequests
  BY NullIsNothing
<1>3. RoleTypeOK
  BY <1>1, <1>2, IdleRoleType, RoleAssumption, FirstGrantsAssumption
     DEF RoleTypeOK, RoleAssumption, FirstGrantsAssumption
<1>4. TypeOK
  BY <1>1, <1>3, IdleUserType, FirstUsersAssumption DEF TypeOK, FirstUsersAssumption
<1>5. \A m \in member : SoundRow(m, role, user)
  BY <1>1, FirstUsersAssumption DEF FirstUsersAssumption, SoundRow
<1>6. \A g \in grant : role[g.role] # NULL
  BY <1>1, FirstGrantsAssumption DEF FirstGrantsAssumption
<1>7. QED
  BY <1>1, <1>4, <1>5, <1>6, IdleRoleType, IdleUserType DEF Apart

LEMMA NextKeepsApart == Apart /\ [Next]_vars => Apart'
<1> SUFFICES ASSUME Apart, [Next]_vars PROVE Apart'
  OBVIOUS
<1>1. ASSUME NEW s \in RoleSlots, RoleStep(s), UNCHANGED userVars PROVE Apart'
  BY <1>1, RoleStepKeepsApart
<1>2. ASSUME NEW s \in UserSlots, UserStep(s) PROVE Apart'
  BY <1>2, UserStepKeepsApart
<1>3. CASE Crash
  <2>1. /\ roleTask' = [s \in RoleSlots |-> IdleRole]
        /\ userTask' = [s \in UserSlots |-> IdleUser]
        /\ UNCHANGED <<requests, role, grant, user, member, revoked>>
    BY <1>3 DEF Crash
  <2>2. TypeOK'
    BY <2>1, IdleRoleType, IdleUserType DEF Apart, TypeOK, RoleTypeOK
  <2>3. QED
    BY <2>1, <2>2, IdleRoleType, IdleUserType DEF Apart
<1>4. CASE UNCHANGED vars
  BY <1>4 DEF Apart, vars, roleVars, userVars, TypeOK, RoleTypeOK
<1>5. QED
  BY <1>1, <1>2, <1>3, <1>4 DEF Next

LEMMA AlwaysApart == Spec => []Apart
  BY InitIsApart, NextKeepsApart, PTL DEF Spec

\* Every variable of the two services keeps its type, whatever the requests.
THEOREM AccessTypeCorrect == Spec => []TypeOK
<1>1. Apart => TypeOK
  BY DEF Apart
<1>2. QED
  BY <1>1, AlwaysApart, PTL

\* No user holds a role of another enterprise (validateRolesBelongToEnterprise,
\* users.service.ts), for any enterprises, users and roles, any number of
\* requests of the two services in flight and any crash between their steps.
THEOREM TenantsKeptApart == Spec => []TenantsApart
<1>1. Apart => TenantsApart
  BY DEF Apart, TenantsApart, SoundRow
<1>2. QED
  BY <1>1, AlwaysApart, PTL

-----------------------------------------------------------------------------
(* One administrator at a time: the permissions of a role *)

\* Role requests do not overlap.
OneEditor == \A q, s \in RoleSlots : q = s

\* What a role request knows of the permissions is what the table holds.
CurrentTask(t, G) ==
    LET ofRole == {g \in G : g.role = t.id} IN
    /\ t.at \in {"select", "write"} => t.loaded = ofRole
    /\ t.at = "write" => t.again = {} /\ t.cut = {}
    /\ t.at = "grants" => ofRole = {}

Current == \A s \in RoleSlots : CurrentTask(roleTask[s], grant)

\* What a step may do to the permissions (ReplacedAsAWhole).
WholeStep ==
    \A r \in RoleIds :
        \/ PermsOf(r)' = PermsOf(r)
        \/ PermsOf(r)' = {}
        \/ /\ PermsOf(r) = {}
           /\ \E s \in RoleSlots : roleTask[s].id = r /\ PermsOf(r)' = roleTask[s].ask

LEMMA GrantsUntouched ==
    ASSUME UNCHANGED grant
    PROVE  WholeStep /\ \A r : Granting(r)' = Granting(r)
  BY DEF WholeStep, PermsOf, Granting

LEMMA CurrentMove ==
    ASSUME OneEditor, Apart, NEW s \in RoleSlots, NEW n, RoleBecomes(s, n),
           CurrentTask(n, grant')
    PROVE  Current'
<1>1. \A q \in RoleSlots : q = s /\ roleTask'[q] = n
  BY DEF OneEditor, Apart, TypeOK, RoleTypeOK, RoleBecomes
<1>2. QED
  BY <1>1 DEF Current

LEMMA IdleIsCurrent == \A G : CurrentTask(IdleRole, G)
  BY IdleRoleType DEF CurrentTask, IdleRole

LEMMA RolesControllerIsWhole ==
    ASSUME OneEditor, Apart, NEW s \in RoleSlots, RolesController(s)
    PROVE  Current' /\ WholeStep
<1>1. ASSUME NEW e, NEW n, NEW P, NEW receives, CreateRole(s, e, n, P, receives)
      PROVE  Current' /\ WholeStep
  <2> DEFINE t == [IdleRole EXCEPT !.op = "create", !.at = "insert",
                      !.entity = [enterprise |-> e, name |-> n,
                                  canReceiveIncidents |-> receives, isActive |-> TRUE],
                      !.ask = ToGrant(P, receives)]
  <2>1. StartRole(s, t)
    BY <1>1 DEF CreateRole
  <2>2. t.at = "insert"
    BY DEF IdleRole
  <2> DEFINE n2 == [t EXCEPT !.by = requests + 1]
  <2>3. RoleBecomes(s, n2) /\ UNCHANGED grant
    BY <2>1 DEF StartRole
  <2>4. n2.at = "insert"
    BY DEF IdleRole
  <2> HIDE DEF t, n2
  <2>5. CurrentTask(n2, grant')
    BY <2>4 DEF CurrentTask
  <2>6. QED
    BY <2>3, <2>5, CurrentMove, GrantsUntouched
<1>2. ASSUME NEW id \in RoleIds, NEW entity, NEW ask, NEW op,
             StartRole(s, [IdleRole EXCEPT !.op = op, !.at = "select", !.id = id,
                               !.entity = entity, !.loaded = Granting(id), !.ask = ask])
      PROVE  Current' /\ WholeStep
  <2> DEFINE t == [IdleRole EXCEPT !.op = op, !.at = "select", !.id = id,
                      !.entity = entity, !.loaded = Granting(id), !.ask = ask]
             n2 == [t EXCEPT !.by = requests + 1]
  <2>1. RoleBecomes(s, n2) /\ UNCHANGED grant
    BY <1>2 DEF StartRole
  <2>2. n2.at = "select" /\ n2.id = id /\ n2.loaded = Granting(id)
    BY DEF IdleRole
  <2> HIDE DEF t, n2
  <2>3. CurrentTask(n2, grant')
    BY <2>1, <2>2 DEF CurrentTask, Granting
  <2>4. QED
    BY <2>1, <2>3, CurrentMove, GrantsUntouched
<1>3. ASSUME NEW id \in RoleIds, NEW e, NEW n, NEW P, NEW receives,
             UpdateRole(s, id, e, n, P, receives)
      PROVE  Current' /\ WholeStep
  BY <1>2, <1>3 DEF UpdateRole
<1>4. ASSUME NEW id \in RoleIds, NEW e, RemoveRole(s, id, e)
      PROVE  Current' /\ WholeStep
  <2> DEFINE entity == [role[id] EXCEPT !.isActive = FALSE]
             t == [IdleRole EXCEPT !.op = "remove", !.at = "select", !.id = id,
                      !.entity = entity, !.loaded = Granting(id)]
             n2 == [t EXCEPT !.by = requests + 1]
  <2>1. RoleBecomes(s, n2) /\ UNCHANGED grant
    BY <1>4 DEF RemoveRole, StartRole
  <2>2. n2.at = "select" /\ n2.id = id /\ n2.loaded = Granting(id)
    BY DEF IdleRole
  <2> HIDE DEF t, n2
  <2>3. CurrentTask(n2, grant')
    BY <2>1, <2>2 DEF CurrentTask, Granting
  <2>4. QED
    BY <2>1, <2>3, CurrentMove, GrantsUntouched
<1>5. QED
  BY <1>1, <1>3, <1>4 DEF RolesController

LEMMA RoleStepIsWhole ==
    ASSUME OneEditor, Apart, Current, NEW s \in RoleSlots, RoleStep(s)
    PROVE  Current' /\ WholeStep
<1> DEFINE t == roleTask[s]
<1>0. SoundRole(t, role) /\ t \in RoleTasks /\ CurrentTask(t, grant)
  BY DEF Apart, SoundRole, Current
<1>1. CASE RolesController(s)
  BY <1>1, RolesControllerIsWhole
<1>2. ASSUME NEW id \in RoleIds, InsertRole(s, id) PROVE Current' /\ WholeStep
  <2> DEFINE on == [t EXCEPT !.at = "grants", !.id = id]
             n == IF t.ask = {} THEN IdleRole ELSE on
  <2>1. role[id] = NULL /\ RoleBecomes(s, n) /\ UNCHANGED grant
    BY <1>2 DEF InsertRole
  <2>2. Granting(id) = {}
    BY <2>1 DEF Apart, Granting
  <2>3. on.at = "grants" /\ on.id = id
    BY <1>0 DEF RoleTasks
  <2> HIDE DEF on
  <2>4. CurrentTask(on, grant')
    BY <2>1, <2>2, <2>3 DEF CurrentTask, Granting
  <2>5. CurrentTask(n, grant')
    BY <2>4, IdleIsCurrent
  <2> HIDE DEF n
  <2>6. QED
    BY <2>1, <2>5, CurrentMove, GrantsUntouched
<1>3. CASE RoleSelect(s)
  <2> DEFINE n == [t EXCEPT !.at = "write", !.cols = Changed(t.entity, role[t.id]),
                            !.again = Reinserted(t.loaded, Granting(t.id)),
                            !.cut = CutOff(t.loaded, Granting(t.id))]
  <2>1. t.at = "select" /\ RoleBecomes(s, n) /\ UNCHANGED grant
    BY <1>3 DEF RoleSelect
  <2>2. t.loaded = Granting(t.id)
    BY <1>0, <2>1 DEF CurrentTask, Granting
  <2>3. n.at = "write" /\ n.id = t.id /\ n.loaded = t.loaded /\ n.again = {} /\ n.cut = {}
    BY <1>0, <2>2 DEF RoleTasks, Reinserted, CutOff
  <2> HIDE DEF n
  <2>4. CurrentTask(n, grant')
    BY <2>1, <2>2, <2>3 DEF CurrentTask, Granting
  <2>5. QED
    BY <2>1, <2>4, CurrentMove, GrantsUntouched
<1>4. CASE RoleWrite(s)
  <2> DEFINE on == [t EXCEPT !.at = "delete"]
             n == IF t.ask = NULL THEN IdleRole ELSE on
  <2>1. t.at = "write" /\ RoleBecomes(s, n) /\ grant' = (grant \ t.cut) \cup t.again
    BY <1>4 DEF RoleWrite
  <2>2. UNCHANGED grant
    BY <1>0, <2>1 DEF CurrentTask
  <2>3. on.at = "delete"
    BY <1>0 DEF RoleTasks
  <2> HIDE DEF on
  <2>4. CurrentTask(n, grant')
    BY <2>3, IdleIsCurrent DEF CurrentTask
  <2> HIDE DEF n
  <2>5. QED
    BY <2>1, <2>2, <2>4, CurrentMove, GrantsUntouched
<1>5. CASE DeleteGrants(s)
  <2> DEFINE on == [t EXCEPT !.at = "grants"]
             n == IF t.ask = {} THEN IdleRole ELSE on
  <2>1. t.at = "delete" /\ RoleBecomes(s, n) /\ grant' = grant \ Granting(t.id)
    BY <1>5 DEF DeleteGrants
  <2>2. /\ {g \in grant' : g.role = t.id} = {}
        /\ \A r \in RoleIds : r # t.id => {g \in grant' : g.role = r} = {g \in grant : g.role = r}
    BY <2>1 DEF Granting
  <2>3. on.at = "grants" /\ on.id = t.id
    BY <1>0 DEF RoleTasks
  <2> HIDE DEF on
  <2>4. CurrentTask(n, grant')
    BY <2>2, <2>3, IdleIsCurrent DEF CurrentTask
  <2>5. WholeStep
    <3>1. \A r : r = t.id => PermsOf(r)' = {}
      BY <2>2 DEF PermsOf, Granting
    <3>2. \A r \in RoleIds : r # t.id => PermsOf(r)' = PermsOf(r)
      BY <2>2 DEF PermsOf, Granting
    <3>3. QED
      BY <3>1, <3>2 DEF WholeStep
  <2> HIDE DEF n
  <2>6. QED
    BY <2>1, <2>4, <2>5, CurrentMove
<1>6. CASE InsertGrants(s)
  <2> DEFINE new == [role : {t.id}, perm : t.ask, by : {t.by}]
  <2>1. t.at = "grants" /\ RoleBecomes(s, IdleRole) /\ grant' = grant \cup new
    BY <1>6 DEF InsertGrants
  <2>2. Granting(t.id) = {}
    BY <1>0, <2>1 DEF CurrentTask, Granting
  <2>3. \A g \in new : g.role = t.id /\ g.perm \in t.ask
    OBVIOUS
  <2>4. \A p \in t.ask : \E g \in new : g.perm = p
    <3> SUFFICES ASSUME NEW p \in t.ask PROVE \E g \in new : g.perm = p
      OBVIOUS
    <3>1. [role |-> t.id, perm |-> p, by |-> t.by] \in new
      OBVIOUS
    <3>2. QED
      BY <3>1
  <2> HIDE DEF new
  <2>5. \A r \in RoleIds : r # t.id => {g \in grant' : g.role = r} = {g \in grant : g.role = r}
    BY <2>1, <2>3
  <2>6. {g \in grant' : g.role = t.id} = new
    BY <2>1, <2>2, <2>3 DEF Granting
  <2>7. \A r \in RoleIds : r # t.id => PermsOf(r)' = PermsOf(r)
    BY <2>5 DEF PermsOf, Granting
  <2>8. PermsOf(t.id) = {}
    BY <2>2 DEF PermsOf
  <2>9. {g.perm : g \in new} = t.ask
    BY <2>3, <2>4
  <2>10. \A r : r = t.id => PermsOf(r)' = t.ask
    BY <2>6, <2>9 DEF PermsOf, Granting
  <2>11. WholeStep
    BY <2>7, <2>8, <2>10 DEF WholeStep
  <2>12. QED
    BY <2>1, <2>11, IdleIsCurrent, CurrentMove
<1>7. CASE RoleFails(s)
  BY <1>7, IdleIsCurrent, CurrentMove, GrantsUntouched DEF RoleFails
<1>8. QED
  BY <1>1, <1>2, <1>3, <1>4, <1>5, <1>6, <1>7 DEF RoleStep

LEMMA OthersLeaveGrants ==
    ASSUME UNCHANGED <<grant, roleTask>>, Current
    PROVE  Current' /\ WholeStep
<1>1. Current'
  BY DEF Current, CurrentTask, Granting
<1>2. QED
  BY <1>1, GrantsUntouched

LEMMA NextIsWhole ==
    ASSUME OneEditor, Apart, Current, [Next]_vars
    PROVE  Current' /\ WholeStep
<1>1. ASSUME NEW s \in RoleSlots, RoleStep(s) PROVE Current' /\ WholeStep
  BY <1>1, RoleStepIsWhole
<1>2. ASSUME NEW s \in UserSlots, UserStep(s) PROVE Current' /\ WholeStep
  <2>1. CASE UsersController(s)
    <3>1. \A t : StartUser(s, t) => UNCHANGED <<grant, roleTask>>
      BY DEF StartUser, roleVars
    <3>2. ASSUME NEW u, NEW e, NEW ids, NEW active,
                 \/ CreateUser(s, u, e, ids, active)
                 \/ UpdateUser(s, u, e, ids, active)
                 \/ AssignRolesToUser(s, u, e, ids)
          PROVE  UNCHANGED <<grant, roleTask>>
      BY <3>1, <3>2 DEF CreateUser, UpdateUser, AssignRolesToUser
    <3>3. ASSUME NEW u, NEW e, NEW r,
                 \/ RemoveRoleFromUser(s, u, e, r)
                 \/ RemoveUser(s, u, e)
                 \/ Reactivate(s, u, e)
          PROVE  UNCHANGED <<grant, roleTask>>
      BY <3>1, <3>3 DEF RemoveRoleFromUser, RemoveUser, Reactivate
    <3>4. QED
      BY <2>1, <3>2, <3>3, OthersLeaveGrants DEF UsersController
  <2>2. CASE ~ UsersController(s)
    <3>1. UNCHANGED <<grant, roleTask>>
      BY <1>2, <2>2 DEF UserStep, Validate, InsertUser, ClearRoles, CommitRoles, FindAssigned,
         InsertAssigned, FindMember, DeleteMember, UserSelect, UserWrite, UserFails, roleVars
    <3>2. QED
      BY <3>1, OthersLeaveGrants
  <2>3. QED
    BY <2>1, <2>2
<1>3. CASE Crash
  <2>1. roleTask' = [s \in RoleSlots |-> IdleRole] /\ UNCHANGED grant
    BY <1>3 DEF Crash
  <2>2. QED
    BY <2>1, IdleIsCurrent, GrantsUntouched DEF Current, CurrentTask
<1>4. CASE UNCHANGED vars
  BY <1>4, OthersLeaveGrants DEF vars, roleVars
<1>5. QED
  BY <1>1, <1>2, <1>3, <1>4 DEF Next

\* While role requests do not overlap, the permissions of a role are replaced
\* as a whole (create and update, roles.service.ts), whatever fails or crashes
\* between their statements and whatever the user service does meanwhile.
THEOREM RolesReplacedAsAWhole ==
    ASSUME OneEditor
    PROVE  Spec => ReplacedAsAWhole
<1>1. Init => Current
  BY IdleIsCurrent DEF Init, RoleInit, Current
<1>2. Apart /\ Current /\ [Next]_vars =>
          /\ Current'
          /\ [\A r \in RoleIds :
                 \/ PermsOf(r)' = PermsOf(r)
                 \/ PermsOf(r)' = {}
                 \/ /\ PermsOf(r) = {}
                    /\ \E s \in RoleSlots :
                          roleTask[s].id = r /\ PermsOf(r)' = roleTask[s].ask]_roleVars
  BY NextIsWhole DEF WholeStep
<1>3. QED
  BY <1>1, <1>2, InitIsApart, NextKeepsApart, PTL DEF Spec, ReplacedAsAWhole

-----------------------------------------------------------------------------
(* Revocations stick *)

Giving == {"create", "update", "assign"}

Restoring == {"remove", "reactivate"}

\* What removes or reactivates users overlaps nothing that takes roles away.
RestoresApart ==
    \A s, r \in UserSlots :
        s # r /\ UserWorkload[s] \cap Restoring # {} =>
            UserWorkload[r] \cap {"update", "removeRole"} = {}

\* What a request is about to give, and what it has loaded to save again, is
\* not revoked.
Kept(t, rev) ==
    /\ t.op \in Giving => t.ids \cap rev[t.id] = {}
    /\ \A m \in t.rows : m.user = t.id
    /\ t.op \in Restoring => \A m \in t.rows \cup t.again : m.role \notin rev[m.user]
    /\ t.at \in {"findMember", "deleteMember"} => t.op = "removeRole"

Held(rows, rev) == \A m \in rows : m.role \notin rev[m.user]

Sticks ==
    /\ Held(member, revoked)
    /\ Unique(member)
    /\ \A s \in UserSlots :
          /\ userTask[s].op = "none" \/ userTask[s].op \in UserWorkload[s]
          /\ Kept(userTask[s], revoked)

LEMMA IdleUserKept == \A rev : Kept(IdleUser, rev)
BY IdleUserType DEF Kept, Giving, Restoring

\* The other requests are kept when nothing more is revoked ...
LEMMA FewerRevoked ==
    ASSUME Apart, Sticks, NEW s \in UserSlots,
           \A u \in UserIds : revoked'[u] \subseteq revoked[u]
    PROVE  Kept(userTask[s], revoked')
<1>1. PICK t : t = userTask[s]
  OBVIOUS
<1>2. /\ Kept(t, revoked) /\ (t.op \in Giving => t.id \in UserIds)
      /\ \A m \in t.rows \cup t.again : m.user \in UserIds
  BY <1>1 DEF Sticks, Apart, SoundUser, SoundRow, UserRoles, Giving
<1>3. Kept(t, revoked')
  BY <1>2 DEF Kept
<1>4. QED
  BY <1>1, <1>3

\* ... and when a request revokes, for it spares what others are about to give.
LEMMA RevokeSpares ==
    ASSUME RestoresApart, Apart, Sticks, NEW s \in UserSlots, NEW R, Revoke(s, R),
           userTask[s].op \in {"update", "removeRole"}, NEW r \in UserSlots, r # s
    PROVE  Kept(userTask[r], revoked')
<1>1. PICK t : t = userTask[r]
  OBVIOUS
<1>2. Kept(t, revoked) /\ (t.op = "none" \/ t.op \in UserWorkload[r])
      /\ userTask[s].op \in UserWorkload[s] /\ revoked \in [UserIds -> SUBSET RoleIds]
  BY <1>1 DEF Sticks, Apart, TypeOK
<1>3. t.op \notin Restoring
  BY <1>2 DEF RestoresApart, Restoring
<1>4. PICK u, C : /\ revoked' = [revoked EXCEPT ![u] = @ \cup (R \ C)]
                  /\ u = userTask[s].id
                  /\ C = UNION {userTask[q].ids : q \in {q \in UserSlots \ {s} :
                             userTask[q].id = u /\ userTask[q].op \in Giving}}
  BY DEF Revoke, Giving
<1>5. t.op \in Giving => t.ids \cap revoked'[t.id] = {}
  <2> SUFFICES ASSUME t.op \in Giving PROVE t.ids \cap revoked'[t.id] = {}
    OBVIOUS
  <2>1. t.ids \cap revoked[t.id] = {} /\ t.id \in UserIds
    BY <1>1, <1>2 DEF Kept, Apart, SoundUser, Giving
  <2>2. CASE t.id = u
    <3>1. t.ids \subseteq C
      BY <1>1, <1>4, <2>2
    <3>2. revoked'[t.id] = revoked[t.id] \cup (R \ C)
      BY <1>2, <1>4, <2>1, <2>2
    <3>3. QED
      BY <2>1, <3>1, <3>2
  <2>3. CASE t.id # u
    BY <1>2, <1>4, <2>1, <2>3
  <2>4. QED
    BY <2>2, <2>3
<1>6. Kept(t, revoked')
  BY <1>2, <1>3, <1>5 DEF Kept
<1>7. QED
  BY <1>1, <1>6

LEMMA StickMoves ==
    ASSUME Apart, Sticks, NEW s \in UserSlots, NEW n, UserBecomes(s, n),
           n.op = "none" \/ n.op \in UserWorkload[s],
           Kept(n, revoked'), Held(member', revoked'), Unique(member'),
           \A r \in UserSlots \ {s} : Kept(userTask[r], revoked')
    PROVE  Sticks'
<1>1. userTask'[s] = n /\ \A r \in UserSlots \ {s} : userTask'[r] = userTask[r]
  BY DEF Apart, TypeOK, UserBecomes
<1>2. ASSUME NEW r \in UserSlots
      PROVE  /\ userTask'[r].op = "none" \/ userTask'[r].op \in UserWorkload[r]
             /\ Kept(userTask'[r], revoked')
  <2>1. CASE r = s
    BY <1>1, <2>1
  <2>2. CASE r # s
    BY <1>1, <2>2 DEF Sticks
  <2>3. QED
    BY <2>1, <2>2
<1>3. QED
  BY <1>2 DEF Sticks, Held

\* A step that revokes nothing and takes from no table.
LEMMA QuietSticks ==
    ASSUME Apart, Sticks, NEW s \in UserSlots, NEW n, UserBecomes(s, n), UNCHANGED revoked,
           n.op = "none" \/ n.op = userTask[s].op, Kept(n, revoked),
           Held(member', revoked), Unique(member')
    PROVE  Sticks'
<1>1. \A r \in UserSlots : Kept(userTask[r], revoked')
  BY FewerRevoked
<1>2. n.op = "none" \/ n.op \in UserWorkload[s]
  BY DEF Sticks
<1>3. QED
  BY <1>1, <1>2, StickMoves

LEMMA StartSticks ==
    ASSUME Apart, Sticks, NEW s \in UserSlots, NEW t, StartUser(s, t),
           t.op \in Giving => t.id \in UserIds, t.again = {},
           \A m \in t.rows : m \in Memberships(t.id), t.op \in UserOps,
           t.at \in {"findMember", "deleteMember"} => t.op = "removeRole",
           DOMAIN t = DOMAIN IdleUser
    PROVE  Sticks'
<1>1. PICK n : n = [t EXCEPT !.by = requests + 1]
  OBVIOUS
<1>2. /\ n.op = t.op /\ n.ids = t.ids /\ n.id = t.id /\ n.rows = t.rows /\ n.again = {}
      /\ n.at = t.at
  BY <1>1 DEF IdleUser
<1>3. /\ UserBecomes(s, n) /\ member' = member /\ t.op \in UserWorkload[s]
      /\ revoked' = IF t.op \in Giving THEN [revoked EXCEPT ![t.id] = @ \ t.ids] ELSE revoked
  BY <1>1 DEF StartUser, Giving
<1>4. revoked \in [UserIds -> SUBSET RoleIds] /\ \A m \in member : m.user \in UserIds
  BY DEF Apart, TypeOK, UserRoles
<1>5. /\ \A u \in UserIds : revoked'[u] \subseteq revoked[u]
      /\ t.op \in Giving => t.ids \cap revoked'[t.id] = {}
  <2>1. CASE t.op \in Giving
    <3>1. \A u \in UserIds :
             revoked'[u] = IF u = t.id THEN revoked[u] \ t.ids ELSE revoked[u]
      BY <1>3, <1>4, <2>1
    <3>2. QED
      BY <2>1, <3>1
  <2>2. CASE t.op \notin Giving
    BY <1>3, <2>2
  <2>3. QED
    BY <2>1, <2>2
<1>6. Held(member', revoked') /\ Unique(member')
  BY <1>3, <1>4, <1>5 DEF Sticks, Held
<1>7. Kept(n, revoked')
  BY <1>2, <1>3, <1>5, <1>6 DEF Kept, Memberships, Held
<1>8. \A r \in UserSlots : Kept(userTask[r], revoked')
  BY <1>5, FewerRevoked
<1>9. QED
  BY <1>2, <1>3, <1>6, <1>7, <1>8, StickMoves

LEMMA RequestsStick ==
    ASSUME Apart, Sticks, NEW s \in UserSlots, UsersController(s)
    PROVE  Sticks'
<1>1. PICK u \in UserIds, e \in Enterprises :
         \/ \E ids \in SUBSET RoleIds, active \in BOOLEAN :
               CreateUser(s, u, e, ids, active) \/ UpdateUser(s, u, e, ids, active)
         \/ \E ids \in (SUBSET RoleIds) \ {{}} : AssignRolesToUser(s, u, e, ids)
         \/ \E r \in RoleIds : RemoveRoleFromUser(s, u, e, r)
         \/ RemoveUser(s, u, e)
         \/ Reactivate(s, u, e)
  BY DEF UsersController
<1>2. ASSUME NEW ids, NEW active, NEW op \in Giving, NEW point \in {"insert", "clear", "validate"},
             StartUser(s, [IdleUser EXCEPT !.op = op, !.at = point, !.id = u,
                               !.enterprise = e, !.ids = ids, !.active = active])
      PROVE  Sticks'
  <2>1. PICK t : t = [IdleUser EXCEPT !.op = op, !.at = point, !.id = u,
                          !.enterprise = e, !.ids = ids, !.active = active]
    OBVIOUS
  <2>2. /\ t.op = op /\ t.at = point /\ t.id = u /\ t.rows = {} /\ t.again = {}
        /\ DOMAIN t = DOMAIN IdleUser
    BY <2>1 DEF IdleUser
  <2>3. StartUser(s, t)
    BY <1>2, <2>1
  <2>4. QED
    BY <2>2, <2>3, StartSticks DEF Giving, UserOps
<1>3. ASSUME NEW ids \in SUBSET RoleIds, NEW active \in BOOLEAN,
             CreateUser(s, u, e, ids, active)
      PROVE  Sticks'
  <2>1. PICK point \in {"insert", "clear", "validate"} :
           point = IF ids = {} THEN "insert" ELSE "validate"
    OBVIOUS
  <2>2. QED
    BY <1>2, <1>3, <2>1 DEF CreateUser, Giving
<1>4. ASSUME NEW ids \in SUBSET RoleIds, NEW active \in BOOLEAN,
             UpdateUser(s, u, e, ids, active)
      PROVE  Sticks'
  <2>1. PICK point \in {"insert", "clear", "validate"} :
           point = IF ids = {} THEN "clear" ELSE "validate"
    OBVIOUS
  <2>2. QED
    BY <1>2, <1>4, <2>1 DEF UpdateUser, Giving
<1>5. ASSUME NEW ids, AssignRolesToUser(s, u, e, ids)
      PROVE  Sticks'
  <2>1. PICK t : t = [IdleUser EXCEPT !.op = "assign", !.at = "validate", !.id = u,
                          !.enterprise = e, !.ids = ids]
    OBVIOUS
  <2>2. /\ t.op = "assign" /\ t.at = "validate" /\ t.id = u /\ t.rows = {} /\ t.again = {}
        /\ DOMAIN t = DOMAIN IdleUser
    BY <2>1 DEF IdleUser
  <2>3. StartUser(s, t)
    BY <1>5, <2>1 DEF AssignRolesToUser
  <2>4. QED
    BY <2>2, <2>3, StartSticks DEF Giving, UserOps
<1>6. ASSUME NEW r, RemoveRoleFromUser(s, u, e, r)
      PROVE  Sticks'
  <2>1. PICK t : t = [IdleUser EXCEPT !.op = "removeRole", !.at = "findMember", !.id = u,
                          !.enterprise = e, !.ids = {r}]
    OBVIOUS
  <2>2. /\ t.op = "removeRole" /\ t.id = u /\ t.rows = {} /\ t.again = {}
        /\ DOMAIN t = DOMAIN IdleUser
    BY <2>1 DEF IdleUser
  <2>3. StartUser(s, t)
    BY <1>6, <2>1 DEF RemoveRoleFromUser
  <2>4. QED
    BY <2>2, <2>3, StartSticks DEF Giving, UserOps
<1>7. ASSUME NEW op \in Restoring, NEW active,
             StartUser(s, [IdleUser EXCEPT !.op = op, !.at = "select", !.id = u,
                               !.active = active, !.rows = Memberships(u)])
      PROVE  Sticks'
  <2>1. PICK t : t = [IdleUser EXCEPT !.op = op, !.at = "select", !.id = u,
                          !.active = active, !.rows = Memberships(u)]
    OBVIOUS
  <2>2. /\ t.op = op /\ t.at = "select" /\ t.id = u /\ t.rows = Memberships(u)
        /\ t.again = {} /\ DOMAIN t = DOMAIN IdleUser
    BY <2>1 DEF IdleUser
  <2>3. StartUser(s, t)
    BY <1>7, <2>1
  <2>4. QED
    BY <2>2, <2>3, StartSticks DEF Giving, Restoring, UserOps
<1>8. RemoveUser(s, u, e) \/ Reactivate(s, u, e) => Sticks'
  BY <1>7 DEF RemoveUser, Reactivate, Restoring
<1>9. QED
  BY <1>1, <1>3, <1>4, <1>5, <1>6, <1>8

\* The steps that write nothing.
LEMMA ReadingSticks ==
    ASSUME Apart, Sticks, NEW s \in UserSlots,
           \/ Validate(s) \/ ClearRoles(s) \/ FindAssigned(s) \/ FindMember(s)
           \/ UserSelect(s) \/ UserFails(s)
    PROVE  Sticks'
<1>1. PICK t : t = userTask[s]
  OBVIOUS
<1>2. t \in UserTasks /\ SoundUser(t, role, user) /\ Kept(t, revoked)
      /\ Held(member, revoked) /\ Unique(member)
  BY <1>1 DEF Apart, TypeOK, Sticks
<1>3. /\ UNCHANGED <<member, revoked>>
      /\ \/ UserBecomes(s, IdleUser)
         \/ /\ t.at # "idle"
            /\ \E point \in {"insert", "clear", "find"} : UserBecomes(s, [t EXCEPT !.at = point])
         \/ \E point \in {"commit", "assign"} :
               /\ t.at \in {"clear", "find"}
               /\ UserBecomes(s, [t EXCEPT !.at = point, !.rows = Memberships(t.id)])
         \/ /\ t.at = "findMember"
            /\ UserBecomes(s, [t EXCEPT !.at = "deleteMember",
                                  !.rows = {m \in Memberships(t.id) : m.role \in t.ids}])
         \/ \E cut :
               /\ t.at = "select"
               /\ UserBecomes(s, [t EXCEPT !.at = "write",
                     !.again = Reinserted(t.rows, Memberships(t.id)), !.cut = cut])
  <2>1. CASE Validate(s)
    <3>1. PICK point : point = CASE t.op = "create" -> "insert"
                                 [] t.op = "update" -> "clear"
                                 [] t.op = "assign" -> "find"
      OBVIOUS
    <3>2. t.at = "validate" /\ point \in {"insert", "clear", "find"}
      BY <1>1, <1>2, <2>1, <3>1 DEF Validate, SoundUser
    <3>3. UserBecomes(s, [t EXCEPT !.at = point]) /\ UNCHANGED <<member, revoked>>
      BY <1>1, <2>1, <3>1 DEF Validate, Goes
    <3>4. QED
      BY <3>2, <3>3
  <2>2. CASE ClearRoles(s)
    BY <1>1, <2>2 DEF ClearRoles
  <2>3. CASE FindAssigned(s)
    BY <1>1, <2>3 DEF FindAssigned
  <2>4. CASE FindMember(s)
    BY <1>1, <2>4 DEF FindMember
  <2>5. CASE UserSelect(s)
    BY <1>1, <2>5 DEF UserSelect
  <2>6. CASE UserFails(s)
    BY <2>6 DEF UserFails
  <2>7. QED
    BY <2>1, <2>2, <2>3, <2>4, <2>5, <2>6
<1>4. ASSUME NEW n, UserBecomes(s, n), n.op = "none" \/ n.op = t.op, Kept(n, revoked)
      PROVE  Sticks'
  <2>1. Held(member', revoked) /\ Unique(member')
    BY <1>2, <1>3 DEF Held, Unique
  <2>2. QED
    BY <1>1, <1>3, <1>4, <2>1, QuietSticks
<1>5. CASE UserBecomes(s, IdleUser)
  BY <1>4, <1>5, IdleUserType, IdleUserKept
<1>6. ASSUME NEW point \in {"insert", "clear", "find"}, UserBecomes(s, [t EXCEPT !.at = point])
      PROVE  Sticks'
  <2>1. PICK n : n = [t EXCEPT !.at = point]
    OBVIOUS
  <2>2. /\ n.op = t.op /\ n.id = t.id /\ n.ids = t.ids /\ n.rows = t.rows
        /\ n.again = t.again /\ n.at = point
    BY <1>2, <2>1 DEF UserTasks
  <2>3. Kept(n, revoked)
    BY <1>2, <2>2 DEF Kept
  <2>4. QED
    BY <1>4, <1>6, <2>1, <2>2, <2>3
<1>7. ASSUME NEW point \in {"commit", "assign"}, t.at \in {"clear", "find"},
             UserBecomes(s, [t EXCEPT !.at = point, !.rows = Memberships(t.id)])
      PROVE  Sticks'
  <2>1. PICK n : n = [t EXCEPT !.at = point, !.rows = Memberships(t.id)]
    OBVIOUS
  <2>2. /\ n.op = t.op /\ n.id = t.id /\ n.ids = t.ids /\ n.rows = Memberships(t.id)
        /\ n.again = t.again /\ n.at = point
    BY <1>2, <2>1 DEF UserTasks
  <2>3. t.op \notin Restoring
    BY <1>2, <1>7 DEF SoundUser, Restoring
  <2>4. Kept(n, revoked)
    BY <1>2, <2>2, <2>3 DEF Kept, Memberships
  <2>5. QED
    BY <1>4, <1>7, <2>1, <2>2, <2>4
<1>8. ASSUME t.at = "findMember",
             UserBecomes(s, [t EXCEPT !.at = "deleteMember",
                                !.rows = {m \in Memberships(t.id) : m.role \in t.ids}])
      PROVE  Sticks'
  <2>1. PICK n : n = [t EXCEPT !.at = "deleteMember",
                          !.rows = {m \in Memberships(t.id) : m.role \in t.ids}]
    OBVIOUS
  <2>2. /\ n.op = t.op /\ n.id = t.id /\ n.ids = t.ids
        /\ n.rows = {m \in Memberships(t.id) : m.role \in t.ids}
        /\ n.again = t.again /\ n.at = "deleteMember"
    BY <1>2, <2>1 DEF UserTasks
  <2>3. t.op = "removeRole"
    BY <1>2, <1>8 DEF Kept
  <2>4. Kept(n, revoked)
    BY <2>2, <2>3 DEF Kept, Memberships, Restoring, Giving
  <2>5. QED
    BY <1>4, <1>8, <2>1, <2>2, <2>4
<1>9. ASSUME NEW cut, t.at = "select",
             UserBecomes(s, [t EXCEPT !.at = "write",
                 !.again = Reinserted(t.rows, Memberships(t.id)), !.cut = cut])
      PROVE  Sticks'
  <2>1. PICK n : n = [t EXCEPT !.at = "write",
                 !.again = Reinserted(t.rows, Memberships(t.id)), !.cut = cut]
    OBVIOUS
  <2>2. /\ n.op = t.op /\ n.id = t.id /\ n.ids = t.ids /\ n.rows = t.rows
        /\ n.again \subseteq t.rows /\ n.at = "write"
    BY <1>2, <2>1 DEF UserTasks, Reinserted
  <2>3. Kept(n, revoked)
    BY <1>2, <2>2 DEF Kept
  <2>4. QED
    BY <1>4, <1>9, <2>1, <2>2, <2>3
<1>10. QED
  BY <1>3, <1>5, <1>6, <1>7, <1>8, <1>9

\* The rows a request inserts are those it gives.
LEMMA NewRowsHeld ==
    ASSUME NEW t, NEW R, NEW rev, R \cap rev[t.id] = {}
    PROVE  Held(NewRows(t, R), rev)
BY DEF Held, NewRows

\* Roles are taken from the rows that are still there, and so are these rows.
LEMMA TakenRowsHeld ==
    ASSUME Apart, Sticks, NEW s \in UserSlots, NEW R, Revoke(s, R),
           R \subseteq {m.role : m \in userTask[s].rows \cap member}
    PROVE  Held(member \ userTask[s].rows, revoked')
<1>1. PICK t : t = userTask[s]
  OBVIOUS
<1>2. Kept(t, revoked) /\ Held(member, revoked) /\ Unique(member)
      /\ revoked \in [UserIds -> SUBSET RoleIds] /\ \A m \in member : m.user \in UserIds
  BY <1>1 DEF Sticks, Apart, TypeOK, UserRoles
<1>3. \A u \in UserIds : u # t.id => revoked'[u] = revoked[u]
  BY <1>1, <1>2 DEF Revoke
<1>4. revoked'[t.id] \subseteq revoked[t.id] \cup R \/ t.id \notin UserIds
  BY <1>1, <1>2 DEF Revoke
<1>5. ASSUME NEW m \in member \ t.rows PROVE m.role \notin revoked'[m.user]
  <2>1. m.role \notin revoked[m.user] /\ m.user \in UserIds
    BY <1>2 DEF Held
  <2>2. CASE m.user # t.id
    BY <1>3, <2>1, <2>2
  <2>3. CASE m.user = t.id
    <3>1. m.role \notin R
      <4> SUFFICES ASSUME m.role \in R PROVE FALSE
        OBVIOUS
      <4>1. PICK x \in t.rows \cap member : x.role = m.role
        BY <1>1
      <4>2. x.user = t.id
        BY <1>2, <4>1 DEF Kept
      <4>3. x = m
        BY <1>2, <2>3, <4>1, <4>2 DEF Unique
      <4>4. QED
        BY <1>5, <4>1, <4>3
    <3>2. QED
      BY <1>4, <2>1, <2>3, <3>1
  <2>4. QED
    BY <2>2, <2>3
<1>6. QED
  BY <1>1, <1>5 DEF Held

\* The steps that write.
LEMMA WritingSticks ==
    ASSUME RestoresApart, Apart, Sticks, NEW s \in UserSlots,
           \/ InsertUser(s) \/ CommitRoles(s) \/ InsertAssigned(s) \/ DeleteMember(s)
           \/ UserWrite(s)
    PROVE  Sticks'
<1>1. PICK t : t = userTask[s]
  OBVIOUS
<1>2. t \in UserTasks /\ SoundUser(t, role, user) /\ Kept(t, revoked)
      /\ Held(member, revoked) /\ Unique(member)
  BY <1>1 DEF Apart, TypeOK, Sticks
<1>3. Kept(IdleUser, revoked) /\ Kept(IdleUser, revoked') /\ IdleUser.op = "none"
  BY IdleUserKept, IdleUserType
<1>4. CASE InsertUser(s)
  <2>1. /\ t.at = "insert" /\ user[t.id] = NULL /\ UserBecomes(s, IdleUser)
        /\ member' = member \cup NewRows(t, t.ids) /\ revoked' = revoked
    BY <1>1, <1>4 DEF InsertUser
  <2>2. t.ids \cap revoked[t.id] = {}
    BY <1>2, <2>1 DEF SoundUser, Kept, Giving
  <2>3. Held(member', revoked)
    BY <1>2, <2>1, <2>2, NewRowsHeld DEF Held
  <2>4. Unique(member')
    <3>1. \A m \in member : m.user # t.id
      BY <2>1 DEF Apart, SoundRow
    <3>2. \A m \in NewRows(t, t.ids) : m = [user |-> t.id, role |-> m.role, by |-> t.by]
      BY DEF NewRows
    <3>3. \A m, n \in NewRows(t, t.ids) : m.role = n.role => m = n
      BY <3>2
    <3>4. \A m \in NewRows(t, t.ids) : m.user = t.id
      BY DEF NewRows
    <3>5. QED
      BY <1>2, <2>1, <3>1, <3>3, <3>4 DEF Unique
  <2>5. QED
    BY <1>1, <1>3, <2>1, <2>3, <2>4, QuietSticks
<1>5. CASE CommitRoles(s)
  <2>1. PICK R : R = {m.role : m \in t.rows \cap member} \ t.ids
    OBVIOUS
  <2>2. /\ t.at = "commit" /\ UserBecomes(s, IdleUser) /\ Revoke(s, R)
        /\ member' = (member \ t.rows) \cup NewRows(t, t.ids)
        /\ Unique((member \ t.rows) \cup NewRows(t, t.ids))
    BY <1>1, <1>5, <2>1 DEF CommitRoles
  <2>3. t.op = "update" /\ t.id \in UserIds /\ t.ids \cap revoked[t.id] = {}
    BY <1>2, <2>2 DEF SoundUser, Kept, Giving
  <2>4. t.ids \cap revoked'[t.id] = {}
    <3>1. revoked \in [UserIds -> SUBSET RoleIds]
      BY DEF Apart, TypeOK
    <3>2. revoked'[t.id] \subseteq revoked[t.id] \cup R
      BY <1>1, <2>2, <2>3, <3>1 DEF Revoke
    <3>3. QED
      BY <2>1, <2>3, <3>2
  <2>5. R \subseteq {m.role : m \in userTask[s].rows \cap member}
    BY <1>1, <2>1
  <2>6. Held(member \ t.rows, revoked')
    BY <1>1, <2>2, <2>5, TakenRowsHeld
  <2>7. Held(member', revoked')
    BY <2>2, <2>4, <2>6, NewRowsHeld DEF Held
  <2>8. \A r \in UserSlots \ {s} : Kept(userTask[r], revoked')
    BY <1>1, <2>2, <2>3, RevokeSpares
  <2>9. QED
    BY <1>3, <2>2, <2>7, <2>8, StickMoves
<1>6. CASE InsertAssigned(s)
  <2>1. PICK R : R = t.ids \ {m.role : m \in t.rows}
    OBVIOUS
  <2>2. /\ t.at = "assign" /\ UserBecomes(s, IdleUser) /\ revoked' = revoked
        /\ member' = member \cup NewRows(t, R) /\ Unique(member \cup NewRows(t, R))
    BY <1>1, <1>6, <2>1 DEF InsertAssigned
  <2>3. R \cap revoked[t.id] = {}
    BY <1>2, <2>1, <2>2 DEF SoundUser, Kept, Giving
  <2>4. Held(member', revoked)
    BY <1>2, <2>2, <2>3, NewRowsHeld DEF Held
  <2>5. QED
    BY <1>1, <1>3, <2>2, <2>4, QuietSticks
<1>7. CASE DeleteMember(s)
  <2>1. PICK R : R = {m.role : m \in t.rows \cap member}
    OBVIOUS
  <2>2. /\ t.at = "deleteMember" /\ UserBecomes(s, IdleUser) /\ Revoke(s, R)
        /\ member' = member \ t.rows
    BY <1>1, <1>7, <2>1 DEF DeleteMember
  <2>3. t.op = "removeRole"
    BY <1>2, <2>2 DEF Kept
  <2>4. R \subseteq {m.role : m \in userTask[s].rows \cap member}
    BY <1>1, <2>1
  <2>5. Held(member', revoked') /\ Unique(member')
    BY <1>1, <1>2, <2>2, <2>4, TakenRowsHeld DEF Unique
  <2>6. \A r \in UserSlots \ {s} : Kept(userTask[r], revoked')
    BY <1>1, <2>2, <2>3, RevokeSpares
  <2>7. QED
    BY <1>3, <2>2, <2>5, <2>6, StickMoves
<1>8. CASE UserWrite(s)
  <2>1. /\ t.at = "write" /\ UserBecomes(s, IdleUser) /\ revoked' = revoked
        /\ member' = member \cup t.again /\ Unique(member \cup t.again)
    BY <1>1, <1>8 DEF UserWrite
  <2>2. t.op \in Restoring
    BY <1>2, <2>1 DEF SoundUser, Restoring
  <2>3. Held(member', revoked)
    BY <1>2, <2>1, <2>2 DEF Kept, Held
  <2>4. QED
    BY <1>1, <1>3, <2>1, <2>3, QuietSticks
<1>9. QED
  BY <1>4, <1>5, <1>6, <1>7, <1>8

LEMMA NextSticks ==
    ASSUME RestoresApart, Apart, Sticks, [Next]_vars
    PROVE  Sticks'
<1>1. ASSUME NEW s \in UserSlots, UserStep(s) PROVE Sticks'
  BY <1>1, RequestsStick, ReadingSticks, WritingSticks DEF UserStep
<1>2. CASE UNCHANGED userVars
  BY <1>2 DEF Sticks, userVars, Held, Unique
<1>3. CASE Crash
  <2>1. userTask' = [s \in UserSlots |-> IdleUser] /\ UNCHANGED <<member, revoked>>
    BY <1>3 DEF Crash
  <2>2. QED
    BY <2>1, IdleUserKept, IdleUserType DEF Sticks, Held, Unique
<1>4. QED
  BY <1>1, <1>2, <1>3 DEF Next, vars, userVars

\* A role taken from a user stays away until a request gives it again, while
\* what removes or reactivates users overlaps no request that takes roles
\* away (update and removeRoleFromUser, users.service.ts); whatever else
\* overlaps, fails or crashes.
THEOREM RevocationsStick ==
    ASSUME RestoresApart
    PROVE  Spec => []RevocationSticks
<1>1. Init => Sticks
  <2> SUFFICES ASSUME Init PROVE Sticks
    OBVIOUS
  <2>1. /\ member = FirstMembers /\ revoked = [u \in UserIds |-> {}]
        /\ \A s \in UserSlots : userTask[s] = IdleUser
    BY DEF Init, UserInit
  <2>2. Unique(member) /\ \A m \in member : m.user \in UserIds
    BY <2>1, FirstUsersAssumption DEF FirstUsersAssumption, UserRoles
  <2>3. QED
    BY <2>1, <2>2, IdleUserKept, IdleUserType DEF Sticks, Held
<1>2. Apart /\ Sticks /\ [Next]_vars => Sticks'
  BY NextSticks
<1>3. Apart /\ Sticks => RevocationSticks
  BY DEF Sticks, Held, RevocationSticks, RolesOf, Memberships
<1>4. QED
  BY <1>1, <1>2, <1>3, AlwaysApart, PTL DEF Spec

-----------------------------------------------------------------------------
(* The seed, which makes the first roles and users *)

LEMMA CleanOrder ==
    /\ Len(CleanDatabase) = 10
    /\ \A i \in 1..10 : CleanDatabase[i] =
          CASE i = 1 -> "enterprise_documents" [] i = 2 -> "enterprise_config"
            [] i = 3 -> "incidencias" [] i = 4 -> "notification_provider_preferences"
            [] i = 5 -> "user_roles" [] i = 6 -> "users" [] i = 7 -> "role_permission"
            [] i = 8 -> "roles" [] i = 9 -> "permissions" [] i = 10 -> "enterprises"
  BY DEF CleanDatabase

\* What owns rows, and what is owned by way of another row.
LEMMA OwnersOf ==
    \A r : \A o \in Owners(r) :
        /\ Table(o) \in {"roles", "permissions", "users", "enterprises", "incidencias"}
        /\ Table(o) = "incidencias" => Table(r) = "messages"
  BY DEF Owners, Table

LEMMA NobodyOwnsThem ==
    \A r : Table(r) \in {"roles", "permissions", "users", "enterprises"}
               => Owners(r) = {}
  BY DEF Owners, Table

LEMMA NeededOf ==
    \A r : \A o \in Needed(r) :
        \/ /\ Table(o) = "enterprises" /\ Table(r) \in {"roles", "users"}
           /\ r # SUPER_ADMIN
        \/ Table(o) = "users" /\ Table(r) \in {"incidencias", "messages"}
  BY DEF Needed, Table, SUPER_ADMIN

LEMMA MessagesBelong ==
    \A r : Table(r) = "messages" =>
        \E o \in Owners(r) : Table(o) = "incidencias"
  BY DEF Owners, Table

\* Nothing refers to a row that is not there; and while the tables are being
\* cleaned, what could refuse the next DELETE is gone.
Refers == \A r \in db : Owners(r) \cup Needed(r) \subseteq db

Phases == [phase : {"idle", "clean", "read", "save"}, i : Nat]

Staged == at \in Phases /\ (at.phase = "clean" => at.i \in 1..10)

Cleaning ==
    at.phase = "clean" =>
        /\ at.i > 3 => InTable("incidencias") = {}
        /\ at.i > 6 => InTable("users") \subseteq {SUPER_ADMIN}
        /\ at.i > 8 => InTable("roles") = {}

SeedInv == Staged /\ Cleaning /\ Refers

\* What goes with the rows of a table.
LEMMA DeletedRows ==
    ASSUME NEW t
    PROVE  LET D == Deleted(t) IN
           /\ InTable(t) \ {SUPER_ADMIN} \subseteq D /\ D \subseteq db
           /\ \A r \in D : \/ r \in InTable(t) \ {SUPER_ADMIN}
                           \/ \E o \in Owners(r) : o \in D
           /\ \A r \in db : (\E o \in Owners(r) : o \in D) => r \in D
<1>1. PICK X : X = InTable(t) \ {SUPER_ADMIN}
  OBVIOUS
<1>2. PICK W : W = X \cup {r \in db : Owners(r) \cap X # {}}
  OBVIOUS
<1>3. PICK D : D = W \cup {r \in db : Owners(r) \cap W # {}}
  OBVIOUS
<1>4. Deleted(t) = D
  BY <1>1, <1>2, <1>3 DEF Deleted, WithOwned
<1>5. X \subseteq db
  BY <1>1 DEF InTable
<1>6. ASSUME NEW r \in db, NEW o \in Owners(r), o \in D
      PROVE  r \in D
  <2>1. CASE o \in W
    BY <1>3, <1>6, <2>1
  <2>2. ASSUME o \notin W
        PROVE  r \in D
    <3>1. PICK e \in Owners(o) : e \in W
      BY <1>3, <1>6, <2>2
    <3>2. Table(o) = "incidencias" /\ Table(e) # "messages"
      BY <1>6, <3>1, OwnersOf, NobodyOwnsThem
    <3>3. Table(e) # "incidencias"
      BY <3>1, <3>2, OwnersOf
    <3>4. Owners(e) = {}
      BY <3>1, <3>3, OwnersOf, NobodyOwnsThem
    <3>5. e \in X
      BY <1>2, <3>1, <3>4
    <3>6. o \in W
      BY <1>2, <1>3, <1>5, <1>6, <2>2, <3>1, <3>5
    <3>7. QED
      BY <2>2, <3>6
  <2>3. QED
    BY <2>1, <2>2
<1>7. \A r \in D : r \in X \/ \E o \in Owners(r) : o \in D
  BY <1>2, <1>3
<1>8. X \subseteq D /\ D \subseteq db
  BY <1>2, <1>3, <1>5
<1>9. QED
  BY <1>1, <1>4, <1>6, <1>7, <1>8

\* A DELETE that is not refused leaves no reference open.
LEMMA CleanKeepsRefers ==
    ASSUME Refers, NEW t, ~ Refused(t), db' = db \ Deleted(t)
    PROVE  Refers'
<1>1. PICK D : D = Deleted(t)
  OBVIOUS
<1>2. \A r \in db \ D : Needed(r) \cap D = {}
  BY <1>1 DEF Refused
<1>3. \A r \in db \ D : Owners(r) \cap D = {}
  BY <1>1, DeletedRows
<1>4. SUFFICES ASSUME NEW r \in db \ D
               PROVE  Owners(r) \cup Needed(r) \subseteq db \ D
  BY <1>1 DEF Refers
<1>5. QED
  BY <1>2, <1>3 DEF Refers

LEMMA CleaningIsAllowed ==
    ASSUME SeedInv, at.phase = "clean"
    PROVE  ~ Refused(CleanDatabase[at.i])
<1>1. PICK t : t = CleanDatabase[at.i]
  OBVIOUS
<1>2. PICK D : D = Deleted(t)
  OBVIOUS
<1>3. SUFFICES ASSUME NEW r \in db, r \notin D, NEW o \in Needed(r), o \in D
               PROVE  FALSE
  BY <1>1, <1>2 DEF Refused
<1>4. Table(o) \in {"users", "enterprises"} /\ Owners(o) = {}
  BY NeededOf, NobodyOwnsThem
<1>5. o \in InTable(t) /\ o # SUPER_ADMIN
  BY <1>2, <1>3, <1>4, DeletedRows
<1>6. t \in {"users", "enterprises"} /\ Table(o) = t /\ o \in db
  BY <1>4, <1>5 DEF InTable
<1>7. at.i \in 1..10
  BY DEF SeedInv, Staged
<1>8. (t = "users" => at.i = 6) /\ (t = "enterprises" => at.i = 10)
  BY <1>1, <1>7, CleanOrder
<1>9. ASSUME t = "users"
      PROVE  FALSE
  <2>1. InTable("incidencias") = {}
    BY <1>8, <1>9 DEF SeedInv, Cleaning
  <2>2. Table(r) \in {"incidencias", "messages"}
    BY <1>6, <1>9, NeededOf
  <2>3. Table(r) = "messages"
    BY <2>1, <2>2 DEF InTable
  <2>4. PICK q \in Owners(r) : Table(q) = "incidencias"
    BY <2>3, MessagesBelong
  <2>5. q \in InTable("incidencias")
    BY <2>4 DEF SeedInv, Refers, InTable
  <2>6. QED
    BY <2>1, <2>5
<1>10. ASSUME t = "enterprises"
       PROVE  FALSE
  <2>1. InTable("roles") = {} /\ InTable("users") \subseteq {SUPER_ADMIN}
    BY <1>8, <1>10 DEF SeedInv, Cleaning
  <2>2. Table(r) \in {"roles", "users"} /\ r # SUPER_ADMIN
    BY <1>6, <1>10, NeededOf
  <2>3. QED
    BY <2>1, <2>2 DEF InTable
<1>11. QED
  BY <1>6, <1>9, <1>10

LEMMA CleanTableKeepsStaged ==
    ASSUME Staged, CleanTable
    PROVE  /\ Staged' /\ at.i \in 1..10
           /\ at'.phase = "clean" => at'.i = at.i + 1
<1>1. PICK i : i = at.i
  OBVIOUS
<1>2. /\ at.phase = "clean" /\ i \in 1..10
      /\ at' = IF i < 10 THEN [at EXCEPT !.i = @ + 1] ELSE [phase |-> "read", i |-> 1]
  BY <1>1, CleanOrder DEF CleanTable, Staged
<1>3. CASE i < 10
  <2>1. at' \in Phases /\ at'.i = i + 1
    BY <1>1, <1>2, <1>3 DEF Staged, Phases
  <2>2. QED
    BY <1>1, <1>2, <1>3, <2>1 DEF Staged
<1>4. CASE ~ (i < 10)
  BY <1>1, <1>2, <1>4 DEF Staged, Phases
<1>5. QED
  BY <1>3, <1>4

\* The seed is always at one of its places.
LEMMA NextKeepsStaged == Staged /\ [SeedNext]_seedVars => Staged'
<1> SUFFICES ASSUME Staged, [SeedNext]_seedVars PROVE Staged'
  OBVIOUS
<1>1. CASE UNCHANGED at
  BY <1>1 DEF Staged
<1>2. CASE at' = Idle \/ at' = [phase |-> "clean", i |-> 1]
  BY <1>2 DEF Staged, Phases, Idle
<1>3. CASE CleanTable
  BY <1>3, CleanTableKeepsStaged
<1>4. CASE ReadStage
  <2>1. /\ at.phase = "read"
        /\ \/ at' = [at EXCEPT !.phase = "save"]
           \/ at' = [at EXCEPT !.i = 3 + 3 * Len(ENTERPRISES_DATA)]
    BY <1>4 DEF ReadStage
  <2>2. 3 + 3 * Len(ENTERPRISES_DATA) \in Nat
    BY DEF ENTERPRISES_DATA
  <2>3. at' \in Phases /\ at'.phase # "clean"
    BY <2>1, <2>2 DEF Staged, Phases
  <2>4. QED
    BY <2>3 DEF Staged
<1>5. CASE NextStage
  <2>1. at' = [phase |-> "read", i |-> at.i + 1] \/ at' = Idle
    BY <1>5 DEF NextStage
  <2>2. at' \in Phases /\ at'.phase # "clean"
    BY <2>1 DEF Staged, Phases, Idle
  <2>3. QED
    BY <2>2 DEF Staged
<1>6. QED
  BY <1>1, <1>2, <1>3, <1>4, <1>5
     DEF SeedNext, seedVars, RunAllSeeds, SaveRow, PreferenceFails,
         SeedFails, Use

\* Rows only go by a DELETE.
LEMMA RowsStay ==
    ASSUME [SeedNext]_seedVars
    PROVE  db \subseteq db' \/ CleanTable
<1>1. CASE SaveRow
  <2>1. PICK r : r = Head(rest)
    OBVIOUS
  <2>2. UNCHANGED db \/ db' = db \cup {r}
    BY <1>1, <2>1 DEF SaveRow
  <2>3. QED
    BY <2>2
<1>2. CASE Use
  BY <1>2 DEF Use
<1>3. QED
  BY <1>1, <1>2
     DEF SeedNext, seedVars, RunAllSeeds, ReadStage, NextStage,
         PreferenceFails, SeedFails

LEMMA SuperAdminIsKept ==
    ASSUME Staged, CleanTable,
           NEW r \in {SUPER_ADMIN, <<"chatbot_conversations", NULL, 0>>}, r \in db
    PROVE  r \in db'
<1>1. PICK t : t = CleanDatabase[at.i]
  OBVIOUS
<1>2. at.i \in 1..10 /\ db' = db \ Deleted(t)
  BY <1>1, CleanTableKeepsStaged DEF CleanTable
<1>3. PICK D : D = Deleted(t)
  OBVIOUS
<1>4. SUPER_ADMIN \notin D
  <2>1. Owners(SUPER_ADMIN) = {}
    BY NobodyOwnsThem DEF SUPER_ADMIN, Table
  <2>2. QED
    BY <1>3, <2>1, DeletedRows
<1>5. CASE r = SUPER_ADMIN
  BY <1>2, <1>3, <1>4, <1>5
<1>6. CASE r = <<"chatbot_conversations", NULL, 0>>
  <2>1. Owners(r) = {SUPER_ADMIN} /\ Table(r) = "chatbot_conversations"
    BY <1>6 DEF Owners, SUPER_ADMIN, Table
  <2>2. t # "chatbot_conversations"
    BY <1>1, <1>2, CleanOrder
  <2>3. r \notin InTable(t)
    BY <2>1, <2>2 DEF InTable
  <2>4. r \notin D
    BY <1>3, <1>4, <2>1, <2>3, DeletedRows
  <2>5. QED
    BY <1>2, <1>3, <2>4
<1>7. QED
  BY <1>5, <1>6

LEMMA CleanTableKeepsSeed ==
    ASSUME SeedInv, CleanTable
    PROVE  SeedInv'
<1>1. PICK i : i = at.i
  OBVIOUS
<1>2. PICK t : t = CleanDatabase[i]
  OBVIOUS
<1>3. /\ at.phase = "clean" /\ i \in 1..10 /\ ~ Refused(t)
      /\ db' = db \ Deleted(t)
      /\ at' = IF i < 10 THEN [at EXCEPT !.i = @ + 1] ELSE [phase |-> "read", i |-> 1]
  BY <1>1, <1>2, CleanOrder DEF CleanTable, SeedInv, Staged
<1>4. Refers'
  BY <1>3, CleanKeepsRefers DEF SeedInv
<1>5. Staged' /\ (at'.phase = "clean" => at'.i = i + 1)
  BY <1>1, CleanTableKeepsStaged DEF SeedInv
<1>6. \A u : InTable(u)' \subseteq InTable(u)
  BY <1>3 DEF InTable
<1>7. InTable(t)' \subseteq {SUPER_ADMIN}
  BY <1>3, DeletedRows DEF InTable
<1>8. /\ i = 3 => t = "incidencias"
      /\ i = 6 => t = "users"
      /\ i = 8 => t = "roles"
  BY <1>2, <1>3, CleanOrder
<1>9. Table(SUPER_ADMIN) = "users"
  BY DEF Table, SUPER_ADMIN
<1>10. i = 3 => InTable("incidencias")' = {}
  BY <1>7, <1>8, <1>9 DEF InTable
<1>11. i = 8 => InTable("roles")' = {}
  BY <1>7, <1>8, <1>9 DEF InTable
<1>12. i = 6 => InTable("users")' \subseteq {SUPER_ADMIN}
  BY <1>7, <1>8
<1>13. /\ i > 3 => InTable("incidencias") = {}
       /\ i > 6 => InTable("users") \subseteq {SUPER_ADMIN}
       /\ i > 8 => InTable("roles") = {}
  BY <1>1, <1>3 DEF SeedInv, Cleaning
<1>14. /\ i + 1 > 3 => i > 3 \/ i = 3
       /\ i + 1 > 6 => i > 6 \/ i = 6
       /\ i + 1 > 8 => i > 8 \/ i = 8
  BY <1>3
<1>15. /\ i + 1 > 3 => InTable("incidencias")' = {}
       /\ i + 1 > 6 => InTable("users")' \subseteq {SUPER_ADMIN}
       /\ i + 1 > 8 => InTable("roles")' = {}
  BY <1>6, <1>10, <1>11, <1>12, <1>13, <1>14
<1>16. Cleaning'
  BY <1>5, <1>14, <1>15 DEF Cleaning
<1>17. QED
  BY <1>4, <1>5, <1>16 DEF SeedInv

LEMMA InitIsSeeded == SeedInit => SeedInv
  BY DEF SeedInit, Idle, SeedInv, Staged, Phases, Cleaning, Refers

\* The seed itself, and the application between two seeds, keep it.
LEMMA NextKeepsSeed == Serving = FALSE /\ SeedInv /\ [SeedNext]_seedVars => SeedInv'
<1> SUFFICES ASSUME Serving = FALSE, SeedInv, [SeedNext]_seedVars PROVE SeedInv'
  OBVIOUS
<1>1. Staged'
  BY NextKeepsStaged DEF SeedInv
<1>2. ASSUME UNCHANGED db, at'.phase # "clean"
      PROVE  SeedInv'
  BY <1>1, <1>2 DEF SeedInv, Cleaning, Refers
<1>3. CASE UNCHANGED seedVars
  BY <1>3 DEF seedVars, SeedInv, Staged, Cleaning, Refers, InTable
<1>4. CASE RunAllSeeds
  <2>1. UNCHANGED db /\ at' = [phase |-> "clean", i |-> 1]
    BY <1>4 DEF RunAllSeeds
  <2>2. QED
    BY <1>1, <2>1 DEF SeedInv, Cleaning, Refers
<1>5. CASE CleanTable
  BY <1>5, CleanTableKeepsSeed
<1>6. CASE ReadStage
  <2>1. /\ UNCHANGED db /\ at.phase = "read"
        /\ at' = [at EXCEPT !.phase = "save"] \/ \E n : at' = [at EXCEPT !.i = n]
    BY <1>6 DEF ReadStage
  <2>2. at'.phase # "clean"
    BY <2>1 DEF SeedInv, Staged, Phases
  <2>3. QED
    BY <1>2, <2>1, <2>2
<1>7. CASE SaveRow
  <2>1. PICK r : r = Head(rest)
    OBVIOUS
  <2>2. at.phase = "save" /\ UNCHANGED at
    BY <1>7 DEF SaveRow
  <2>3. UNCHANGED db \/ (db' = db \cup {r} /\ MayBeSaved(r))
    BY <1>7, <2>1 DEF SaveRow
  <2>4. Refers'
    BY <2>3 DEF SeedInv, Refers, MayBeSaved
  <2>5. QED
    BY <1>1, <2>2, <2>4 DEF SeedInv, Cleaning
<1>8. CASE NextStage \/ SeedFails
  <2>1. /\ UNCHANGED db
        /\ at' = [phase |-> "read", i |-> at.i + 1] \/ at' = Idle
    BY <1>8 DEF NextStage, SeedFails
  <2>2. at'.phase # "clean"
    BY <2>1 DEF Idle
  <2>3. QED
    BY <1>2, <2>1, <2>2
<1>9. CASE PreferenceFails
  <2>1. UNCHANGED <<db, at>> /\ at.phase = "save"
    BY <1>9 DEF PreferenceFails
  <2>2. QED
    BY <1>2, <2>1
<1>10. CASE Use
  <2>1. at.phase # "clean" /\ UNCHANGED at
    BY <1>10 DEF Use, Idle
  <2>2. PICK r : db' = db \cup {r} /\ Owners(r) \cup Needed(r) \subseteq db
    BY <1>10 DEF Use
  <2>3. Refers'
    BY <2>2 DEF SeedInv, Refers
  <2>4. QED
    BY <1>1, <2>1, <2>3 DEF SeedInv, Cleaning
<1>11. QED
  BY <1>3, <1>4, <1>5, <1>6, <1>7, <1>8, <1>9, <1>10 DEF SeedNext

\* The super admin and the conversations that go with that user survive every
\* seed, however often it is started, wherever it stops and whether or not the
\* application is used meanwhile (cleanDatabase).
THEOREM TheSuperAdminStays == SeedSpec => SuperAdminStays
<1>1. Staged /\ [SeedNext]_seedVars =>
          [\A r \in {SUPER_ADMIN, <<"chatbot_conversations", NULL, 0>>} :
              r \in db => r \in (db')]_db
  BY RowsStay, SuperAdminIsKept
<1>2. SeedInit => Staged
  BY InitIsSeeded DEF SeedInv
<1>3. QED
  BY <1>1, <1>2, NextKeepsStaged, PTL DEF SeedSpec, SuperAdminStays

\* No DELETE of the cleaning is refused for a row that stays, whatever the
\* seeds before it, complete or stopped anywhere, and the application between
\* them have left; the application is not used while the seed runs
\* (seed.service.ts, cleanDatabase).
THEOREM CleaningGoesThrough ==
    ASSUME Serving = FALSE
    PROVE  SeedSpec => []CleaningIsNeverRefused
<1>1. SeedInv => CleaningIsNeverRefused
  BY CleaningIsAllowed DEF CleaningIsNeverRefused
<1>2. SeedInv /\ [SeedNext]_seedVars => SeedInv'
  BY NextKeepsSeed
<1>3. QED
  BY <1>1, <1>2, InitIsSeeded, PTL DEF SeedSpec

-----------------------------------------------------------------------------
(* What sequences of rows are made of *)

\* s is a sequence of the elements of S, all of them.
Fills(s, S) == s \in Seq(S) /\ ToSet(s) = S

\* A sequence after another has the elements of both.
LEMMA FillsConcat ==
    ASSUME NEW A, NEW B, NEW a, NEW b, Fills(a, A), Fills(b, B)
    PROVE  Fills(a \o b, A \cup B)
<1>1. a \in Seq(A \cup B) /\ b \in Seq(A \cup B)
  BY DEF Fills
<1>2. a \o b \in Seq(A \cup B)
  BY <1>1
<1>3. /\ Len(a \o b) = Len(a) + Len(b) /\ Len(a) \in Nat /\ Len(b) \in Nat
      /\ \A i \in 1..Len(a) : (a \o b)[i] = a[i]
      /\ \A i \in 1..Len(b) : (a \o b)[Len(a) + i] = b[i]
  BY <1>1
<1>4. DOMAIN a = 1..Len(a) /\ DOMAIN b = 1..Len(b) /\ DOMAIN (a \o b) = 1..Len(a \o b)
  BY <1>1, <1>2
<1>5. ASSUME NEW x \in A \cup B
      PROVE  x \in ToSet(a \o b)
  <2>1. CASE x \in A
    <3>1. PICK i \in 1..Len(a) : a[i] = x
      BY <1>4, <2>1 DEF Fills, ToSet
    <3>2. i \in 1..Len(a \o b) /\ (a \o b)[i] = x
      BY <1>3, <3>1
    <3>3. QED
      BY <1>4, <3>2 DEF ToSet
  <2>2. CASE x \in B
    <3>1. PICK i \in 1..Len(b) : b[i] = x
      BY <1>4, <2>2 DEF Fills, ToSet
    <3>2. Len(a) + i \in 1..Len(a \o b) /\ (a \o b)[Len(a) + i] = x
      BY <1>3, <3>1
    <3>3. QED
      BY <1>4, <3>2 DEF ToSet
  <2>3. QED
    BY <2>1, <2>2
<1>6. ToSet(a \o b) \subseteq A \cup B
  BY <1>2, <1>4 DEF ToSet
<1>7. QED
  BY <1>2, <1>5, <1>6 DEF Fills

\* FlattenSeq of one, two and three sequences: one after the other.
LEMMA FlattenOne ==
    ASSUME NEW s, s = [i \in 1..1 |-> s[i]]
    PROVE  FlattenSeq(s) = s[1]
<1> DEFINE R(f) == f = [i \in 1..1 |-> IF i = 1 THEN s[i] ELSE f[i - 1] \o s[i]]
           g == CHOOSE f : R(f)
           h == [i \in 1..1 |-> s[1]]
<1>1. Len(s) = 1
  OBVIOUS
<1>2. FlattenSeq(s) = g[1]
  BY <1>1 DEF FlattenSeq
<1>3. R(h)
  OBVIOUS
<1>4. R(g)
  BY <1>3
<1> HIDE DEF g
<1>5. g[1] = s[1]
  BY <1>4
<1>6. QED
  BY <1>2, <1>5

LEMMA FlattenTwo ==
    ASSUME NEW s, s = [i \in 1..2 |-> s[i]]
    PROVE  FlattenSeq(s) = s[1] \o s[2]
<1> DEFINE R(f) == f = [i \in 1..2 |-> IF i = 1 THEN s[i] ELSE f[i - 1] \o s[i]]
           g == CHOOSE f : R(f)
           h == [i \in 1..2 |-> IF i = 1 THEN s[1] ELSE s[1] \o s[2]]
<1>1. Len(s) = 2
  OBVIOUS
<1>2. FlattenSeq(s) = g[2]
  BY <1>1 DEF FlattenSeq
<1>3. R(h)
  OBVIOUS
<1>4. R(g)
  BY <1>3
<1> HIDE DEF g
<1>5. \A i \in 1..2 : g[i] = IF i = 1 THEN s[i] ELSE g[i - 1] \o s[i]
  BY <1>4
<1> HIDE DEF R
<1>6. g[1] = s[1]
  BY <1>5
<1>7. 2 \in 1..2 /\ 2 # 1 /\ 2 - 1 = 1
  OBVIOUS
<1>8. g[2] = g[1] \o s[2]
  BY <1>5, <1>7
<1>9. QED
  BY <1>2, <1>6, <1>8

LEMMA FlattenThree ==
    ASSUME NEW s, s = [i \in 1..3 |-> s[i]]
    PROVE  FlattenSeq(s) = (s[1] \o s[2]) \o s[3]
<1> DEFINE R(f) == f = [i \in 1..3 |-> IF i = 1 THEN s[i] ELSE f[i - 1] \o s[i]]
           g == CHOOSE f : R(f)
           h == [i \in 1..3 |-> IF i = 1 THEN s[1] ELSE IF i = 2 THEN s[1] \o s[2]
                                ELSE (s[1] \o s[2]) \o s[3]]
<1>1. Len(s) = 3
  OBVIOUS
<1>2. FlattenSeq(s) = g[3]
  BY <1>1 DEF FlattenSeq
<1>3. R(h)
  OBVIOUS
<1>4. R(g)
  BY <1>3
<1> HIDE DEF g
<1>5. \A i \in 1..3 : g[i] = IF i = 1 THEN s[i] ELSE g[i - 1] \o s[i]
  BY <1>4
<1> HIDE DEF R
<1>6. g[1] = s[1]
  BY <1>5
<1>7. 2 \in 1..3 /\ 2 # 1 /\ 2 - 1 = 1 /\ 3 \in 1..3 /\ 3 # 1 /\ 3 - 1 = 2
  OBVIOUS
<1>8. g[2] = g[1] \o s[2] /\ g[3] = g[2] \o s[3]
  BY <1>5, <1>7
<1>9. QED
  BY <1>2, <1>6, <1>8

\* SetToSeq has the elements of the set.
LEMMA SetToSeqFills ==
    ASSUME NEW S, IsFiniteSet(S)
    PROVE  Fills(SetToSeq(S), S)
<1>1. PICK n : n = Cardinality(S)
  OBVIOUS
<1>2. n \in Nat
  BY <1>1, FS_CardinalityType
<1>3. \E f : f \in Bijection(1..n, S)
  BY <1>1, <1>2, FS_CardinalityType DEF ExistsBijection
<1>4. \E f \in [1..n -> S] : IsInjective(f)
  BY <1>3 DEF Bijection, Injection, IsInjective
<1>5. PICK g : g = SetToSeq(S)
  OBVIOUS
<1>6. g \in [1..n -> S] /\ IsInjective(g)
  BY <1>1, <1>4, <1>5 DEF SetToSeq
<1>7. g \in Seq(S) /\ DOMAIN g = 1..n
  BY <1>2, <1>6
<1>8. ToSet(g) \subseteq S
  BY <1>6 DEF ToSet
<1>9. S \subseteq ToSet(g)
  <2>1. IsFiniteSet(1..n) /\ Cardinality(1..n) = n
    BY <1>2, FS_Interval
  <2>2. g \in Injection(1..n, S)
    BY <1>6 DEF Injection, IsInjective
  <2>3. g \in Surjection(1..n, S)
    BY <1>1, <2>1, <2>2, FS_Injection
  <2>4. QED
    BY <1>7, <2>3 DEF Surjection, ToSet
<1>10. QED
  BY <1>5, <1>7, <1>8, <1>9 DEF Fills

\* Sequences written out.
LEMMA FillsOne == ASSUME NEW x PROVE Fills(<<x>>, {x})
<1>1. <<x>> \in Seq({x}) /\ DOMAIN <<x>> = 1..1 /\ <<x>>[1] = x
  OBVIOUS
<1>2. QED
  BY <1>1 DEF Fills, ToSet

LEMMA FillsTwo == ASSUME NEW x, NEW y PROVE Fills(<<x, y>>, {x, y})
<1>1. <<x, y>> \in Seq({x, y}) /\ DOMAIN <<x, y>> = 1..2 /\ <<x, y>>[1] = x /\ <<x, y>>[2] = y
  OBVIOUS
<1>2. QED
  BY <1>1 DEF Fills, ToSet

\* A function on 1..n is a sequence of its values.
LEMMA FillsFunction ==
    ASSUME NEW s, NEW n \in Nat, s = [i \in 1..n |-> s[i]]
    PROVE  Fills(s, {s[i] : i \in 1..n})
<1>1. s \in Seq({s[i] : i \in 1..n}) /\ DOMAIN s = 1..n
  <2>1. s \in [1..n -> {s[i] : i \in 1..n}]
    OBVIOUS
  <2>2. QED
    BY <2>1
<1>2. QED
  BY <1>1 DEF Fills, ToSet

-----------------------------------------------------------------------------
(* The stages of the seed and the rows each is to save *)

\* The stages, place by place: those of the enterprises come three by three.
LEMMA StagesAre ==
    /\ Len(Stages) = 12
    /\ Stages[1] = "permissions" /\ Stages[2] = "superAdmin"
    /\ Stages[3] = "enterprise" /\ Stages[4] = "roles" /\ Stages[5] = "users"
    /\ Stages[6] = "enterprise" /\ Stages[7] = "roles" /\ Stages[8] = "users"
    /\ Stages[9] = "clients" /\ Stages[10] = "incidencias" /\ Stages[11] = "configs"
    /\ Stages[12] = "documents"
<1> DEFINE f == [i \in DOMAIN ENTERPRISES_DATA |-> <<"enterprise", "roles", "users">>]
<1>1. DOMAIN ENTERPRISES_DATA = 1..2
  BY DEF ENTERPRISES_DATA
<1>2. f = [i \in 1..2 |-> f[i]]
  BY <1>1
<1>3. f[1] = <<"enterprise", "roles", "users">> /\ f[2] = <<"enterprise", "roles", "users">>
  BY <1>1
<1>4. Stages = (<<"permissions", "superAdmin">> \o FlattenSeq(f))
               \o <<"clients", "incidencias", "configs", "documents">>
  BY DEF Stages
<1> HIDE DEF f
<1>5. FlattenSeq(f) = <<"enterprise", "roles", "users">> \o <<"enterprise", "roles", "users">>
  BY <1>2, <1>3, FlattenTwo
<1> DEFINE S == {"permissions", "superAdmin", "enterprise", "roles", "users", "clients",
                 "incidencias", "configs", "documents"}
<1>6. PICK u, a, z : /\ u = <<"enterprise", "roles", "users">>
                     /\ a = <<"permissions", "superAdmin">>
                     /\ z = <<"clients", "incidencias", "configs", "documents">>
  OBVIOUS
<1>7. u \in Seq(S) /\ a \in Seq(S) /\ z \in Seq(S)
  BY <1>6
<1>8. Len(u) = 3 /\ Len(a) = 2 /\ Len(z) = 4
  BY <1>6
<1>9. /\ u[1] = "enterprise" /\ u[2] = "roles" /\ u[3] = "users"
      /\ a[1] = "permissions" /\ a[2] = "superAdmin"
      /\ z[1] = "clients" /\ z[2] = "incidencias"
      /\ z[3] = "configs" /\ z[4] = "documents"
  BY <1>6
<1> HIDE DEF S
<1>10. PICK v, w : v = u \o u /\ w = a \o v
  OBVIOUS
<1>11. /\ v \in Seq(S) /\ Len(v) = Len(u) + Len(u)
       /\ \A i \in 1..Len(u) : v[i] = u[i]
       /\ \A i \in 1..Len(u) : v[Len(u) + i] = u[i]
  BY <1>7, <1>10
<1>12. /\ v[1] = u[1] /\ v[2] = u[2] /\ v[3] = u[3]
       /\ v[4] = u[1] /\ v[5] = u[2] /\ v[6] = u[3]
  BY <1>8, <1>11
<1>13. /\ w \in Seq(S) /\ Len(w) = Len(a) + Len(v)
       /\ \A i \in 1..Len(a) : w[i] = a[i]
       /\ \A i \in 1..Len(v) : w[Len(a) + i] = v[i]
  BY <1>7, <1>10, <1>11
<1>14. /\ w[1] = a[1] /\ w[2] = a[2] /\ w[3] = v[1] /\ w[4] = v[2]
       /\ w[5] = v[3] /\ w[6] = v[4] /\ w[7] = v[5] /\ w[8] = v[6]
  BY <1>8, <1>11, <1>13
<1>15. Stages = w \o z
  BY <1>4, <1>5, <1>6, <1>10
<1>16. /\ Len(Stages) = Len(w) + Len(z)
       /\ \A i \in 1..Len(w) : Stages[i] = w[i]
       /\ \A i \in 1..Len(z) : Stages[Len(w) + i] = z[i]
  <2>1. w \in Seq(S) /\ z \in Seq(S)
    BY <1>7, <1>13
  <2>2. QED
    BY <1>15, <2>1
<1>17. Len(w) = 8
  BY <1>8, <1>11, <1>13
<1>18. /\ Len(Stages) = 12
       /\ \A i \in 1..8 : Stages[i] = w[i]
       /\ \A i \in 1..4 : Stages[8 + i] = z[i]
  BY <1>8, <1>16, <1>17
<1>19. /\ Stages[8 + 1] = z[1] /\ Stages[8 + 2] = z[2]
       /\ Stages[8 + 3] = z[3] /\ Stages[8 + 4] = z[4]
  BY <1>18
<1>20. QED
  BY <1>9, <1>12, <1>14, <1>18, <1>19

LEMMA EnterprisesAt ==
    /\ \A i \in 3..5 : EnterpriseAt(i) = "techcorp"
    /\ \A i \in 6..8 : EnterpriseAt(i) = "globalservices"
<1>1. ENTERPRISES_DATA[1] = "techcorp" /\ ENTERPRISES_DATA[2] = "globalservices"
  BY DEF ENTERPRISES_DATA
<1>2. \A i \in 3..5 : (i - 3) \div 3 + 1 = 1
  OBVIOUS
<1>3. \A i \in 6..8 : (i - 3) \div 3 + 1 = 2
  OBVIOUS
<1>4. QED
  BY <1>1, <1>2, <1>3 DEF EnterpriseAt

PermissionNames == {"editIncidents", "readDashboard", "manageIncidents"}

MadePermissions == {<<"permissions", p>> : p \in PermissionNames}

MadeRoles(e) ==
    {<<"roles", e, n>> : n \in 1..2}
    \cup {<<"role_permission", e, 1, p>> : p \in PermissionNames}
    \cup {<<"role_permission", e, 2, p>> : p \in {"editIncidents", "readDashboard"}}

MadeUsers(e) ==
    {<<"users", e, u>> : u \in 1..2} \cup {<<"user_roles", e, u, u>> : u \in 1..2}

Channels(e, u) ==
    {<<"notification_provider_preferences", e, u, ProviderType[i]>> : i \in 1..4}

MadeClients == {<<"users", "techcorp", 3>>}

MadeIncidents ==
    {<<"incidencias", "techcorp", 0, 1>>, <<"incidencias", "techcorp", 0, 2>>,
     <<"incidencias", "globalservices", 0, 1>>, <<"incidencias", "techcorp", 3, 1>>}

Orders == {o \in [1..2 -> {"techcorp", "globalservices"}] : o[1] # o[2]}

Configs(o) == {<<"enterprise_config", o[c], c>> : c \in 1..2}

Documents(o) ==
    {<<"enterprise_documents", o[1], 1>>, <<"enterprise_documents", o[1], 2>>,
     <<"enterprise_documents", o[2], 3>>}

\* The order in which the permissions are saved: parents first.
Line == << <<"permissions", "readDashboard">>, <<"permissions", "manageIncidents">>,
           <<"permissions", "editIncidents">> >>

LEMMA LineIs ==
    /\ Len(Line) = 3 /\ DOMAIN Line = 1..3
    /\ Line[1] = <<"permissions", "readDashboard">>
    /\ Line[2] = <<"permissions", "manageIncidents">>
    /\ Line[3] = <<"permissions", "editIncidents">>
  BY DEF Line

\* If there is no permission all are to be saved, parents first.
LEMMA PermissionsToSave ==
    ASSUME InTable("permissions") = {}
    PROVE  SeedPermissions = [i \in 1..3 |-> Line[i]]
<1> DEFINE D == PERMISSIONS_DATA
           pa == [i \in DOMAIN D |-> IF D[i].parent = NULL THEN <<D[i]>> ELSE <<>>]
           ch == [i \in DOMAIN D |-> IF D[i].parent # NULL THEN <<D[i]>> ELSE <<>>]
           P == FlattenSeq(pa)
           C == FlattenSeq(ch)
<1>1. /\ DOMAIN D = 1..3
      /\ D[1] = [name |-> "editIncidents", parent |-> "manageIncidents"]
      /\ D[2] = [name |-> "readDashboard", parent |-> NULL]
      /\ D[3] = [name |-> "manageIncidents", parent |-> NULL]
  BY DEF PERMISSIONS_DATA
<1>2. SeedPermissions = [i \in DOMAIN (P \o C) |-> <<"permissions", (P \o C)[i].name>>]
  BY DEF SeedPermissions, Those
<1>3. NULL # "manageIncidents"
  BY <1>1, PermissionsAssumption DEF PermissionsAssumption
<1> HIDE DEF D
<1>4. pa = [i \in 1..3 |-> pa[i]] /\ ch = [i \in 1..3 |-> ch[i]]
  BY <1>1
<1>5. pa[1] = <<>> /\ pa[2] = <<D[2]>> /\ pa[3] = <<D[3]>>
  BY <1>1, <1>3
<1>6. ch[1] = <<D[1]>> /\ ch[2] = <<>> /\ ch[3] = <<>>
  BY <1>1, <1>3
<1> HIDE DEF pa, ch
<1> DEFINE S == {D[1], D[2], D[3]}
<1>7. /\ <<>> \in Seq(S) /\ <<D[1]>> \in Seq(S) /\ <<D[2]>> \in Seq(S) /\ <<D[3]>> \in Seq(S)
  OBVIOUS
<1> HIDE DEF S
<1>8. P = <<D[2]>> \o <<D[3]>>
  <2>1. P = (<<>> \o <<D[2]>>) \o <<D[3]>>
    BY <1>4, <1>5, FlattenThree
  <2>2. <<>> \o <<D[2]>> = <<D[2]>>
    BY <1>7
  <2>3. QED
    BY <2>1, <2>2
<1>9. C = <<D[1]>>
  <2>1. C = (<<D[1]>> \o <<>>) \o <<>>
    BY <1>4, <1>6, FlattenThree
  <2>2. QED
    BY <1>7, <2>1
<1>10. P \in Seq(S) /\ Len(P) = 2 /\ P[1] = D[2] /\ P[2] = D[3]
  BY <1>7, <1>8, ConcatProperties
<1>11. C \in Seq(S) /\ Len(C) = 1 /\ C[1] = D[1]
  BY <1>7, <1>9
<1> HIDE DEF P, C
<1>12. PICK x : x = P \o C
  OBVIOUS
<1>13. x \in Seq(S) /\ Len(x) = 3 /\ x[1] = D[2] /\ x[2] = D[3] /\ x[3] = D[1]
  BY <1>10, <1>11, <1>12, ConcatProperties
<1>14. DOMAIN x = 1..3 /\ \A i \in 1..3 : <<"permissions", x[i].name>> = Line[i]
  BY <1>1, <1>13, LineIs
<1>15. QED
  BY <1>2, <1>12, <1>14

\* Rows given by a finite set, and one row before them.
LEMMA FillsRole ==
    ASSUME NEW x, NEW S, IsFiniteSet(S)
    PROVE  Fills(<<x>> \o SetToSeq(S), {x} \cup S)
  BY FillsOne, SetToSeqFills, FillsConcat

LEMMA ImageIsFinite ==
    ASSUME NEW e, NEW n
    PROVE  /\ IsFiniteSet({<<"role_permission", e, n, p>> : p \in PermissionNames})
           /\ IsFiniteSet({<<"role_permission", e, n, p>> :
                               p \in {"editIncidents", "readDashboard"}})
<1> DEFINE f(p) == <<"role_permission", e, n, p>>
<1>1. {f(p) : p \in {"editIncidents", "readDashboard"}}
          = {f("editIncidents"), f("readDashboard")}
  OBVIOUS
<1>2. {f(p) : p \in PermissionNames}
          = {f("editIncidents"), f("readDashboard"), f("manageIncidents")}
  BY DEF PermissionNames
<1> HIDE DEF f
<1>3. IsFiniteSet({f("editIncidents")})
  BY FS_Singleton
<1>4. IsFiniteSet({f("editIncidents")} \cup {f("readDashboard")})
  BY <1>3, FS_AddElement
<1>5. IsFiniteSet({f("editIncidents")} \cup {f("readDashboard")} \cup {f("manageIncidents")})
  BY <1>4, FS_AddElement
<1>6. /\ {f("editIncidents")} \cup {f("readDashboard")} = {f("editIncidents"), f("readDashboard")}
      /\ {f("editIncidents")} \cup {f("readDashboard")} \cup {f("manageIncidents")}
         = {f("editIncidents"), f("readDashboard"), f("manageIncidents")}
  OBVIOUS
<1>7. QED
  BY <1>1, <1>2, <1>4, <1>5, <1>6 DEF f

\* With all permissions in memory every role is to be saved with its own.
LEMMA RolesToSave ==
    ASSUME permissions = PermissionNames, NEW e
    PROVE  Fills(SeedRolesForEnterprise(e), MadeRoles(e))
<1> DEFINE D == ROLES_DATA
           granted(n) == IF D[n] = {} THEN permissions ELSE D[n] \cap permissions
           P(n) == {<<"role_permission", e, n, p>> : p \in granted(n)}
           s == [n \in DOMAIN D |-> << <<"roles", e, n>> >> \o SetToSeq(P(n))]
<1>1. DOMAIN D = 1..2 /\ D[1] = {} /\ D[2] = {"editIncidents", "readDashboard"}
  BY DEF ROLES_DATA
<1>2. granted(1) = PermissionNames /\ granted(2) = {"editIncidents", "readDashboard"}
  BY <1>1 DEF PermissionNames
<1>3. IsFiniteSet(P(1)) /\ IsFiniteSet(P(2))
  BY <1>2, ImageIsFinite
<1>4. SeedRolesForEnterprise(e) = FlattenSeq(s)
  BY DEF SeedRolesForEnterprise
<1>5. s = [n \in 1..2 |-> s[n]]
  BY <1>1
<1>6. MadeRoles(e) = ({<<"roles", e, 1>>} \cup P(1)) \cup ({<<"roles", e, 2>>} \cup P(2))
  BY <1>2 DEF MadeRoles
<1> HIDE DEF P, granted
<1>7. /\ s[1] = << <<"roles", e, 1>> >> \o SetToSeq(P(1))
      /\ s[2] = << <<"roles", e, 2>> >> \o SetToSeq(P(2))
  BY <1>1
<1> HIDE DEF s, D
<1>8. Fills(s[1], {<<"roles", e, 1>>} \cup P(1)) /\ Fills(s[2], {<<"roles", e, 2>>} \cup P(2))
  BY <1>3, <1>7, FillsRole
<1>9. FlattenSeq(s) = s[1] \o s[2]
  BY <1>5, FlattenTwo
<1>10. QED
  BY <1>4, <1>6, <1>8, <1>9, FillsConcat

\* A channel of each kind is to be saved for a user.
LEMMA ChannelsToSave ==
    ASSUME NEW e, NEW u
    PROVE  Fills(InitializeDefaultNotificationProviders(e, u), Channels(e, u))
<1>1. PICK s : s = InitializeDefaultNotificationProviders(e, u)
  OBVIOUS
<1>2. DOMAIN ProviderType = 1..4
  BY DEF ProviderType
<1>3. s = [i \in 1..4 |-> <<"notification_provider_preferences", e, u, ProviderType[i]>>]
  BY <1>1, <1>2 DEF InitializeDefaultNotificationProviders
<1>4. s = [i \in 1..4 |-> s[i]] /\ Channels(e, u) = {s[i] : i \in 1..4}
  BY <1>3 DEF Channels
<1>5. Fills(s, {s[i] : i \in 1..4})
  BY <1>4, 4 \in Nat, FillsFunction
<1>6. QED
  BY <1>1, <1>4, <1>5

\* With both roles of the enterprise there all its users are to be saved.
LEMMA UsersToSave ==
    ASSUME NEW e, {r \in InTable("roles") : r[2] = e} = {<<"roles", e, 1>>, <<"roles", e, 2>>}
    PROVE  Fills(SeedUsersForEnterprise(e),
                 MadeUsers(e) \cup Channels(e, 1) \cup Channels(e, 2))
<1> DEFINE R == {r \in InTable("roles") : r[2] = e}
           D == USERS_DATA
           s == [u \in DOMAIN D |->
                    << <<"users", e, u>>, <<"user_roles", e, u, D[u]>> >>
                    \o InitializeDefaultNotificationProviders(e, u)]
           A(u) == {<<"users", e, u>>, <<"user_roles", e, u, u>>}
<1>1. DOMAIN D = 1..2 /\ D[1] = 1 /\ D[2] = 2 /\ Len(D) = 2
  BY DEF USERS_DATA
<1>2. Cardinality(R) = 2
  <2>1. PICK a, b : a = <<"roles", e, 1>> /\ b = <<"roles", e, 2>>
    OBVIOUS
  <2>2. a # b /\ R = {a} \cup {b}
    BY <2>1
  <2>3. IsFiniteSet({a}) /\ Cardinality({a}) = 1
    BY FS_Singleton
  <2>4. Cardinality({a} \cup {b}) = 1 + 1
    BY <2>2, <2>3, FS_AddElement
  <2>5. Cardinality({a} \cup {b}) = 2
    BY <2>4
  <2>6. QED
    BY <2>2, <2>5, Zenon
<1>3. SeedUsersForEnterprise(e) = FlattenSeq(s)
  BY <1>1, <1>2 DEF SeedUsersForEnterprise
<1>4. s = [u \in 1..2 |-> s[u]]
  BY <1>1
<1>5. /\ s[1] = << <<"users", e, 1>>, <<"user_roles", e, 1, 1>> >>
                \o InitializeDefaultNotificationProviders(e, 1)
      /\ s[2] = << <<"users", e, 2>>, <<"user_roles", e, 2, 2>> >>
                \o InitializeDefaultNotificationProviders(e, 2)
  BY <1>1
<1>6. MadeUsers(e) = A(1) \cup A(2)
  BY DEF MadeUsers
<1>7. /\ Fills(<< <<"users", e, 1>>, <<"user_roles", e, 1, 1>> >>, A(1))
      /\ Fills(<< <<"users", e, 2>>, <<"user_roles", e, 2, 2>> >>, A(2))
  BY FillsTwo
<1> HIDE DEF s, A, D
<1>8. Fills(s[1], A(1) \cup Channels(e, 1)) /\ Fills(s[2], A(2) \cup Channels(e, 2))
  <2>1. PICK c, d : /\ c = InitializeDefaultNotificationProviders(e, 1)
                    /\ d = InitializeDefaultNotificationProviders(e, 2)
    OBVIOUS
  <2>2. Fills(c, Channels(e, 1)) /\ Fills(d, Channels(e, 2))
    BY <2>1, ChannelsToSave
  <2>3. PICK a, b : /\ a = << <<"users", e, 1>>, <<"user_roles", e, 1, 1>> >>
                    /\ b = << <<"users", e, 2>>, <<"user_roles", e, 2, 2>> >>
    OBVIOUS
  <2>4. Fills(a, A(1)) /\ Fills(b, A(2))
    BY <1>7, <2>3
  <2>5. s[1] = a \o c /\ s[2] = b \o d
    BY <1>5, <2>1, <2>3
  <2>6. QED
    BY <2>2, <2>4, <2>5, FillsConcat
<1>9. FlattenSeq(s) = s[1] \o s[2]
  BY <1>4, FlattenTwo
<1>10. Fills(FlattenSeq(s), (A(1) \cup Channels(e, 1)) \cup (A(2) \cup Channels(e, 2)))
  BY <1>8, <1>9, FillsConcat
<1>11. (A(1) \cup Channels(e, 1)) \cup (A(2) \cup Channels(e, 2))
       = MadeUsers(e) \cup Channels(e, 1) \cup Channels(e, 2)
  BY <1>6
<1>12. QED
  BY <1>3, <1>10, <1>11

\* The clients, each with the channels of a user.
LEMMA ClientsToSave ==
    Fills(SeedCustomClients, MadeClients \cup Channels("techcorp", 3))
<1> DEFINE D == CUSTOM_CLIENTS_DATA
           s == [c \in DOMAIN D |->
                    << <<"users", D[c], ClientUser(c)>> >>
                    \o InitializeDefaultNotificationProviders(D[c], ClientUser(c))]
<1>1. DOMAIN D = 1..1 /\ D[1] = "techcorp"
  BY DEF CUSTOM_CLIENTS_DATA
<1>2. ClientUser(1) = 3
  BY DEF ClientUser, USERS_DATA
<1>3. SeedCustomClients = FlattenSeq(s)
  BY DEF SeedCustomClients
<1>4. s = [c \in 1..1 |-> s[c]]
  BY <1>1
<1>5. s[1] = << <<"users", "techcorp", 3>> >>
             \o InitializeDefaultNotificationProviders("techcorp", 3)
  BY <1>1, <1>2
<1> HIDE DEF s, D
<1>6. Fills(<< <<"users", "techcorp", 3>> >>, MadeClients)
  BY FillsOne DEF MadeClients
<1>7. Fills(s[1], MadeClients \cup Channels("techcorp", 3))
  BY <1>5, <1>6, ChannelsToSave, FillsConcat
<1>8. QED
  BY <1>3, <1>4, <1>7, FlattenOne

\* The enterprises in the order of their creation are those of the seed.
LEMMA ByCreationIs ==
    ASSUME <<"enterprises", "techcorp">> \in db, <<"enterprises", "globalservices">> \in db,
           <<"enterprises", "other">> \notin db
    PROVE  /\ Len(ByCreation) = 2 /\ DOMAIN ByCreation = 1..2 /\ ByCreation # <<>>
           /\ ByCreation[1] = "techcorp" /\ ByCreation[2] = "globalservices"
<1>1. PICK E : E = ENTERPRISES_DATA \o <<"other">>
  OBVIOUS
<1> DEFINE In(e) == <<"enterprises", e>> \in db
           f == [i \in DOMAIN E |-> IF In(E[i]) THEN <<E[i]>> ELSE <<>>]
           S == {"techcorp", "globalservices", "other"}
<1>2. ByCreation = FlattenSeq(f)
  BY <1>1 DEF ByCreation, Those
<1>3. /\ DOMAIN E = 1..3
      /\ E[1] = "techcorp" /\ E[2] = "globalservices" /\ E[3] = "other"
  <2>1. PICK a, b : a = ENTERPRISES_DATA /\ b = <<"other">>
    OBVIOUS
  <2>2. a \in Seq(S) /\ b \in Seq(S)
    BY <2>1 DEF ENTERPRISES_DATA
  <2>3. /\ Len(a) = 2 /\ a[1] = "techcorp" /\ a[2] = "globalservices"
        /\ Len(b) = 1 /\ b[1] = "other"
    BY <2>1 DEF ENTERPRISES_DATA
  <2> HIDE DEF S
  <2>4. /\ E \in Seq(S) /\ Len(E) = Len(a) + Len(b)
        /\ \A i \in 1..Len(a) : E[i] = a[i]
        /\ \A i \in 1..Len(b) : E[Len(a) + i] = b[i]
    BY <1>1, <2>1, <2>2
  <2>5. DOMAIN E = 1..Len(E)
    BY <2>4
  <2>6. Len(E) = 3
    BY <2>3, <2>4
  <2>7. E[1] = a[1] /\ E[2] = a[2]
    BY <2>3, <2>4
  <2>8. E[3] = b[1]
    BY <2>3, <2>4
  <2>9. QED
    BY <2>3, <2>5, <2>6, <2>7, <2>8
<1>4. f = [i \in 1..3 |-> f[i]]
  BY <1>3
<1>5. In("techcorp") /\ In("globalservices") /\ ~ In("other")
  OBVIOUS
<1> HIDE DEF In
<1>6. f[1] = <<"techcorp">> /\ f[2] = <<"globalservices">> /\ f[3] = <<>>
  BY <1>3, <1>5
<1> HIDE DEF f
<1>7. PICK a, b : a = <<"techcorp">> /\ b = <<"globalservices">>
  OBVIOUS
<1>8. ByCreation = (a \o b) \o <<>>
  BY <1>2, <1>4, <1>6, <1>7, FlattenThree
<1>9. a \in Seq(S) /\ b \in Seq(S)
  BY <1>7
<1>10. Len(a) = 1 /\ a[1] = "techcorp" /\ Len(b) = 1 /\ b[1] = "globalservices"
  BY <1>7
<1> HIDE DEF S
<1>11. a \o b \in Seq(S)
  BY <1>9
<1>12. ByCreation = a \o b
  BY <1>8, <1>11
<1>13. /\ Len(a \o b) = Len(a) + Len(b)
       /\ \A i \in 1..Len(a) : (a \o b)[i] = a[i]
       /\ \A i \in 1..Len(b) : (a \o b)[Len(a) + i] = b[i]
  BY <1>9
<1>14. PICK c : c = a \o b
  OBVIOUS
<1>15. Len(c) = 2 /\ c[1] = a[1] /\ c[2] = b[1]
  BY <1>10, <1>13, <1>14
<1>16. DOMAIN c = 1..Len(c) /\ (c = <<>> => Len(c) = 0)
  BY <1>11, <1>14
<1>17. QED
  BY <1>10, <1>12, <1>14, <1>15, <1>16

LEMMA MinOfTwo ==
    /\ Min({1, 2}) = 1 /\ Min({2, 2}) = 2
<1>1. Min({1, 2}) = 1
  BY DEF Min
<1>2. Min({2, 2}) = 2
  BY DEF Min
<1>3. QED
  BY <1>1, <1>2

\* With both enterprises there all incidents are to be saved.
LEMMA IncidentsToSave ==
    ASSUME <<"enterprises", "techcorp">> \in db, <<"enterprises", "globalservices">> \in db,
           <<"enterprises", "other">> \notin db
    PROVE  Fills(SeedIncidencias, MadeIncidents)
<1>1. PICK N : N = INCIDENCIAS_CONFIG_BY_ENTERPRISE
  OBVIOUS
<1>2. PICK B : B = ByCreation
  OBVIOUS
<1> DEFINE Generated(i) == [k \in 1..N[Min({i, Len(N)})] |-> <<"incidencias", B[i], 0, k>>]
           D == CUSTOM_INCIDENCIAS_DATA
           C == CUSTOM_CLIENTS_DATA
           Custom(k) == <<"incidencias", C[D[k]], ClientUser(D[k]), k>>
           s == [i \in DOMAIN B |-> Generated(i)]
           t == [k \in DOMAIN D |-> Custom(k)]
<1>3. DOMAIN B = 1..2 /\ B # <<>> /\ B[1] = "techcorp" /\ B[2] = "globalservices"
  BY <1>2, ByCreationIs
<1>4. SeedIncidencias = FlattenSeq(s) \o t
  BY <1>1, <1>2, <1>3 DEF SeedIncidencias
<1>5. Len(N) = 2 /\ N[1] = 2 /\ N[2] = 1
  BY <1>1 DEF INCIDENCIAS_CONFIG_BY_ENTERPRISE
<1>6. /\ Generated(1) = [k \in 1..2 |-> <<"incidencias", "techcorp", 0, k>>]
      /\ Generated(2) = [k \in 1..1 |-> <<"incidencias", "globalservices", 0, k>>]
  BY <1>3, <1>5, MinOfTwo
<1> HIDE DEF Generated
<1>7. /\ s = [i \in 1..2 |-> s[i]] /\ s[1] = Generated(1) /\ s[2] = Generated(2)
  BY <1>3
<1>8. t = [k \in 1..1 |-> <<"incidencias", "techcorp", 3, k>>]
  <2>1. DOMAIN D = 1..1 /\ D[1] = 1 /\ C[1] = "techcorp"
    BY DEF CUSTOM_INCIDENCIAS_DATA, CUSTOM_CLIENTS_DATA
  <2>2. ClientUser(1) = 3
    BY DEF ClientUser, USERS_DATA
  <2>3. Custom(1) = <<"incidencias", "techcorp", 3, 1>>
    BY <2>1, <2>2
  <2> HIDE DEF D, C, Custom
  <2>4. QED
    BY <2>1, <2>3
<1> HIDE DEF s, t
<1>9. FlattenSeq(s) = s[1] \o s[2]
  BY <1>7, FlattenTwo
<1> DEFINE A == {<<"incidencias", "techcorp", 0, k>> : k \in 1..2}
           F == {<<"incidencias", "globalservices", 0, k>> : k \in 1..1}
           G == {<<"incidencias", "techcorp", 3, k>> : k \in 1..1}
<1>10. Fills(s[1], A)
  <2>1. PICK q : q = s[1]
    OBVIOUS
  <2>2. q = [k \in 1..2 |-> q[k]] /\ A = {q[k] : k \in 1..2}
    BY <1>6, <1>7, <2>1
  <2>3. Fills(q, {q[k] : k \in 1..2})
    BY <2>2, 2 \in Nat, FillsFunction
  <2>4. QED
    BY <2>1, <2>2, <2>3
<1>11. Fills(s[2], F)
  <2>1. PICK q : q = s[2]
    OBVIOUS
  <2>2. q = [k \in 1..1 |-> q[k]] /\ F = {q[k] : k \in 1..1}
    BY <1>6, <1>7, <2>1
  <2>3. Fills(q, {q[k] : k \in 1..1})
    BY <2>2, 1 \in Nat, FillsFunction
  <2>4. QED
    BY <2>1, <2>2, <2>3
<1>12. Fills(t, G)
  <2>1. PICK q : q = t
    OBVIOUS
  <2>2. q = [k \in 1..1 |-> q[k]] /\ G = {q[k] : k \in 1..1}
    BY <1>8, <2>1
  <2>3. Fills(q, {q[k] : k \in 1..1})
    BY <2>2, 1 \in Nat, FillsFunction
  <2>4. QED
    BY <2>1, <2>2, <2>3
<1>13. MadeIncidents = (A \cup F) \cup G
  BY DEF MadeIncidents
<1> HIDE DEF A, F, G
<1>14. QED
  BY <1>4, <1>9, <1>10, <1>11, <1>12, <1>13, FillsConcat

\* In whatever order the enterprises come, each is to have a configuration
\* and the documents of its place.
LEMMA ConfigsToSave ==
    ASSUME NEW o \in Orders
    PROVE  Fills(SeedEnterpriseConfigs(o), Configs(o))
<1>1. Len(o) = 2
  BY DEF Orders
<1>2. PICK s : s = SeedEnterpriseConfigs(o)
  OBVIOUS
<1>3. s = [c \in 1..2 |-> <<"enterprise_config", o[c], c>>]
  BY <1>1, <1>2, MinOfTwo DEF SeedEnterpriseConfigs, ENTERPRISE_CONFIGS_DATA
<1>4. s = [c \in 1..2 |-> s[c]] /\ Configs(o) = {s[c] : c \in 1..2}
  BY <1>3 DEF Configs
<1>5. Fills(s, {s[c] : c \in 1..2})
  BY <1>4, 2 \in Nat, FillsFunction
<1>6. QED
  BY <1>2, <1>4, <1>5

LEMMA DocumentsToSave ==
    ASSUME NEW o \in Orders
    PROVE  Fills(SeedEnterpriseDocuments(o), Documents(o))
<1>1. DOMAIN o = 1..2
  BY DEF Orders
<1>2. PICK D : D = ENTERPRISE_DOCUMENTS_DATA
  OBVIOUS
<1>3. DOMAIN D = 1..3 /\ D[1] = 1 /\ D[2] = 1 /\ D[3] = 2
  BY <1>2 DEF ENTERPRISE_DOCUMENTS_DATA
<1> DEFINE s == [d \in DOMAIN D |-> d]
           f == [i \in DOMAIN s |-> IF D[s[i]] \in DOMAIN o THEN <<s[i]>> ELSE <<>>]
           F == FlattenSeq(f)
<1>4. SeedEnterpriseDocuments(o) =
          [i \in DOMAIN F |-> <<"enterprise_documents", o[D[F[i]]], F[i]>>]
  BY <1>2 DEF SeedEnterpriseDocuments, Those
<1>5. f = [i \in 1..3 |-> f[i]] /\ f[1] = <<1>> /\ f[2] = <<2>> /\ f[3] = <<3>>
  BY <1>1, <1>3
<1> HIDE DEF f, s
<1>6. PICK a, b, c : a = <<1>> /\ b = <<2>> /\ c = <<3>>
  OBVIOUS
<1>7. F = (a \o b) \o c
  BY <1>5, <1>6, FlattenThree
<1>8. a \in Seq(Nat) /\ b \in Seq(Nat) /\ c \in Seq(Nat)
  BY <1>6
<1>9. Len(a) = 1 /\ a[1] = 1 /\ Len(b) = 1 /\ b[1] = 2 /\ Len(c) = 1 /\ c[1] = 3
  BY <1>6
<1>10. PICK x : x = a \o b
  OBVIOUS
<1>11. /\ x \in Seq(Nat) /\ Len(x) = Len(a) + Len(b)
       /\ \A i \in 1..Len(a) : x[i] = a[i]
       /\ \A i \in 1..Len(b) : x[Len(a) + i] = b[i]
  BY <1>8, <1>10
<1>12. Len(x) = 2 /\ x[1] = 1 /\ x[2] = 2
  BY <1>9, <1>11
<1>13. F = x \o c
  BY <1>7, <1>10
<1>14. x \in Seq(Nat)
  BY <1>11
<1> HIDE DEF F
<1>15. /\ F \in Seq(Nat) /\ Len(F) = Len(x) + Len(c)
       /\ \A i \in 1..Len(x) : F[i] = x[i]
       /\ \A i \in 1..Len(c) : F[Len(x) + i] = c[i]
  BY <1>8, <1>13, <1>14
<1>16. DOMAIN F = 1..Len(F)
  BY <1>15
<1>17. Len(F) = 3
  BY <1>9, <1>12, <1>15
<1>18. F[1] = 1 /\ F[2] = 2
  BY <1>12, <1>15
<1>19. F[3] = 3
  BY <1>9, <1>12, <1>15
<1>20. PICK r : r = SeedEnterpriseDocuments(o)
  OBVIOUS
<1>21. r = [i \in 1..3 |-> r[i]]
  BY <1>4, <1>16, <1>17, <1>20
<1>22. /\ r[1] = <<"enterprise_documents", o[1], 1>>
       /\ r[2] = <<"enterprise_documents", o[1], 2>>
       /\ r[3] = <<"enterprise_documents", o[2], 3>>
  BY <1>3, <1>4, <1>16, <1>17, <1>18, <1>19, <1>20
<1>23. Documents(o) = {r[i] : i \in 1..3}
  BY <1>22 DEF Documents
<1>24. Fills(r, {r[i] : i \in 1..3})
  BY <1>21, 3 \in Nat, FillsFunction
<1>25. QED
  BY <1>20, <1>23, <1>24

\* Two enterprises come in one of two orders.
LEMMA AnyOrderIs ==
    ASSUME {r[2] : r \in InTable("enterprises")} = {"techcorp", "globalservices"}
    PROVE  InAnyOrder \subseteq Orders
<1>1. PICK S : S = {"techcorp", "globalservices"}
  OBVIOUS
<1>2. Cardinality(S) = 2
  <2>1. PICK a, b : a = "techcorp" /\ b = "globalservices"
    OBVIOUS
  <2>2. a # b /\ S = {a} \cup {b}
    BY <1>1, <2>1
  <2>3. IsFiniteSet({a}) /\ Cardinality({a}) = 1
    BY FS_Singleton
  <2>4. Cardinality({a} \cup {b}) = 1 + 1
    BY <2>2, <2>3, FS_AddElement
  <2>5. QED
    BY <2>2, <2>4
<1>3. InAnyOrder = {f \in [1..2 -> S] : \A i, j \in 1..2 : i # j => f[i] # f[j]}
  BY <1>1, <1>2 DEF InAnyOrder, SetToSeqs
<1>4. QED
  BY <1>1, <1>3 DEF Orders

-----------------------------------------------------------------------------
(* A seed that completes leaves all its data *)

\* What counts: not the users' channels, which may fail, nor the super admin.
Data(X) ==
    {r \in X : Table(r) # "notification_provider_preferences"}
    \ {SUPER_ADMIN, <<"chatbot_conversations", NULL, 0>>}

\* What the stages up to the incidents make.
Made(i) ==
    IF i = 1 THEN MadePermissions
    ELSE IF i \in {3, 6} THEN {<<"enterprises", EnterpriseAt(i)>>}
    ELSE IF i \in {4, 7} THEN MadeRoles(EnterpriseAt(i))
    ELSE IF i \in {5, 8} THEN MadeUsers(EnterpriseAt(i))
    ELSE IF i = 9 THEN MadeClients
    ELSE IF i = 10 THEN MadeIncidents
    ELSE {}

Done(i) == UNION {Made(j) : j \in 1..(i - 1)}

\* What stage i may make, and what may be there when it begins.
Makes(i) ==
    IF i <= 10 THEN {Made(i)}
    ELSE IF i = 11 THEN {Configs(o) : o \in Orders}
    ELSE {Documents(o) : o \in Orders}

Outcomes(i) ==
    IF i <= 11 THEN {Done(i)}
    ELSE IF i = 12 THEN {Done(11) \cup Configs(o) : o \in Orders}
    ELSE {Done(11) \cup Configs(o) \cup Documents(p) : o \in Orders, p \in Orders}

CleanedTables == {CleanDatabase[k] : k \in 1..10}

KnownRow(r) ==
    \/ Table(r) \in CleanedTables \cup {"messages", "notifications"}
    \/ r \in {<<"chatbot_conversations", "techcorp", 1>>, <<"chatbot_conversations", NULL, 0>>}

Known == \A r \in db : KnownRow(r)

Emptied ==
    at.phase = "clean" =>
        \A k \in 1..10 : k < at.i => InTable(CleanDatabase[k]) \subseteq {SUPER_ADMIN}

Reading ==
    at.phase = "read" =>
        /\ at.i \in 1..12
        /\ Data(db) \in Outcomes(at.i)
        /\ at.i > 1 => permissions = PermissionNames
        /\ at.i > 2 => SUPER_ADMIN \in db

\* The permissions that are left are the last of the line.
Lined ==
    /\ Len(rest) <= 3
    /\ \A j \in 1..Len(rest) : rest[j] = Line[3 - Len(rest) + j]
    /\ permissions = {Line[j][2] : j \in 1..(3 - Len(rest))}

Saving ==
    at.phase = "save" =>
        /\ at.i \in 1..12
        /\ rest \in Seq(ToSet(rest))
        /\ \E O \in Outcomes(at.i), M \in Makes(at.i) :
              /\ O \subseteq db
              /\ Data(ToSet(rest)) \subseteq M
              /\ Data(db) \cup Data(ToSet(rest)) = O \cup M
        /\ <<"chatbot_conversations", NULL, 0>> \notin ToSet(rest)
        /\ IF at.i = 1 THEN Lined ELSE permissions = PermissionNames
        /\ at.i = 2 => SUPER_ADMIN \in db \cup ToSet(rest)
        /\ at.i > 2 => SUPER_ADMIN \in db

Whole == SUPER_ADMIN \in db /\ Data(db) \in Outcomes(13)

Completed == ended = "completed" => at = Idle /\ Whole

WholeInv == Known /\ Emptied /\ Reading /\ Saving /\ Completed

\* What counts of two sets of rows.
LEMMA DataUnion == \A X, Y : Data(X \cup Y) = Data(X) \cup Data(Y)
  BY DEF Data

LEMMA DataWithin == \A X : Data(X) \subseteq X
  BY DEF Data

\* The tables of the rows each stage makes.
LEMMA ChannelTable ==
    \A e, u : \A r \in Channels(e, u) : Table(r) = "notification_provider_preferences"
  BY DEF Channels, Table

LEMMA RoleTables ==
    \A e : \A r \in MadeRoles(e) : Table(r) \in {"roles", "role_permission"}
  BY DEF MadeRoles, Table

LEMMA UserTables ==
    \A e : \A r \in MadeUsers(e) : Table(r) \in {"users", "user_roles"} /\ r # SUPER_ADMIN
<1> SUFFICES ASSUME NEW e, NEW r \in MadeUsers(e)
             PROVE  Table(r) \in {"users", "user_roles"} /\ r # SUPER_ADMIN
  OBVIOUS
<1>1. CASE \E u \in 1..2 : r = <<"users", e, u>>
  BY <1>1 DEF Table, SUPER_ADMIN
<1>2. CASE \E u \in 1..2 : r = <<"user_roles", e, u, u>>
  BY <1>2 DEF Table, SUPER_ADMIN
<1>3. QED
  BY <1>1, <1>2 DEF MadeUsers

LEMMA ConfigTable == \A o : \A r \in Configs(o) : Table(r) = "enterprise_config"
  BY DEF Configs, Table

LEMMA DocumentTable == \A o : \A r \in Documents(o) : Table(r) = "enterprise_documents"
  BY DEF Documents, Table

LEMMA OtherTables ==
    /\ \A r \in MadePermissions : Table(r) = "permissions"
    /\ \A e : Table(<<"enterprises", e>>) = "enterprises"
    /\ \A r \in MadeClients : Table(r) = "users" /\ r # SUPER_ADMIN
    /\ \A r \in MadeIncidents : Table(r) = "incidencias"
<1>1. \A r \in MadePermissions : Table(r) = "permissions"
  BY DEF MadePermissions, Table
<1>2. \A e : Table(<<"enterprises", e>>) = "enterprises"
  BY DEF Table
<1>3. \A r \in MadeClients : Table(r) = "users" /\ r # SUPER_ADMIN
  BY DEF MadeClients, Table, SUPER_ADMIN
<1>4. \A r \in MadeIncidents : Table(r) = "incidencias"
  BY DEF MadeIncidents, Table
<1>5. QED
  BY <1>1, <1>2, <1>3, <1>4

LEMMA SpecialTables ==
    /\ Table(SUPER_ADMIN) = "users"
    /\ Table(<<"chatbot_conversations", NULL, 0>>) = "chatbot_conversations"
  BY DEF Table, SUPER_ADMIN

\* The tables of what a stage up to the incidents makes.
LEMMA MadeTables ==
    ASSUME NEW i \in 1..10, NEW r \in Made(i)
    PROVE  /\ r # SUPER_ADMIN
           /\ Table(r) = "permissions" <=> i = 1
           /\ Table(r) = "enterprises" <=> i \in {3, 6}
           /\ Table(r) = "incidencias" <=> i = 10
           /\ Table(r) \in {"roles", "role_permission"} <=> i \in {4, 7}
           /\ Table(r) \in {"users", "user_roles", "permissions", "enterprises", "incidencias",
                            "roles", "role_permission"}
<1>1. CASE i = 1
  BY <1>1, OtherTables, SpecialTables DEF Made
<1>2. CASE i = 2
  BY <1>2 DEF Made
<1>3. CASE i \in {3, 6}
  <2>1. r = <<"enterprises", EnterpriseAt(i)>>
    BY <1>3 DEF Made
  <2>2. QED
    BY <1>3, <2>1, OtherTables, SpecialTables
<1>4. CASE i \in {4, 7}
  <2>1. r \in MadeRoles(EnterpriseAt(i))
    BY <1>4 DEF Made
  <2>2. QED
    BY <1>4, <2>1, RoleTables, SpecialTables
<1>5. CASE i \in {5, 8}
  <2>1. r \in MadeUsers(EnterpriseAt(i))
    BY <1>5 DEF Made
  <2>2. QED
    BY <1>5, <2>1, UserTables
<1>6. CASE i = 9
  BY <1>6, OtherTables DEF Made
<1>7. CASE i = 10
  BY <1>7, OtherTables, SpecialTables DEF Made
<1>8. QED
  BY <1>1, <1>2, <1>3, <1>4, <1>5, <1>6, <1>7

\* The tables of what any stage makes.
LEMMA MakesTables ==
    ASSUME NEW i \in 1..12, NEW M \in Makes(i), NEW r \in M
    PROVE  /\ r # SUPER_ADMIN
           /\ Table(r) = "permissions" => i = 1
           /\ Table(r) = "incidencias" => i = 10
           /\ Table(r) \in {"users", "user_roles", "permissions", "enterprises", "incidencias",
                            "roles", "role_permission", "enterprise_config",
                            "enterprise_documents"}
<1>1. CASE i <= 10
  <2>1. i \in 1..10 /\ r \in Made(i)
    BY <1>1 DEF Makes
  <2>2. QED
    BY <2>1, MadeTables
<1>2. CASE i = 11
  <2>1. \E o \in Orders : r \in Configs(o)
    BY <1>2 DEF Makes
  <2>2. Table(r) = "enterprise_config"
    BY <2>1, ConfigTable
  <2>3. QED
    BY <2>2, SpecialTables
<1>3. CASE i = 12
  <2>1. \E o \in Orders : r \in Documents(o)
    BY <1>3 DEF Makes
  <2>2. Table(r) = "enterprise_documents"
    BY <2>1, DocumentTable
  <2>3. QED
    BY <2>2, SpecialTables
<1>4. QED
  BY <1>1, <1>2, <1>3

\* All that a stage makes counts.
LEMMA MakesIsData ==
    ASSUME NEW i \in 1..12, NEW M \in Makes(i)
    PROVE  Data(M) = M
<1>1. \A r \in M : /\ r # SUPER_ADMIN
                   /\ Table(r) # "notification_provider_preferences"
                   /\ Table(r) # "chatbot_conversations"
  BY MakesTables
<1>2. QED
  BY <1>1, SpecialTables DEF Data

\* One stage more.
LEMMA DoneGrows ==
    /\ Done(1) = {}
    /\ \A i \in 1..11 : Done(i + 1) = Done(i) \cup Made(i)
<1>1. Done(1) = {}
  BY DEF Done
<1>2. ASSUME NEW i \in 1..11
      PROVE  Done(i + 1) = Done(i) \cup Made(i)
  <2>1. 1..((i + 1) - 1) = 1..(i - 1) \cup {i}
    BY <1>2
  <2>2. QED
    BY <2>1 DEF Done
<1>3. QED
  BY <1>1, <1>2

LEMMA MadeIsDone == \A i \in 1..12 : \A j \in 1..(i - 1) : Made(j) \subseteq Done(i)
  BY DEF Done

\* What was there and what the stage makes is what the next one may find.
LEMMA OutcomesGrow ==
    ASSUME NEW i \in 1..12, NEW O \in Outcomes(i), NEW M \in Makes(i)
    PROVE  O \cup M \in Outcomes(i + 1)
<1>1. CASE i <= 10
  <2>1. O = Done(i) /\ M = Made(i) /\ i + 1 <= 11
    BY <1>1 DEF Outcomes, Makes
  <2>2. O \cup M = Done(i + 1)
    BY <1>1, <2>1, DoneGrows
  <2>3. QED
    BY <2>1, <2>2 DEF Outcomes
<1>2. CASE i = 11
  BY <1>2 DEF Outcomes, Makes
<1>3. CASE i = 12
  <2>1. PICK o \in Orders : O = Done(11) \cup Configs(o)
    BY <1>3 DEF Outcomes
  <2>2. PICK p \in Orders : M = Documents(p)
    BY <1>3 DEF Makes
  <2>3. O \cup M = Done(11) \cup Configs(o) \cup Documents(p)
    BY <2>1, <2>2
  <2>4. ~ (i + 1 <= 11) /\ i + 1 # 12
    BY <1>3
  <2>5. QED
    BY <2>3, <2>4 DEF Outcomes
<1>4. QED
  BY <1>1, <1>2, <1>3

\* What there is when a stage begins.
LEMMA OutcomeHas ==
    ASSUME NEW i \in 1..13, NEW O \in Outcomes(i)
    PROVE  \A j \in 1..10 : j < i => Made(j) \subseteq O
<1>1. CASE i <= 11
  <2>1. O = Done(i)
    BY <1>1 DEF Outcomes
  <2>2. QED
    BY <1>1, <2>1, MadeIsDone
<1>2. CASE i > 11
  <2>1. Done(11) \subseteq O
    BY <1>2 DEF Outcomes
  <2>2. QED
    BY <2>1, MadeIsDone
<1>3. QED
  BY <1>1, <1>2

\* What is to be saved at each kind of stage.
LEMMA ToSaveIs ==
    ASSUME NEW i
    PROVE  /\ Stages[i] = "permissions" => ToSave(i) = {SeedPermissions}
           /\ Stages[i] = "superAdmin" => ToSave(i) = {SeedSuperAdmin}
           /\ Stages[i] = "enterprise" => ToSave(i) = {<< <<"enterprises", EnterpriseAt(i)>> >>}
           /\ Stages[i] = "roles" => ToSave(i) = {SeedRolesForEnterprise(EnterpriseAt(i))}
           /\ Stages[i] = "users" => ToSave(i) = {SeedUsersForEnterprise(EnterpriseAt(i))}
           /\ Stages[i] = "clients" => ToSave(i) = {SeedCustomClients}
           /\ Stages[i] = "incidencias" => ToSave(i) = {SeedIncidencias}
           /\ Stages[i] = "configs" => ToSave(i) = {SeedEnterpriseConfigs(o) : o \in InAnyOrder}
           /\ Stages[i] = "documents" =>
                 ToSave(i) = {SeedEnterpriseDocuments(o) : o \in InAnyOrder}
<1>1. PICK s : s = Stages[i]
  OBVIOUS
<1>2. s = "permissions" => ToSave(i) = {SeedPermissions}
  BY <1>1, Zenon DEF ToSave
<1>3. s = "superAdmin" => ToSave(i) = {SeedSuperAdmin}
  BY <1>1, Zenon DEF ToSave
<1>4. s = "enterprise" => ToSave(i) = {<< <<"enterprises", EnterpriseAt(i)>> >>}
  BY <1>1, Zenon DEF ToSave
<1>5. s = "roles" => ToSave(i) = {SeedRolesForEnterprise(EnterpriseAt(i))}
  BY <1>1, Zenon DEF ToSave
<1>6. s = "users" => ToSave(i) = {SeedUsersForEnterprise(EnterpriseAt(i))}
  BY <1>1, Zenon DEF ToSave
<1>7. s = "clients" => ToSave(i) = {SeedCustomClients}
  BY <1>1, Zenon DEF ToSave
<1>8. s = "incidencias" => ToSave(i) = {SeedIncidencias}
  BY <1>1, Zenon DEF ToSave
<1>9. s = "configs" => ToSave(i) = {SeedEnterpriseConfigs(o) : o \in InAnyOrder}
  BY <1>1, Zenon DEF ToSave
<1>10. s = "documents" => ToSave(i) = {SeedEnterpriseDocuments(o) : o \in InAnyOrder}
  BY <1>1, Zenon DEF ToSave
<1>11. QED
  BY <1>1, <1>2, <1>3, <1>4, <1>5, <1>6, <1>7, <1>8, <1>9, <1>10

\* The rows of a table that are data.
LEMMA DataInTable ==
    ASSUME NEW t, t # "notification_provider_preferences", t # "users",
           t # "chatbot_conversations"
    PROVE  InTable(t) = {r \in Data(db) : Table(r) = t}
  BY SpecialTables DEF InTable, Data

\* The roles of an enterprise whose users are to be made.
LEMMA RolesThen ==
    ASSUME NEW i \in {5, 8}, Data(db) = Done(i)
    PROVE  LET e == EnterpriseAt(i) IN
           {r \in InTable("roles") : r[2] = e} = {<<"roles", e, 1>>, <<"roles", e, 2>>}
<1>1. PICK e : e = EnterpriseAt(i)
  OBVIOUS
<1>2. InTable("roles") = {r \in Done(i) : Table(r) = "roles"}
  BY DataInTable
<1>3. ASSUME NEW r \in InTable("roles"), r[2] = e
      PROVE  r \in {<<"roles", e, 1>>, <<"roles", e, 2>>}
  <2>1. PICK j \in 1..(i - 1) : r \in Made(j)
    BY <1>2, <1>3 DEF Done
  <2>2. Table(r) = "roles"
    BY <1>2, <1>3
  <2>3. j \in {4, 7}
    BY <2>1, <2>2, MadeTables
  <2>4. r \in MadeRoles(EnterpriseAt(j))
    BY <2>1, <2>3 DEF Made
  <2>5. PICK n \in 1..2 : r = <<"roles", EnterpriseAt(j), n>>
    BY <2>2, <2>4 DEF MadeRoles, Table
  <2>6. EnterpriseAt(j) = e
    BY <1>3, <2>5
  <2>7. QED
    BY <2>5, <2>6
<1>4. ASSUME NEW n \in 1..2
      PROVE  <<"roles", e, n>> \in InTable("roles")
  <2>1. <<"roles", e, n>> \in MadeRoles(e)
    BY DEF MadeRoles
  <2>2. EnterpriseAt(i - 1) = e
    BY <1>1, EnterprisesAt
  <2>3. Made(i - 1) = MadeRoles(e)
    BY <2>2 DEF Made
  <2>4. <<"roles", e, n>> \in Done(i)
    BY <2>1, <2>3, MadeIsDone
  <2>5. QED
    BY <1>2, <2>4 DEF Table
<1>5. \A n : <<"roles", e, n>>[2] = e
  OBVIOUS
<1>6. QED
  BY <1>1, <1>3, <1>4, <1>5

\* The enterprises, once all are made.
LEMMA EnterprisesThen ==
    ASSUME NEW i \in 10..12, NEW O \in Outcomes(i), Data(db) = O
    PROVE  InTable("enterprises") =
               {<<"enterprises", "techcorp">>, <<"enterprises", "globalservices">>}
<1>1. InTable("enterprises") = {r \in O : Table(r) = "enterprises"}
  BY DataInTable
<1>2. ASSUME NEW r \in O, Table(r) = "enterprises"
      PROVE  r \in {<<"enterprises", "techcorp">>, <<"enterprises", "globalservices">>}
  <2>1. \/ r \in Done(i) /\ i <= 11
        \/ r \in Done(11)
        \/ \E o \in Orders : r \in Configs(o)
    BY <1>2 DEF Outcomes
  <2>2. (r \in Done(i) /\ i <= 11) \/ r \in Done(11)
    BY <1>2, <2>1, ConfigTable
  <2>3. PICK j \in 1..10 : r \in Made(j)
    BY <2>2 DEF Done
  <2>4. j \in {3, 6}
    BY <1>2, <2>3, MadeTables
  <2>5. QED
    BY <2>3, <2>4, EnterprisesAt DEF Made
<1>3. Made(3) \subseteq O /\ Made(6) \subseteq O
  BY OutcomeHas
<1>4. Made(3) = {<<"enterprises", "techcorp">>} /\ Made(6) = {<<"enterprises", "globalservices">>}
  BY EnterprisesAt DEF Made
<1>5. QED
  BY <1>1, <1>2, <1>3, <1>4, OtherTables

\* The query for the enterprises then has them in one of the two orders.
LEMMA OrdersThen ==
    ASSUME InTable("enterprises") =
               {<<"enterprises", "techcorp">>, <<"enterprises", "globalservices">>}
    PROVE  InAnyOrder \subseteq Orders
<1>1. {r[2] : r \in InTable("enterprises")} = {"techcorp", "globalservices"}
  <2>1. /\ <<"enterprises", "techcorp">>[2] = "techcorp"
        /\ <<"enterprises", "globalservices">>[2] = "globalservices"
    OBVIOUS
  <2>2. QED
    BY <2>1
<1>2. QED
  BY <1>1, AnyOrderIs

\* What fills the rows to save is, the channels apart, what the stage makes.
LEMMA FillsData ==
    ASSUME NEW i \in 1..12, NEW M \in Makes(i), NEW C, NEW s, Fills(s, M \cup C),
           \A r \in C : Table(r) = "notification_provider_preferences"
    PROVE  /\ s \in Seq(ToSet(s))
           /\ Data(ToSet(s)) = M
           /\ <<"chatbot_conversations", NULL, 0>> \notin ToSet(s)
<1>1. ToSet(s) = M \cup C /\ s \in Seq(ToSet(s))
  BY DEF Fills
<1>2. Data(C) = {}
  BY DEF Data
<1>3. Data(M \cup C) = M
  <2>1. PICK A : A = Data(M)
    OBVIOUS
  <2>2. A = M
    BY <2>1, MakesIsData
  <2>3. Data(M \cup C) = A \cup Data(C)
    BY <2>1, DataUnion, Zenon
  <2>4. QED
    BY <1>2, <2>2, <2>3
<1>4. \A r \in M \cup C : Table(r) # "chatbot_conversations"
  BY MakesTables
<1>5. QED
  BY <1>1, <1>3, <1>4, SpecialTables

\* A sequence is one of its own elements.
LEMMA ElementsMakeIt ==
    ASSUME NEW S, NEW t \in Seq(S)
    PROVE  t \in Seq(ToSet(t))
<1>1. PICK n : n = Len(t)
  OBVIOUS
<1>2. n \in Nat /\ t \in [1..n -> S]
  BY <1>1
<1>3. t = [j \in 1..n |-> t[j]] /\ DOMAIN t = 1..n
  BY <1>2
<1>4. Fills(t, {t[j] : j \in 1..n})
  BY <1>2, <1>3, FillsFunction
<1>5. QED
  BY <1>3, <1>4 DEF Fills, ToSet

\* What is left of the rows to save once the first k are gone.
LEMMA RestOf ==
    ASSUME NEW s, s \in Seq(ToSet(s)), NEW k \in 1..Len(s), NEW t,
           t = SubSeq(s, k + 1, Len(s))
    PROVE  /\ t \in Seq(ToSet(t))
           /\ Len(t) = Len(s) - k
           /\ \A j \in 1..Len(t) : t[j] = s[k + j]
           /\ ToSet(s) = {s[j] : j \in 1..k} \cup ToSet(t)
<1>1. PICK S, n : S = ToSet(s) /\ n = Len(s)
  OBVIOUS
<1>2. s \in Seq(S) /\ DOMAIN s = 1..n /\ n \in Nat
  BY <1>1
<1>3. S = {s[j] : j \in 1..n}
  BY <1>1, <1>2 DEF ToSet
<1>4. k \in 1..n /\ t = SubSeq(s, k + 1, n)
  BY <1>1
<1>5. /\ k + 1 \in Int /\ n \in Int
      /\ \A j \in (k + 1)..n : j \in 1..n
      /\ n - (k + 1) + 1 = n - k
      /\ ~ (k + 1 <= n) => n - k = 0
      /\ \A j \in 1..(n - k) : (k + 1) + j - 1 = k + j /\ k + j \in 1..n
      /\ \A j \in 1..n : ~ (j <= k) => j - k \in 1..(n - k) /\ k + (j - k) = j
      /\ \A j \in 1..k : j \in 1..n
  <2>1. k \in Int /\ n \in Int /\ 1 <= k /\ k <= n
    BY <1>2, <1>4
  <2>2. QED
    BY <2>1
<1>6. \A j \in (k + 1)..n : s[j] \in S
  BY <1>3, <1>5
<1>7. /\ t \in Seq(S)
      /\ Len(t) = IF k + 1 <= n THEN n - (k + 1) + 1 ELSE 0
      /\ \A j \in 1..(n - (k + 1) + 1) : t[j] = s[(k + 1) + j - 1]
  BY <1>4, <1>5, <1>6, SubSeqProperties
<1>8. Len(t) = n - k /\ \A j \in 1..(n - k) : t[j] = s[k + j]
  BY <1>5, <1>7
<1>9. DOMAIN t = 1..(n - k)
  BY <1>7, <1>8
<1>10. ToSet(t) = {t[j] : j \in 1..(n - k)}
  BY <1>9 DEF ToSet
<1>11. t \in Seq(ToSet(t))
  <2>1. t \in Seq(S)
    BY <1>7
  <2>2. QED
    BY <2>1, ElementsMakeIt, Zenon
<1>12. S \subseteq {s[j] : j \in 1..k} \cup ToSet(t)
  <2>1. SUFFICES ASSUME NEW j \in 1..n, ~ (j <= k)
                 PROVE  s[j] \in ToSet(t)
    BY <1>3, <1>4
  <2>2. j - k \in 1..(n - k) /\ s[j] = t[j - k]
    BY <1>5, <1>8, <2>1
  <2>3. QED
    BY <1>10, <2>2
<1>13. {s[j] : j \in 1..k} \cup ToSet(t) \subseteq S
  BY <1>3, <1>5, <1>8, <1>10
<1>14. QED
  BY <1>1, <1>8, <1>11, <1>12, <1>13

\* The same for the first row.
LEMMA HeadTail ==
    ASSUME NEW s, s \in Seq(ToSet(s)), s # <<>>
    PROVE  /\ 1 \in 1..Len(s) /\ Head(s) = s[1]
           /\ Tail(s) \in Seq(ToSet(Tail(s)))
           /\ Len(Tail(s)) = Len(s) - 1
           /\ \A j \in 1..Len(Tail(s)) : Tail(s)[j] = s[1 + j]
           /\ ToSet(s) = {Head(s)} \cup ToSet(Tail(s))
<1>1. PICK S : S = ToSet(s)
  OBVIOUS
<1>2. s \in Seq(S) /\ 1 \in 1..Len(s) /\ Head(s) = s[1]
  BY <1>1
<1>3. PICK k, t : k = 1 /\ t = Tail(s)
  OBVIOUS
<1>4. k \in 1..Len(s) /\ t = SubSeq(s, k + 1, Len(s))
  BY <1>2, <1>3
<1>5. s \in Seq(ToSet(s))
  OBVIOUS
<1>6. /\ t \in Seq(ToSet(t)) /\ Len(t) = Len(s) - k
      /\ \A j \in 1..Len(t) : t[j] = s[k + j]
      /\ ToSet(s) = {s[j] : j \in 1..k} \cup ToSet(t)
  BY <1>4, <1>5, RestOf, Zenon
<1>7. {s[j] : j \in 1..k} = {s[1]}
  BY <1>3
<1>8. QED
  BY <1>2, <1>3, <1>6, <1>7

\* In the phase of saving the seed is at one of its stages.
LEMMA NotIdle == at.phase # "idle" => at # Idle
  BY DEF Idle

\* The tables that are cleaned, as a set.
LEMMA KnownTables ==
    CleanedTables = {"enterprise_documents", "enterprise_config", "incidencias",
                     "notification_provider_preferences", "user_roles", "users",
                     "role_permission", "roles", "permissions", "enterprises"}
<1>1. \A k \in 1..10 : CleanDatabase[k] \in
         {"enterprise_documents", "enterprise_config", "incidencias",
          "notification_provider_preferences", "user_roles", "users",
          "role_permission", "roles", "permissions", "enterprises"}
  BY CleanOrder
<1>2. /\ CleanDatabase[1] = "enterprise_documents" /\ CleanDatabase[2] = "enterprise_config"
      /\ CleanDatabase[3] = "incidencias"
      /\ CleanDatabase[4] = "notification_provider_preferences"
      /\ CleanDatabase[5] = "user_roles" /\ CleanDatabase[6] = "users"
      /\ CleanDatabase[7] = "role_permission" /\ CleanDatabase[8] = "roles"
      /\ CleanDatabase[9] = "permissions" /\ CleanDatabase[10] = "enterprises"
  BY CleanOrder
<1>3. QED
  BY <1>1, <1>2 DEF CleanedTables

\* While permissions are saved the next row is the next of the line.
LEMMA FirstLine ==
    ASSUME Lined, rest \in Seq(ToSet(rest)), rest # <<>>
    PROVE  /\ Len(rest) \in 1..3 /\ Head(rest) = Line[4 - Len(rest)]
           /\ Head(rest) \in MadePermissions /\ Table(Head(rest)) = "permissions"
<1>1. 1 \in 1..Len(rest) /\ Head(rest) = rest[1] /\ Len(rest) \in Nat
  BY HeadTail
<1>6. PICK n : n = Len(rest)
  OBVIOUS
<1>2. n \in 1..3 /\ Head(rest) = Line[3 - n + 1]
  <2>1. n <= 3 /\ \A j \in 1..n : rest[j] = Line[3 - n + j]
    BY <1>6 DEF Lined
  <2>2. n \in Nat /\ 1 \in 1..n /\ Head(rest) = rest[1]
    BY <1>1, <1>6
  <2>3. n \in 1..3
    BY <2>1, <2>2
  <2>4. QED
    BY <2>1, <2>2, <2>3
<1>3. 3 - n + 1 = 4 - n /\ 4 - n \in 1..3
  BY <1>2
<1>4. \A j \in 1..3 : Line[j] \in MadePermissions
  <2>1. /\ "readDashboard" \in PermissionNames /\ "manageIncidents" \in PermissionNames
        /\ "editIncidents" \in PermissionNames
    BY DEF PermissionNames
  <2>2. Line[1] \in MadePermissions /\ Line[2] \in MadePermissions
        /\ Line[3] \in MadePermissions
    BY <2>1, LineIs DEF MadePermissions
  <2>3. QED
    BY <2>2
<1>5. QED
  BY <1>2, <1>3, <1>4, <1>6, OtherTables

\* No row that counts is passed over.
LEMMA NotPassed ==
    ASSUME at.phase = "save", Saving, rest # <<>>,
           NEW O \in Outcomes(at.i), O \subseteq db,
           NEW M \in Makes(at.i), Head(rest) \in M \cup {SUPER_ADMIN},
           Head(rest) = SUPER_ADMIN => at.i = 2
    PROVE  ~ PassedOver(Head(rest))
<1>1. PICK r, i : r = Head(rest) /\ i = at.i
  OBVIOUS
<1>2. i \in 1..12 /\ rest \in Seq(ToSet(rest)) /\ (i = 1 => Lined)
  BY <1>1 DEF Saving
<1>3. ASSUME Table(r) = "permissions",
             NEW k \in DOMAIN PERMISSIONS_DATA, PERMISSIONS_DATA[k].name = r[2],
             PERMISSIONS_DATA[k].parent # NULL, PERMISSIONS_DATA[k].parent \notin permissions
      PROVE  FALSE
  <2>1. r # SUPER_ADMIN
    BY <1>3, SpecialTables
  <2>2. i = 1 /\ Lined
    BY <1>1, <1>2, <1>3, <2>1, MakesTables
  <2>3. DOMAIN PERMISSIONS_DATA = 1..3
    BY DEF PERMISSIONS_DATA
  <2>4. k = 1
    BY <1>3, <2>3 DEF PERMISSIONS_DATA
  <2>5. r[2] = "editIncidents" /\ "manageIncidents" \notin permissions
    BY <1>3, <2>4 DEF PERMISSIONS_DATA
  <2>6. PICK n : n = Len(rest)
    OBVIOUS
  <2>7. n \in 1..3 /\ r = Line[4 - n]
    BY <1>1, <1>2, <2>2, <2>6, FirstLine
  <2>8. n = 1
    <3>1. n = 2 => r = Line[2]
      BY <2>7
    <3>2. n = 3 => r = Line[1]
      BY <2>7
    <3>3. QED
      BY <2>5, <2>7, <3>1, <3>2, LineIs
  <2>9. permissions = {Line[j][2] : j \in 1..2}
    BY <2>2, <2>6, <2>8 DEF Lined
  <2>10. Line[2][2] = "manageIncidents"
    BY LineIs
  <2>11. QED
    BY <2>5, <2>9, <2>10
<1>4. ASSUME Stages[i] = "clients", <<"enterprises", r[2]>> \notin db
      PROVE  FALSE
  <2>1. i = 9
    BY <1>2, <1>4, StagesAre
  <2>2. M = MadeClients
    BY <1>1, <2>1 DEF Makes, Made
  <2>3. r = <<"users", "techcorp", 3>>
    BY <1>1, <2>1, <2>2 DEF MadeClients
  <2>4. Made(3) \subseteq O
    BY <1>1, <2>1, OutcomeHas
  <2>5. Made(3) = {<<"enterprises", "techcorp">>}
    BY EnterprisesAt DEF Made
  <2>6. QED
    BY <1>4, <2>3, <2>4, <2>5
<1>5. ASSUME Table(r) = "incidencias", r[3] # 0, <<"users", r[2], r[3]>> \notin db
      PROVE  FALSE
  <2>1. i = 10
    BY <1>1, <1>2, <1>5, MakesTables, SpecialTables
  <2>2. M = MadeIncidents
    BY <1>1, <2>1 DEF Makes, Made
  <2>3. r \in MadeIncidents
    BY <1>1, <1>5, <2>2, SpecialTables
  <2>4. r[2] = "techcorp" /\ r[3] = 3
    BY <1>5, <2>3 DEF MadeIncidents
  <2>5. Made(9) \subseteq O
    BY <1>1, <2>1, OutcomeHas
  <2>6. Made(9) = {<<"users", "techcorp", 3>>}
    BY DEF Made, MadeClients
  <2>7. QED
    BY <1>5, <2>4, <2>5, <2>6
<1>6. QED
  BY <1>1, <1>3, <1>4, <1>5 DEF PassedOver

\* While rows are saved only they and what is known are at stake.
LEMMA SavingIsAll ==
    ASSUME WholeInv, at.phase = "save", UNCHANGED <<at, ended>>, Known', Saving'
    PROVE  WholeInv'
<1>1. ended # "completed"
  BY DEF WholeInv, Completed, Idle
<1>2. QED
  BY <1>1 DEF WholeInv, Emptied, Reading, Completed

\* ... and is in memory once it is saved.
LEMMA PermissionsNext ==
    ASSUME Lined, rest \in Seq(ToSet(rest)), rest # <<>>, rest' = Tail(rest),
           permissions' = permissions \cup {Head(rest)[2]}
    PROVE  Lined'
<1>1. PICK n : n = Len(rest)
  OBVIOUS
<1>2. PICK m, t : m = Len(t) /\ t = rest'
  OBVIOUS
<1>3. /\ n \in 1..3 /\ Head(rest) = Line[4 - n]
      /\ \A j \in 1..n : rest[j] = Line[3 - n + j]
      /\ permissions = {Line[j][2] : j \in 1..(3 - n)}
  BY <1>1, FirstLine DEF Lined
<1>4. m = n - 1 /\ \A j \in 1..m : t[j] = rest[1 + j]
  BY <1>1, <1>2, HeadTail
<1>5. \A j \in 1..m : 1 + j \in 1..n /\ 3 - n + (1 + j) = 3 - m + j
  BY <1>3, <1>4
<1>6. \A j \in 1..m : t[j] = Line[3 - m + j]
  BY <1>3, <1>4, <1>5
<1>7. 1..(3 - m) = 1..(3 - n) \cup {4 - n}
  BY <1>3, <1>4
<1>8. permissions' = {Line[j][2] : j \in 1..(3 - m)}
  BY <1>3, <1>7
<1>9. m <= 3
  BY <1>3, <1>4
<1>10. QED
  BY <1>2, <1>6, <1>8, <1>9 DEF Lined

\* A row that counts is saved, or was not to be; nothing that counts is lost
\* between the rows to save and the tables.
LEMMA SaveRowKeepsWhole ==
    ASSUME WholeInv, SaveRow
    PROVE  WholeInv'
<1>1. PICK r, i, R, T : r = Head(rest) /\ i = at.i /\ R = ToSet(rest) /\ T = ToSet(Tail(rest))
  OBVIOUS
<1>2. PICK chat : chat = <<"chatbot_conversations", NULL, 0>>
  OBVIOUS
<1>3. PICK O, M :
        /\ O \in Outcomes(i) /\ M \in Makes(i) /\ O \subseteq db /\ Data(R) \subseteq M
        /\ Data(db) \cup Data(R) = O \cup M
  BY <1>1 DEF WholeInv, Saving, SaveRow
<1>4. /\ at.phase = "save" /\ i \in 1..12 /\ rest # <<>> /\ rest \in Seq(R)
      /\ chat \notin R
      /\ i = 1 => Lined
      /\ i # 1 => permissions = PermissionNames
      /\ i = 2 => SUPER_ADMIN \in db \cup R
      /\ i > 2 => SUPER_ADMIN \in db
  BY <1>1, <1>2 DEF WholeInv, Saving, SaveRow
<1>5. /\ rest' = Tail(rest) /\ UNCHANGED <<at, ended>>
      /\ IF PassedOver(r) THEN UNCHANGED <<db, permissions>>
         ELSE /\ r \notin db \/ Table(r) \notin UniqueTables
              /\ db' = db \cup {r}
              /\ permissions' = IF Table(r) = "permissions" THEN permissions \cup {r[2]}
                                                            ELSE permissions
  BY <1>1 DEF SaveRow, MayBeSaved
<1>6. Tail(rest) \in Seq(T) /\ R = {r} \cup T
  BY <1>1, <1>4, HeadTail
<1>7. Data(R) = Data({r}) \cup Data(T)
  BY <1>6, DataUnion
<1>8. i = 1 => r \in M
  <2>1. i = 1 => r \in MadePermissions
    BY <1>1, <1>4, FirstLine
  <2>2. i = 1 => M = MadePermissions
    BY <1>3 DEF Makes, Made
  <2>3. QED
    BY <2>1, <2>2
<1>9. r \in M => ~ PassedOver(r) /\ Table(r) # "notification_provider_preferences"
  <2>1. ASSUME r \in M
        PROVE  r # SUPER_ADMIN /\ Table(r) # "notification_provider_preferences"
    BY <1>3, <1>4, <2>1, MakesTables
  <2>2. Saving
    BY DEF WholeInv
  <2>3. QED
    BY <1>1, <1>3, <1>4, <2>1, <2>2, NotPassed
<1>10. i = 2 /\ r = SUPER_ADMIN => ~ PassedOver(r)
  <2>1. Saving
    BY DEF WholeInv
  <2>2. QED
    BY <1>1, <1>3, <1>4, <2>1, NotPassed
<1>11. PassedOver(r) => Data({r}) = {}
  <2>1. Data({r}) \subseteq {r} /\ Data({r}) \subseteq M
    BY <1>3, <1>7, DataWithin
  <2>2. QED
    BY <1>9, <2>1
<1>12. PassedOver(r) \/ db' = db \cup {r}
  BY <1>5
<1>13. Data(db') \cup Data(T) = O \cup M
  <2>1. CASE PassedOver(r)
    BY <1>3, <1>5, <1>7, <1>11, <2>1
  <2>2. CASE ~ PassedOver(r)
    <3>1. Data(db') = Data(db) \cup Data({r})
      BY <1>5, <2>2, DataUnion
    <3>2. QED
      BY <1>3, <1>7, <3>1
  <2>3. QED
    BY <2>1, <2>2
<1>14. Table(r) = "permissions" => i = 1
  <2>1. ASSUME Table(r) = "permissions"
        PROVE  i = 1
    <3>1. r \in Data({r})
      BY <2>1, SpecialTables DEF Data
    <3>2. r \in M
      BY <1>3, <1>7, <3>1
    <3>3. QED
      BY <1>3, <1>4, <2>1, <3>2, MakesTables
  <2>2. QED
    BY <2>1
<1>15. ASSUME i = 1
       PROVE  Lined'
  <2>1. ~ PassedOver(r)
    BY <1>8, <1>9, <1>15
  <2>2. Table(r) = "permissions" /\ Lined
    BY <1>1, <1>4, <1>15, FirstLine
  <2>3. permissions' = permissions \cup {r[2]}
    BY <1>5, <2>1, <2>2
  <2>4. Lined'
    BY <1>1, <1>4, <1>5, <2>2, <2>3, PermissionsNext
  <2>5. QED
    BY <2>4
<1>16. i # 1 => permissions' = PermissionNames
  BY <1>4, <1>5, <1>14
<1>17. /\ i = 2 => SUPER_ADMIN \in db' \cup T
       /\ i > 2 => SUPER_ADMIN \in db'
       /\ O \subseteq db' /\ chat \notin T /\ Data(T) \subseteq M
  BY <1>3, <1>4, <1>5, <1>6, <1>7, <1>10
<1>18. KnownRow(r)
  <2>1. CASE r \in Data({r})
    <3>1. r \in M
      BY <1>3, <1>7, <2>1
    <3>2. Table(r) \in CleanedTables
      BY <1>3, <1>4, <3>1, MakesTables, KnownTables
    <3>3. QED
      BY <3>2 DEF KnownRow
  <2>2. CASE r \notin Data({r})
    <3>1. Table(r) = "notification_provider_preferences" \/ r = SUPER_ADMIN \/ r = chat
      BY <1>2, <2>2 DEF Data
    <3>2. r # chat
      BY <1>4, <1>6
    <3>3. Table(r) \in CleanedTables
      BY <3>1, <3>2, SpecialTables, KnownTables
    <3>4. QED
      BY <3>3 DEF KnownRow
  <2>3. QED
    BY <2>1, <2>2
<1>19. Known'
  <2>1. Known
    BY DEF WholeInv
  <2>2. \A q \in db' : q \in db \/ q = r
    BY <1>5
  <2>3. QED
    BY <1>18, <2>1, <2>2 DEF Known, KnownRow
<1>20. at' = at /\ rest' = Tail(rest) /\ ToSet(rest') = T
  BY <1>1, <1>5
<1>21. Saving'
  <2>1. i = 1 => Lined'
    BY <1>15
  <2>2. QED
    BY <1>1, <1>2, <1>3, <1>4, <1>6, <1>13, <1>16, <1>17, <1>20, <2>1 DEF Saving
<1>22. QED
  BY <1>4, <1>5, <1>19, <1>21, SavingIsAll

\* With no row left to save the stage has made what it makes.
LEMMA NextStageKeepsWhole ==
    ASSUME WholeInv, NextStage
    PROVE  WholeInv'
<1>1. PICK i, R : i = at.i /\ R = ToSet(rest)
  OBVIOUS
<1>2. PICK O, M :
        /\ O \in Outcomes(i) /\ M \in Makes(i) /\ O \subseteq db /\ Data(R) \subseteq M
        /\ Data(db) \cup Data(R) = O \cup M
  BY <1>1 DEF WholeInv, Saving, NextStage
<1>3. /\ at.phase = "save" /\ i \in 1..12 /\ rest = <<>>
      /\ i = 1 => Lined
      /\ i # 1 => permissions = PermissionNames
      /\ i = 2 => SUPER_ADMIN \in db \cup R
      /\ i > 2 => SUPER_ADMIN \in db
      /\ Known /\ ended # "completed"
  BY <1>1 DEF WholeInv, Saving, Completed, NextStage, Idle
<1>4. /\ IF i < 12 THEN at' = [phase |-> "read", i |-> i + 1] /\ UNCHANGED ended
         ELSE at' = Idle /\ ended' = "completed"
      /\ UNCHANGED <<db, permissions>>
  BY <1>1, StagesAre DEF NextStage
<1>5. R = {}
  BY <1>1, <1>3 DEF ToSet
<1>6. Data(R) = {}
  BY <1>5, DataWithin
<1>7. Data(db) \in Outcomes(i + 1)
  BY <1>2, <1>3, <1>6, OutcomesGrow
<1>8. i = 1 => permissions = PermissionNames
  <2>1. ASSUME i = 1
        PROVE  permissions = PermissionNames
    <3>1. Len(rest) = 0
      BY <1>3
    <3>2. permissions = {Line[j][2] : j \in 1..3}
      BY <1>3, <2>1, <3>1 DEF Lined
    <3>3. permissions = {Line[1][2], Line[2][2], Line[3][2]}
      BY <3>2
    <3>4. /\ Line[1][2] = "readDashboard" /\ Line[2][2] = "manageIncidents"
          /\ Line[3][2] = "editIncidents"
      BY LineIs
    <3>5. QED
      BY <3>3, <3>4 DEF PermissionNames
  <2>2. QED
    BY <2>1
<1>9. permissions' = PermissionNames
  BY <1>3, <1>4, <1>8
<1>10. i >= 2 => SUPER_ADMIN \in db
  BY <1>3, <1>5
<1>11. Known'
  BY <1>3, <1>4 DEF Known, KnownRow
<1>12. CASE i < 12
  <2>1. at' = [phase |-> "read", i |-> i + 1] /\ ended' = ended /\ db' = db
    BY <1>4, <1>12
  <2>2. at'.phase = "read" /\ at'.i = i + 1
    BY <2>1
  <2>3. Reading'
    <3>1. i + 1 \in 1..12 /\ (i + 1 > 2 => i >= 2)
      BY <1>3, <1>12
    <3>2. QED
      BY <1>7, <1>9, <1>10, <2>1, <2>2, <3>1 DEF Reading
  <2>4. QED
    BY <1>3, <1>11, <2>1, <2>2, <2>3 DEF WholeInv, Emptied, Saving, Completed
<1>13. CASE ~ (i < 12)
  <2>1. i = 12
    BY <1>3, <1>13
  <2>2. at' = Idle /\ db' = db
    BY <1>4, <1>13
  <2>3. Data(db) \in Outcomes(13) /\ SUPER_ADMIN \in db
    BY <1>7, <1>10, <2>1
  <2>4. Whole'
    BY <2>2, <2>3 DEF Whole
  <2>5. QED
    BY <1>11, <2>2, <2>4 DEF WholeInv, Emptied, Reading, Saving, Completed, Idle
<1>14. QED
  BY <1>12, <1>13

\* Channels that are given up do not count.
LEMMA PreferenceFailsKeepsWhole ==
    ASSUME WholeInv, PreferenceFails
    PROVE  WholeInv'
<1>1. PICK i, R, T, h : i = at.i /\ R = ToSet(rest) /\ T = ToSet(rest') /\ h = Head(rest)
  OBVIOUS
<1>2. PICK chat : chat = <<"chatbot_conversations", NULL, 0>>
  OBVIOUS
<1>3. PICK O, M :
        /\ O \in Outcomes(i) /\ M \in Makes(i) /\ O \subseteq db /\ Data(R) \subseteq M
        /\ Data(db) \cup Data(R) = O \cup M
  BY <1>1 DEF WholeInv, Saving, PreferenceFails
<1>4. /\ at.phase = "save" /\ i \in 1..12 /\ rest # <<>> /\ rest \in Seq(R)
      /\ chat \notin R
      /\ i = 1 => Lined
      /\ i # 1 => permissions = PermissionNames
      /\ i = 2 => SUPER_ADMIN \in db \cup R
      /\ i > 2 => SUPER_ADMIN \in db
      /\ Known
  BY <1>1, <1>2 DEF WholeInv, Saving, PreferenceFails
<1>5. /\ Table(h) = "notification_provider_preferences"
      /\ UNCHANGED <<db, at, permissions, ended>>
      /\ \E k \in DOMAIN rest :
            /\ \A j \in DOMAIN rest : j <= k => Table(rest[j]) = Table(h)
            /\ rest' = SubSeq(rest, k + 1, Len(rest))
  BY <1>1 DEF PreferenceFails
<1>6. i # 1
  <2>1. i = 1 => Table(h) = "permissions"
    BY <1>1, <1>4, FirstLine
  <2>2. QED
    BY <1>5, <2>1
<1>7. PICK k \in 1..Len(rest) :
         /\ \A j \in 1..k : Table(rest[j]) = "notification_provider_preferences"
         /\ rest' = SubSeq(rest, k + 1, Len(rest))
  <2>1. PICK n : n = Len(rest)
    OBVIOUS
  <2>2. DOMAIN rest = 1..n /\ n \in Nat
    BY <1>4, <2>1
  <2>3. PICK k \in 1..n :
           /\ \A j \in 1..n : j <= k => Table(rest[j]) = Table(h)
           /\ rest' = SubSeq(rest, k + 1, n)
    BY <1>5, <2>1, <2>2
  <2>4. \A j \in 1..k : j \in 1..n /\ j <= k
    BY <2>2
  <2>5. \A j \in 1..k : Table(rest[j]) = "notification_provider_preferences"
    BY <1>5, <2>3, <2>4
  <2>6. QED
    BY <2>1, <2>3, <2>5
<1>8. rest' \in Seq(T) /\ R = {rest[j] : j \in 1..k} \cup T
  <2>1. PICK t : t = rest'
    OBVIOUS
  <2>2. rest \in Seq(ToSet(rest)) /\ t = SubSeq(rest, k + 1, Len(rest))
    BY <1>1, <1>4, <1>7, <2>1
  <2>3. t \in Seq(ToSet(t)) /\ ToSet(rest) = {rest[j] : j \in 1..k} \cup ToSet(t)
    BY <2>2, RestOf, Zenon
  <2>4. QED
    BY <1>1, <2>1, <2>3
<1>9. \A q \in R : q \in T \/ Table(q) = "notification_provider_preferences"
  BY <1>7, <1>8
<1>10. Data(R) = Data(T)
  BY <1>8, <1>9 DEF Data
<1>11. /\ i = 2 => SUPER_ADMIN \in db \cup T
       /\ chat \notin T
  BY <1>4, <1>8, <1>9, SpecialTables
<1>12. Known'
  BY <1>4, <1>5 DEF Known, KnownRow
<1>13. Saving'
  BY <1>1, <1>2, <1>3, <1>4, <1>5, <1>6, <1>8, <1>10, <1>11 DEF Saving
<1>14. QED
  BY <1>4, <1>5, <1>12, <1>13, SavingIsAll

\* What a stage that is neither the permissions' nor the super admin's is to
\* save: what it makes, and channels.
LEMMA StageToSave ==
    ASSUME NEW i \in 3..12, NEW O \in Outcomes(i), Data(db) = O, Known,
           permissions = PermissionNames, NEW s \in ToSave(i)
    PROVE  \E C : \E M \in Makes(i) :
              /\ Fills(s, M \cup C)
              /\ \A r \in C : Table(r) = "notification_provider_preferences"
<1> DEFINE Saves == \E C : \E M \in Makes(i) :
                       /\ Fills(s, M \cup C)
                       /\ \A r \in C : Table(r) = "notification_provider_preferences"
<1>1. PICK e : e = EnterpriseAt(i)
  OBVIOUS
<1>2. i \in 10..12 =>
         /\ InTable("enterprises") =
               {<<"enterprises", "techcorp">>, <<"enterprises", "globalservices">>}
         /\ InAnyOrder \subseteq Orders
  BY EnterprisesThen, OrdersThen
<1>3. ASSUME NEW M \in Makes(i), Fills(s, M)
      PROVE  Saves
  <2>1. PICK C : C = {}
    OBVIOUS
  <2>2. M \cup C = M /\ \A r \in C : Table(r) = "notification_provider_preferences"
    BY <2>1
  <2>3. Fills(s, M \cup C)
    BY <1>3, <2>2
  <2>4. QED
    BY <2>2, <2>3
<1>4. CASE i \in {3, 6}
  <2>1. Stages[i] = "enterprise"
    BY <1>4, StagesAre
  <2>2. s = << <<"enterprises", e>> >>
    BY <1>1, <2>1, ToSaveIs
  <2>3. Fills(s, {<<"enterprises", e>>})
    BY <2>2, FillsOne
  <2>4. Makes(i) = {{<<"enterprises", e>>}}
    BY <1>1, <1>4 DEF Makes, Made
  <2>5. QED
    BY <1>3, <2>3, <2>4
<1>5. CASE i \in {4, 7}
  <2>1. Stages[i] = "roles"
    BY <1>5, StagesAre
  <2>2. s = SeedRolesForEnterprise(e)
    BY <1>1, <2>1, ToSaveIs
  <2>3. Fills(s, MadeRoles(e))
    BY <2>2, RolesToSave
  <2>4. Makes(i) = {MadeRoles(e)}
    BY <1>1, <1>5 DEF Makes, Made
  <2>5. QED
    BY <1>3, <2>3, <2>4
<1>6. CASE i \in {5, 8}
  <2>1. Stages[i] = "users"
    BY <1>6, StagesAre
  <2>2. s = SeedUsersForEnterprise(e)
    BY <1>1, <2>1, ToSaveIs
  <2>3. Data(db) = Done(i)
    BY <1>6 DEF Outcomes
  <2>4. {r \in InTable("roles") : r[2] = e} = {<<"roles", e, 1>>, <<"roles", e, 2>>}
    BY <1>1, <1>6, <2>3, RolesThen
  <2>5. Fills(s, MadeUsers(e) \cup Channels(e, 1) \cup Channels(e, 2))
    BY <2>2, <2>4, UsersToSave
  <2>6. PICK A, C : A = MadeUsers(e) /\ C = Channels(e, 1) \cup Channels(e, 2)
    OBVIOUS
  <2>7. Fills(s, A \cup C)
    <3>1. MadeUsers(e) \cup Channels(e, 1) \cup Channels(e, 2) = A \cup C
      BY <2>6
    <3>2. QED
      BY <2>5, <3>1
  <2>8. \A r \in C : Table(r) = "notification_provider_preferences"
    BY <2>6, ChannelTable
  <2>9. Makes(i) = {A}
    BY <1>1, <1>6, <2>6 DEF Makes, Made
  <2>10. QED
    BY <2>7, <2>8, <2>9
<1>7. CASE i = 9
  <2>1. Stages[i] = "clients"
    BY <1>7, StagesAre
  <2>2. s = SeedCustomClients
    BY <2>1, ToSaveIs
  <2>3. Fills(s, MadeClients \cup Channels("techcorp", 3))
    BY <2>2, ClientsToSave
  <2>4. Makes(i) = {MadeClients}
    BY <1>7 DEF Makes, Made
  <2>5. QED
    BY <2>3, <2>4, ChannelTable
<1>8. CASE i = 10
  <2>1. Stages[i] = "incidencias"
    BY <1>8, StagesAre
  <2>2. s = SeedIncidencias
    BY <2>1, ToSaveIs
  <2>3. <<"enterprises", "techcorp">> \in db /\ <<"enterprises", "globalservices">> \in db
    BY <1>2, <1>8 DEF InTable
  <2>4. <<"enterprises", "other">> \notin db
    <3>1. PICK r : r = <<"enterprises", "other">>
      OBVIOUS
    <3>2. r \in db => r \in InTable("enterprises")
      BY <3>1, OtherTables DEF InTable
    <3>3. r \notin InTable("enterprises")
      BY <1>2, <1>8, <3>1
    <3>4. QED
      BY <3>1, <3>2, <3>3
  <2>5. Fills(s, MadeIncidents)
    BY <2>2, <2>3, <2>4, IncidentsToSave
  <2>6. Makes(i) = {MadeIncidents}
    BY <1>8 DEF Makes, Made
  <2>7. QED
    BY <1>3, <2>5, <2>6
<1>9. CASE i = 11
  <2>1. Stages[i] = "configs"
    BY <1>9, StagesAre
  <2>2. PICK o \in InAnyOrder : s = SeedEnterpriseConfigs(o)
    BY <2>1, ToSaveIs
  <2>3. o \in Orders
    BY <1>2, <1>9, <2>2
  <2>4. Fills(s, Configs(o))
    BY <2>2, <2>3, ConfigsToSave
  <2>5. Configs(o) \in Makes(i)
    BY <1>9, <2>3 DEF Makes
  <2>6. QED
    BY <1>3, <2>4, <2>5
<1>10. CASE i = 12
  <2>1. Stages[i] = "documents"
    BY <1>10, StagesAre
  <2>2. PICK o \in InAnyOrder : s = SeedEnterpriseDocuments(o)
    BY <2>1, ToSaveIs
  <2>3. o \in Orders
    BY <1>2, <1>10, <2>2
  <2>4. Fills(s, Documents(o))
    BY <2>2, <2>3, DocumentsToSave
  <2>5. Documents(o) \in Makes(i)
    BY <1>10, <2>3 DEF Makes
  <2>6. QED
    BY <1>3, <2>4, <2>5
<1>11. \/ i \in {3, 6} \/ i \in {4, 7} \/ i \in {5, 8}
       \/ i = 9 \/ i = 10 \/ i = 11 \/ i = 12
  OBVIOUS
<1>12. QED
  BY <1>4, <1>5, <1>6, <1>7, <1>8, <1>9, <1>10, <1>11, Zenon

\* The first stage saves the permissions, the second the super admin.
LEMMA FirstToSave ==
    ASSUME Data(db) = {}, NEW s \in ToSave(1)
    PROVE  /\ Len(s) = 3 /\ \A j \in 1..3 : s[j] = Line[j]
           /\ Fills(s, MadePermissions)
<1>1. InTable("permissions") = {}
  BY DataInTable
<1>2. s = [j \in 1..3 |-> Line[j]]
  BY <1>1, StagesAre, ToSaveIs, PermissionsToSave
<1>3. s = [j \in 1..3 |-> s[j]] /\ \A j \in 1..3 : s[j] = Line[j]
  BY <1>2
<1>4. Fills(s, {s[j] : j \in 1..3})
  BY <1>3, 3 \in Nat, FillsFunction
<1>5. {s[j] : j \in 1..3} = {Line[1], Line[2], Line[3]}
  BY <1>3
<1>6. {Line[1], Line[2], Line[3]} = MadePermissions
  BY LineIs DEF MadePermissions, PermissionNames
<1>7. Len(s) = 3
  BY <1>2
<1>8. QED
  BY <1>3, <1>4, <1>5, <1>6, <1>7

\* The super admin is to be saved, or there.
LEMMA SecondToSave ==
    ASSUME NEW s \in ToSave(2)
    PROVE  (s = <<>> /\ SUPER_ADMIN \in db) \/ Fills(s, {SUPER_ADMIN})
<1>1. s = SeedSuperAdmin
  BY StagesAre, ToSaveIs
<1>2. QED
  BY <1>1, FillsOne DEF SeedSuperAdmin

\* What a stage is to save is what it makes, given what the stages before have
\* made.
LEMMA ReadStageKeepsWhole ==
    ASSUME Staged, WholeInv, ReadStage
    PROVE  WholeInv'
<1>1. PICK i, s, p, O : i = at.i /\ s = rest' /\ p = permissions' /\ O = Data(db)
  OBVIOUS
<1>2. /\ at.phase = "read" /\ i \in 1..12 /\ O \in Outcomes(i) /\ Known
      /\ i > 1 => permissions = PermissionNames
      /\ i > 2 => SUPER_ADMIN \in db
      /\ ended # "completed"
  BY <1>1 DEF WholeInv, Reading, Completed, ReadStage, Idle
<1>3. i = 3 => InTable("enterprises") = {}
  <2>1. ASSUME i = 3, NEW r \in InTable("enterprises")
        PROVE  FALSE
    <3>1. r \in O /\ Table(r) = "enterprises"
      BY <1>1, DataInTable
    <3>2. O = Done(3)
      BY <1>2, <2>1 DEF Outcomes
    <3>3. PICK j \in 1..2 : r \in Made(j)
      BY <3>1, <3>2 DEF Done
    <3>4. QED
      BY <3>1, <3>3, MadeTables
  <2>2. QED
    BY <2>1
<1>4. /\ s \in ToSave(i)
      /\ at' = [at EXCEPT !.phase = "save"]
      /\ p = IF Stages[i] = "permissions" THEN {r[2] : r \in InTable("permissions")}
                                          ELSE permissions
      /\ UNCHANGED <<db, ended>>
  BY <1>1, <1>3 DEF ReadStage, SeedEnterprises
<1>5. at'.phase = "save" /\ at'.i = i
  BY <1>1, <1>4 DEF Staged, Phases
<1>6. i # 1 => p = permissions
  BY <1>2, <1>4, StagesAre
<1>7. i = 1 => O = {} /\ p = {}
  <2>1. ASSUME i = 1
        PROVE  O = {} /\ p = {}
    <3>1. O = {}
      BY <1>2, <2>1, DoneGrows DEF Outcomes
    <3>2. InTable("permissions") = {}
      BY <1>1, <3>1, DataInTable
    <3>3. p = {r[2] : r \in InTable("permissions")}
      BY <1>4, <2>1, StagesAre
    <3>4. QED
      BY <3>1, <3>2, <3>3
  <2>2. QED
    BY <2>1
<1>8. PICK M \in Makes(i) :
        /\ s \in Seq(ToSet(s)) /\ Data(ToSet(s)) = M
        /\ <<"chatbot_conversations", NULL, 0>> \notin ToSet(s)
  <2>1. CASE i = 1
    <3>1. Fills(s, MadePermissions)
      BY <1>1, <1>4, <1>7, <2>1, FirstToSave
    <3>2. MadePermissions \in Makes(i)
      BY <2>1 DEF Makes, Made
    <3>3. PICK M, C : M = MadePermissions /\ C = {}
      OBVIOUS
    <3>4. M \cup C = M /\ \A r \in C : Table(r) = "notification_provider_preferences"
      BY <3>3
    <3>5. Fills(s, M \cup C) /\ M \in Makes(i)
      BY <3>1, <3>2, <3>3, <3>4
    <3>6. QED
      BY <1>2, <3>4, <3>5, FillsData
  <2>2. CASE i = 2
    <3>1. (s = <<>> /\ SUPER_ADMIN \in db) \/ Fills(s, {SUPER_ADMIN})
      BY <1>4, <2>2, SecondToSave
    <3>2. s \in Seq(ToSet(s)) /\ ToSet(s) \subseteq {SUPER_ADMIN}
      <4>1. s = <<>> => s \in Seq(ToSet(s)) /\ ToSet(s) = {}
        BY DEF ToSet
      <4>2. QED
        BY <3>1, <4>1 DEF Fills
    <3>3. Data(ToSet(s)) = {}
      BY <3>2 DEF Data
    <3>4. {} \in Makes(i)
      BY <2>2 DEF Makes, Made
    <3>5. QED
      BY <3>2, <3>3, <3>4, SpecialTables
  <2>3. CASE i > 2
    <3>1. i \in 3..12 /\ permissions = PermissionNames
      BY <1>2, <2>3
    <3>2. PICK C : \E M \in Makes(i) :
             /\ Fills(s, M \cup C)
             /\ \A r \in C : Table(r) = "notification_provider_preferences"
      BY <1>1, <1>2, <1>4, <3>1, StageToSave
    <3>3. PICK M \in Makes(i) : Fills(s, M \cup C)
      BY <3>2
    <3>4. QED
      BY <1>2, <3>2, <3>3, FillsData
  <2>4. QED
    BY <1>2, <2>1, <2>2, <2>3
<1>9. i = 2 => SUPER_ADMIN \in db \cup ToSet(s)
  <2>1. ASSUME i = 2
        PROVE  SUPER_ADMIN \in db \cup ToSet(s)
    BY <1>4, <2>1, SecondToSave DEF Fills
  <2>2. QED
    BY <2>1
<1>10. ASSUME i = 1
       PROVE  Lined'
  <2>1. Len(s) = 3 /\ \A j \in 1..3 : s[j] = Line[j]
    BY <1>1, <1>4, <1>7, <1>10, FirstToSave
  <2>2. \A j \in 1..3 : 3 - 3 + j = j
    OBVIOUS
  <2>3. {Line[j][2] : j \in 1..(3 - 3)} = {}
    OBVIOUS
  <2>4. PICK n : n = Len(s) /\ n = 3
    BY <2>1
  <2>5. /\ n <= 3
        /\ \A j \in 1..n : s[j] = Line[3 - n + j]
        /\ p = {Line[j][2] : j \in 1..(3 - n)}
    BY <1>7, <1>10, <2>1, <2>2, <2>3, <2>4
  <2>6. QED
    BY <1>1, <2>4, <2>5 DEF Lined
<1>11. O \subseteq db
  BY <1>1, DataWithin
<1>12. Saving'
  <2>1. /\ O \subseteq db' /\ Data(ToSet(s)) \subseteq M
        /\ Data(db') \cup Data(ToSet(s)) = O \cup M
    BY <1>1, <1>4, <1>8, <1>11
  <2>2. IF i = 1 THEN Lined' ELSE p = PermissionNames
    BY <1>2, <1>6, <1>10
  <2>3. /\ i = 2 => SUPER_ADMIN \in db' \cup ToSet(s)
        /\ i > 2 => SUPER_ADMIN \in db'
    BY <1>2, <1>4, <1>9
  <2>4. QED
    BY <1>1, <1>2, <1>5, <1>8, <2>1, <2>2, <2>3 DEF Saving
<1>13. Known'
  BY <1>2, <1>4 DEF Known, KnownRow
<1>14. QED
  BY <1>2, <1>4, <1>5, <1>12, <1>13 DEF WholeInv, Emptied, Reading, Completed

\* Once every table that is cleaned is empty, no data is left: a message, a
\* notification or a conversation would belong to a row that is not there.
LEMMA EmptiedIsEmpty ==
    ASSUME NEW D, \A r \in D : KnownRow(r) /\ Owners(r) \subseteq D,
           \A r \in D : Table(r) \in CleanedTables => r = SUPER_ADMIN
    PROVE  Data(D) = {}
<1>1. SUFFICES ASSUME NEW r \in Data(D) PROVE FALSE
  OBVIOUS
<1>2. r \in D /\ r # SUPER_ADMIN /\ r # <<"chatbot_conversations", NULL, 0>>
  BY <1>1 DEF Data
<1>3. Table(r) \notin CleanedTables
  BY <1>2
<1>4. CASE Table(r) = "messages"
  <2>1. PICK o \in Owners(r) : Table(o) = "incidencias"
    BY <1>4, MessagesBelong
  <2>2. o = SUPER_ADMIN
    BY <1>2, <2>1, KnownTables
  <2>3. QED
    BY <2>1, <2>2, SpecialTables
<1>5. CASE Table(r) = "notifications"
  <2>1. PICK o : o = <<"enterprises", r[2]>>
    OBVIOUS
  <2>2. o \in Owners(r)
    BY <1>5, <2>1 DEF Owners
  <2>3. Table(o) = "enterprises"
    BY <2>1, OtherTables
  <2>4. o = SUPER_ADMIN
    BY <1>2, <2>2, <2>3, KnownTables
  <2>5. QED
    BY <2>3, <2>4, SpecialTables
<1>6. CASE r = <<"chatbot_conversations", "techcorp", 1>>
  <2>1. PICK o : o = <<"users", "techcorp", 1>>
    OBVIOUS
  <2>2. Table(r) = "chatbot_conversations" /\ r[2] = "techcorp" /\ r[3] = 1
    BY <1>6 DEF Table
  <2>3. o \in Owners(r)
    BY <2>1, <2>2 DEF Owners
  <2>4. Table(o) = "users" /\ o # SUPER_ADMIN
    BY <2>1 DEF Table, SUPER_ADMIN
  <2>5. QED
    BY <1>2, <2>3, <2>4, KnownTables
<1>7. QED
  BY <1>2, <1>3, <1>4, <1>5, <1>6 DEF KnownRow

\* Table by table, until no data is left.
LEMMA CleanTableKeepsWhole ==
    ASSUME SeedInv, WholeInv, CleanTable
    PROVE  WholeInv'
<1>1. PICK i, t : i = at.i /\ t = CleanDatabase[i]
  OBVIOUS
<1>2. /\ at.phase = "clean" /\ i \in 1..10 /\ Known /\ ended # "completed"
      /\ \A k \in 1..10 : k < i => InTable(CleanDatabase[k]) \subseteq {SUPER_ADMIN}
  BY <1>1, CleanTableKeepsStaged
     DEF SeedInv, WholeInv, Emptied, Completed, CleanTable, Idle
<1>3. /\ db' = db \ Deleted(t) /\ UNCHANGED ended
      /\ at' = IF i < 10 THEN [at EXCEPT !.i = @ + 1] ELSE [phase |-> "read", i |-> 1]
  BY <1>1, CleanOrder DEF CleanTable
<1>4. at'.phase = "clean" => at'.i = i + 1
  BY <1>1, CleanTableKeepsStaged DEF SeedInv
<1>5. \A u : InTable(u)' \subseteq InTable(u)
  BY <1>3 DEF InTable
<1>6. InTable(t)' \subseteq {SUPER_ADMIN}
  BY <1>3, DeletedRows DEF InTable
<1>7. \A k \in 1..10 : k <= i => InTable(CleanDatabase[k])' \subseteq {SUPER_ADMIN}
  <2>1. \A k \in 1..10 : k <= i => k < i \/ k = i
    BY <1>2
  <2>2. QED
    BY <1>1, <1>2, <1>5, <1>6, <2>1
<1>8. Known'
  BY <1>2, <1>3 DEF Known, KnownRow
<1>9. Refers'
  BY CleanTableKeepsSeed DEF SeedInv
<1>10. CASE i < 10
  <2>1. at'.phase = "clean" /\ at'.i = i + 1
    BY <1>2, <1>3, <1>4, <1>10 DEF SeedInv, Staged, Phases
  <2>2. \A k \in 1..10 : k < i + 1 => k <= i
    BY <1>2
  <2>3. Emptied'
    BY <1>7, <2>1, <2>2 DEF Emptied
  <2>4. QED
    BY <1>2, <1>3, <1>8, <2>1, <2>3 DEF WholeInv, Reading, Saving, Completed
<1>11. CASE ~ (i < 10)
  <2>1. at' = [phase |-> "read", i |-> 1]
    BY <1>3, <1>11
  <2>2. \A k \in 1..10 : k <= i
    BY <1>2, <1>11
  <2>3. \A k \in 1..10 : InTable(CleanDatabase[k])' \subseteq {SUPER_ADMIN}
    BY <1>7, <2>2
  <2>4. Data(db') = {}
    <3>1. \A r \in db' : KnownRow(r) /\ Owners(r) \subseteq db'
      BY <1>8, <1>9 DEF Known, KnownRow, Refers
    <3>2. \A r \in db' : Table(r) \in CleanedTables => r = SUPER_ADMIN
      BY <2>3 DEF CleanedTables, InTable
    <3>3. QED
      BY <3>1, <3>2, EmptiedIsEmpty
  <2>5. {} \in Outcomes(1)
    BY DoneGrows DEF Outcomes
  <2>6. Reading'
    BY <2>1, <2>4, <2>5 DEF Reading
  <2>7. QED
    BY <1>2, <1>3, <1>8, <2>1, <2>6 DEF WholeInv, Emptied, Saving, Completed
<1>12. QED
  BY <1>10, <1>11

\* What the application may leave.
LEMMA UsedRowsAreKnown == \A r \in Useable : KnownRow(r)
<1>1. ASSUME NEW r \in Useable
      PROVE  Table(r) \in CleanedTables \cup {"messages", "notifications"}
             \/ r \in {<<"chatbot_conversations", "techcorp", 1>>,
                       <<"chatbot_conversations", NULL, 0>>}
  BY KnownTables DEF Useable, OfSuperAdmin, Table
<1>2. QED
  BY <1>1 DEF KnownRow

LEMMA InitIsWhole == SeedInit => WholeInv
  BY DEF SeedInit, Idle, WholeInv, Known, Emptied, Reading, Saving, Completed

LEMMA NextKeepsWhole ==
    Serving = FALSE /\ SeedInv /\ WholeInv /\ [SeedNext]_seedVars => WholeInv'
<1> SUFFICES ASSUME Serving = FALSE, SeedInv, WholeInv, [SeedNext]_seedVars PROVE WholeInv'
  OBVIOUS
<1>1. CASE UNCHANGED seedVars
  BY <1>1 DEF seedVars, WholeInv, Known, KnownRow, Emptied, Reading, Saving, Lined, Completed,
              Whole, InTable
<1>2. CASE RunAllSeeds
  <2>1. UNCHANGED db /\ at' = [phase |-> "clean", i |-> 1] /\ ended' = "not yet"
    BY <1>2 DEF RunAllSeeds
  <2>2. Emptied'
    <3>1. at'.i = 1
      BY <2>1
    <3>2. \A k \in 1..10 : ~ (k < 1)
      OBVIOUS
    <3>3. QED
      BY <3>1, <3>2 DEF Emptied
  <2>3. Known'
    BY <2>1 DEF WholeInv, Known, KnownRow
  <2>4. QED
    BY <2>1, <2>2, <2>3 DEF WholeInv, Reading, Saving, Completed
<1>3. CASE CleanTable
  BY <1>3, CleanTableKeepsWhole
<1>4. CASE ReadStage
  BY <1>4, ReadStageKeepsWhole DEF SeedInv
<1>5. CASE SaveRow
  BY <1>5, SaveRowKeepsWhole
<1>6. CASE NextStage
  BY <1>6, NextStageKeepsWhole
<1>7. CASE PreferenceFails
  BY <1>7, PreferenceFailsKeepsWhole
<1>8. CASE SeedFails
  <2>1. UNCHANGED db /\ at' = Idle /\ ended' = "failed"
    BY <1>8 DEF SeedFails
  <2>2. QED
    BY <2>1 DEF WholeInv, Known, KnownRow, Emptied, Reading, Saving, Completed, Idle
<1>9. CASE Use
  <2>1. at = Idle /\ UNCHANGED at /\ ended' = "used"
    BY <1>9 DEF Use
  <2>2. PICK r \in Useable : db' = db \cup {r}
    BY <1>9 DEF Use
  <2>3. Known'
    BY <2>2, UsedRowsAreKnown DEF WholeInv, Known, KnownRow
  <2>4. QED
    BY <2>1, <2>3 DEF WholeInv, Emptied, Reading, Saving, Completed, Idle
<1>10. QED
  BY <1>1, <1>2, <1>3, <1>4, <1>5, <1>6, <1>7, <1>8, <1>9 DEF SeedNext

\* The data by kind, in the words of SeedData.
LEMMA SeedDataIs ==
    SeedData = {SUPER_ADMIN} \cup Done(11)
<1> DEFINE N == {PERMISSIONS_DATA[i].name : i \in DOMAIN PERMISSIONS_DATA}
           E == ToSet(ENTERPRISES_DATA)
           RP == {r \in {<<"role_permission", e, n, p>> :
                             e \in E, n \in DOMAIN ROLES_DATA, p \in N} :
                    ROLES_DATA[r[3]] = {} \/ r[4] \in ROLES_DATA[r[3]]}
           I == UNION {{<<"incidencias", ENTERPRISES_DATA[i], 0, k>> :
                          k \in 1..INCIDENCIAS_CONFIG_BY_ENTERPRISE[i]} :
                       i \in DOMAIN ENTERPRISES_DATA}
           C == {<<"incidencias", "techcorp", ClientUser(CUSTOM_INCIDENCIAS_DATA[k]), k>> :
                    k \in DOMAIN CUSTOM_INCIDENCIAS_DATA}
<1>1. N = PermissionNames
  BY DEF PERMISSIONS_DATA, PermissionNames
<1>2. E = {"techcorp", "globalservices"}
  BY DEF ENTERPRISES_DATA, ToSet
<1>3. DOMAIN ROLES_DATA = 1..2 /\ ROLES_DATA[1] = {}
      /\ ROLES_DATA[2] = {"editIncidents", "readDashboard"}
  BY DEF ROLES_DATA
<1>4. DOMAIN USERS_DATA = 1..2 /\ USERS_DATA[1] = 1 /\ USERS_DATA[2] = 2
  BY DEF USERS_DATA
<1>5. {<<"users", CUSTOM_CLIENTS_DATA[c], ClientUser(c)>> : c \in DOMAIN CUSTOM_CLIENTS_DATA}
          = MadeClients
  BY DEF CUSTOM_CLIENTS_DATA, ClientUser, USERS_DATA, MadeClients
<1>6. I \cup C = MadeIncidents
  <2>1. DOMAIN ENTERPRISES_DATA = 1..2 /\ ENTERPRISES_DATA[1] = "techcorp"
        /\ ENTERPRISES_DATA[2] = "globalservices"
    BY DEF ENTERPRISES_DATA
  <2>2. INCIDENCIAS_CONFIG_BY_ENTERPRISE[1] = 2 /\ INCIDENCIAS_CONFIG_BY_ENTERPRISE[2] = 1
    BY DEF INCIDENCIAS_CONFIG_BY_ENTERPRISE
  <2>3. I = {<<"incidencias", "techcorp", 0, k>> : k \in 1..2}
            \cup {<<"incidencias", "globalservices", 0, k>> : k \in 1..1}
    BY <2>1, <2>2
  <2>4. C = {<<"incidencias", "techcorp", 3, 1>>}
    BY DEF CUSTOM_INCIDENCIAS_DATA, ClientUser, USERS_DATA
  <2>5. QED
    BY <2>3, <2>4 DEF MadeIncidents
<1>7. RP = UNION {{<<"role_permission", e, 1, p>> : p \in PermissionNames}
                  \cup {<<"role_permission", e, 2, p>> : p \in {"editIncidents", "readDashboard"}} :
                  e \in {"techcorp", "globalservices"}}
  <2>1. ASSUME NEW r \in RP
        PROVE  \E e \in {"techcorp", "globalservices"} :
                  r \in {<<"role_permission", e, 1, p>> : p \in PermissionNames}
                        \cup {<<"role_permission", e, 2, p>> :
                                 p \in {"editIncidents", "readDashboard"}}
    <3>1. PICK e \in E, n \in 1..2, p \in PermissionNames : r = <<"role_permission", e, n, p>>
      BY <1>1, <1>3, <2>1
    <3>2. ROLES_DATA[n] = {} \/ p \in ROLES_DATA[n]
      BY <2>1, <3>1
    <3>3. n = 1 \/ (n = 2 /\ p \in {"editIncidents", "readDashboard"})
      BY <1>3, <3>1, <3>2
    <3>4. QED
      BY <1>2, <3>1, <3>3
  <2>2. ASSUME NEW e \in {"techcorp", "globalservices"}, NEW p \in PermissionNames
        PROVE  <<"role_permission", e, 1, p>> \in RP
    BY <1>1, <1>2, <1>3
  <2>3. ASSUME NEW e \in {"techcorp", "globalservices"},
               NEW p \in {"editIncidents", "readDashboard"}
        PROVE  <<"role_permission", e, 2, p>> \in RP
    BY <1>1, <1>2, <1>3 DEF PermissionNames
  <2>4. QED
    BY <2>1, <2>2, <2>3
<1> HIDE DEF N, E, RP, I, C
<1>8. SeedData =
        {<<"permissions", p>> : p \in N} \cup {<<"enterprises", e>> : e \in E}
        \cup {<<"roles", e, n>> : e \in E, n \in DOMAIN ROLES_DATA}
        \cup RP
        \cup {SUPER_ADMIN} \cup {<<"users", e, u>> : e \in E, u \in DOMAIN USERS_DATA}
        \cup {<<"users", CUSTOM_CLIENTS_DATA[c], ClientUser(c)>> : c \in DOMAIN CUSTOM_CLIENTS_DATA}
        \cup {<<"user_roles", e, u, USERS_DATA[u]>> : e \in E, u \in DOMAIN USERS_DATA}
        \cup I \cup C
  BY DEF SeedData, N, E, RP, I, C
<1>9. \A r : r \in SeedData <=>
        \/ r \in MadePermissions \/ r = SUPER_ADMIN \/ r \in MadeClients \/ r \in MadeIncidents
        \/ \E e \in {"techcorp", "globalservices"} :
              r = <<"enterprises", e>> \/ r \in MadeRoles(e) \/ r \in MadeUsers(e)
  <2>1. {<<"permissions", p>> : p \in N} = MadePermissions
    BY <1>1 DEF MadePermissions
  <2>2. \A r : r \in {<<"roles", e, n>> : e \in E, n \in DOMAIN ROLES_DATA} \/ r \in RP <=>
           \E e \in {"techcorp", "globalservices"} : r \in MadeRoles(e)
    BY <1>2, <1>3, <1>7 DEF MadeRoles
  <2>3. \A r : \/ r \in {<<"users", e, u>> : e \in E, u \in DOMAIN USERS_DATA}
               \/ r \in {<<"user_roles", e, u, USERS_DATA[u]>> : e \in E, u \in DOMAIN USERS_DATA}
               <=> \E e \in {"techcorp", "globalservices"} : r \in MadeUsers(e)
    BY <1>2, <1>4 DEF MadeUsers
  <2>4. QED
    BY <1>2, <1>5, <1>6, <1>8, <2>1, <2>2, <2>3
<1>10. \A r : r \in Done(11) <=> \E j \in 1..10 : r \in Made(j)
  BY DEF Done
<1>11. \A r : r \in Done(11) <=>
        \/ r \in MadePermissions \/ r \in MadeClients \/ r \in MadeIncidents
        \/ \E e \in {"techcorp", "globalservices"} :
              r = <<"enterprises", e>> \/ r \in MadeRoles(e) \/ r \in MadeUsers(e)
  <2>1. /\ Made(1) = MadePermissions /\ Made(2) = {}
        /\ Made(9) = MadeClients /\ Made(10) = MadeIncidents
        /\ Made(3) = {<<"enterprises", "techcorp">>}
        /\ Made(6) = {<<"enterprises", "globalservices">>}
        /\ Made(4) = MadeRoles("techcorp") /\ Made(7) = MadeRoles("globalservices")
        /\ Made(5) = MadeUsers("techcorp") /\ Made(8) = MadeUsers("globalservices")
    BY EnterprisesAt DEF Made
  <2>2. \A j \in 1..10 : \/ j = 1 \/ j = 2 \/ j = 3 \/ j = 4 \/ j = 5 \/ j = 6 \/ j = 7
                         \/ j = 8 \/ j = 9 \/ j = 10
    OBVIOUS
  <2>3. ASSUME NEW r, NEW j \in 1..10, r \in Made(j)
        PROVE  \/ r \in MadePermissions \/ r \in MadeClients \/ r \in MadeIncidents
               \/ \E e \in {"techcorp", "globalservices"} :
                     r = <<"enterprises", e>> \/ r \in MadeRoles(e) \/ r \in MadeUsers(e)
    BY <2>1, <2>2, <2>3
  <2>4. QED
    BY <1>10, <2>1, <2>3
<1>12. QED
  BY <1>9, <1>11

\* The configurations: one of each, for either enterprise.
LEMMA ConfigsAre ==
    ASSUME NEW o \in Orders
    PROVE  /\ {r[3] : r \in Configs(o)} = 1..2
           /\ Cardinality(Configs(o)) = 2
<1>1. PICK a, b : a = <<"enterprise_config", o[1], 1>> /\ b = <<"enterprise_config", o[2], 2>>
  OBVIOUS
<1>2. a[3] = 1 /\ b[3] = 2
  BY <1>1
<1>3. Configs(o) = {a} \cup {b}
  BY <1>1 DEF Configs
<1>4. {r[3] : r \in Configs(o)} = 1..2
  BY <1>2, <1>3
<1>5. a # b
  BY <1>2
<1>6. IsFiniteSet({a}) /\ Cardinality({a}) = 1
  BY FS_Singleton
<1>7. Cardinality({a} \cup {b}) = 1 + 1
  BY <1>5, <1>6, FS_AddElement
<1>8. QED
  BY <1>3, <1>4, <1>7

\* The documents: those meant for one enterprise are one enterprise's.
LEMMA DocumentsAre ==
    ASSUME NEW o \in Orders
    PROVE  /\ {r[3] : r \in Documents(o)} = DOMAIN ENTERPRISE_DOCUMENTS_DATA
           /\ \A r1, r2 \in Documents(o) :
                 (r1[2] = r2[2]) <=>
                     (ENTERPRISE_DOCUMENTS_DATA[r1[3]] = ENTERPRISE_DOCUMENTS_DATA[r2[3]])
<1>1. PICK D : D = ENTERPRISE_DOCUMENTS_DATA
  OBVIOUS
<1>2. DOMAIN D = 1..3 /\ D[1] = 1 /\ D[2] = 1 /\ D[3] = 2
  BY <1>1 DEF ENTERPRISE_DOCUMENTS_DATA
<1>3. PICK a, b, c : /\ a = <<"enterprise_documents", o[1], 1>>
                     /\ b = <<"enterprise_documents", o[1], 2>>
                     /\ c = <<"enterprise_documents", o[2], 3>>
  OBVIOUS
<1>4. /\ a[2] = o[1] /\ b[2] = o[1] /\ c[2] = o[2] /\ o[1] # o[2]
      /\ a[3] = 1 /\ b[3] = 2 /\ c[3] = 3
  BY <1>3 DEF Orders
<1>5. Documents(o) = {a, b, c}
  BY <1>3 DEF Documents
<1>6. {r[3] : r \in Documents(o)} = 1..3
  BY <1>4, <1>5
<1>7. \A r1, r2 \in {a, b, c} : (r1[2] = r2[2]) <=> (D[r1[3]] = D[r2[3]])
  BY <1>2, <1>4
<1>8. QED
  BY <1>1, <1>2, <1>5, <1>6, <1>7

\* What is there after the last stage is the data of the seed.
LEMMA WholeIsWhole ==
    ASSUME Whole
    PROVE  /\ {r \in db : Table(r) \notin Elsewhere} \ OfSuperAdmin = SeedData
           /\ {r[3] : r \in InTable("enterprise_config")} = 1..ENTERPRISE_CONFIGS_DATA
           /\ Cardinality(InTable("enterprise_config")) = ENTERPRISE_CONFIGS_DATA
           /\ {r[3] : r \in InTable("enterprise_documents")} = DOMAIN ENTERPRISE_DOCUMENTS_DATA
           /\ \A r1, r2 \in InTable("enterprise_documents") :
                 (r1[2] = r2[2]) <=>
                     (ENTERPRISE_DOCUMENTS_DATA[r1[3]] = ENTERPRISE_DOCUMENTS_DATA[r2[3]])
<1>1. PICK O : O = Data(db)
  OBVIOUS
<1>2. PICK o \in Orders, p \in Orders : O = Done(11) \cup Configs(o) \cup Documents(p)
  BY <1>1 DEF Whole, Outcomes
<1>3. ASSUME NEW r \in Done(11)
      PROVE  Table(r) \in {"users", "user_roles", "permissions", "enterprises", "incidencias",
                           "roles", "role_permission"}
  <2>1. PICK j \in 1..10 : r \in Made(j)
    BY DEF Done
  <2>2. QED
    BY <2>1, MadeTables
<1>4. \A r \in OfSuperAdmin : Table(r) \in {"chatbot_conversations",
                                            "notification_provider_preferences"}
  BY DEF OfSuperAdmin, Table
<1>5. <<"chatbot_conversations", NULL, 0>> \in OfSuperAdmin
  BY DEF OfSuperAdmin
<1>6. InTable("enterprise_config") = Configs(o)
  <2>1. InTable("enterprise_config") = {r \in O : Table(r) = "enterprise_config"}
    BY <1>1, DataInTable
  <2>2. QED
    BY <1>2, <1>3, <2>1, ConfigTable, DocumentTable
<1>7. InTable("enterprise_documents") = Documents(p)
  <2>1. InTable("enterprise_documents") = {r \in O : Table(r) = "enterprise_documents"}
    BY <1>1, DataInTable
  <2>2. QED
    BY <1>2, <1>3, <2>1, ConfigTable, DocumentTable
<1>8. ASSUME NEW r \in db, Table(r) \notin Elsewhere, r \notin OfSuperAdmin
      PROVE  r \in {SUPER_ADMIN} \cup Done(11)
  <2>1. r = SUPER_ADMIN \/ r \in O
    BY <1>1, <1>5, <1>8 DEF Data, Elsewhere
  <2>2. QED
    BY <1>2, <1>8, <2>1, ConfigTable, DocumentTable DEF Elsewhere
<1>9. ASSUME NEW r \in {SUPER_ADMIN} \cup Done(11)
      PROVE  r \in db /\ Table(r) \notin Elsewhere /\ r \notin OfSuperAdmin
  <2>1. r \in db
    BY <1>1, <1>2, DataWithin DEF Whole
  <2>2. Table(r) \in {"users", "user_roles", "permissions", "enterprises", "incidencias",
                      "roles", "role_permission"}
    BY <1>3, SpecialTables
  <2>3. QED
    BY <1>4, <2>1, <2>2 DEF Elsewhere
<1>10. {r \in db : Table(r) \notin Elsewhere} \ OfSuperAdmin = SeedData
  BY <1>8, <1>9, SeedDataIs
<1>11. ENTERPRISE_CONFIGS_DATA = 2
  BY DEF ENTERPRISE_CONFIGS_DATA
<1>12. /\ {r[3] : r \in InTable("enterprise_config")} = 1..ENTERPRISE_CONFIGS_DATA
       /\ Cardinality(InTable("enterprise_config")) = ENTERPRISE_CONFIGS_DATA
  BY <1>6, <1>11, ConfigsAre
<1>13. /\ {r[3] : r \in InTable("enterprise_documents")} = DOMAIN ENTERPRISE_DOCUMENTS_DATA
       /\ \A r1, r2 \in InTable("enterprise_documents") :
             (r1[2] = r2[2]) <=>
                 (ENTERPRISE_DOCUMENTS_DATA[r1[3]] = ENTERPRISE_DOCUMENTS_DATA[r2[3]])
  BY <1>7, DocumentsAre
<1>14. QED
  BY <1>10, <1>12, <1>13

\* A seed that says it has completed has left all its data, every role with its
\* permissions and every user with the role meant for it, and nothing else but
\* what is the super admin's: whatever seeds before it that stopped anywhere,
\* whatever use of the application between seeds, and whichever channels could
\* not be saved.  The application is not used while the seed runs
\* (seed.service.ts, runAllSeeds).
THEOREM ACompletedSeedIsWhole ==
    ASSUME Serving = FALSE
    PROVE  SeedSpec => []CompletedIsWhole
<1>1. WholeInv => CompletedIsWhole
  BY WholeIsWhole DEF WholeInv, Completed, CompletedIsWhole
<1>2. SeedInv /\ WholeInv /\ [SeedNext]_seedVars => SeedInv' /\ WholeInv'
  BY NextKeepsSeed, NextKeepsWhole
<1>3. SeedInit => SeedInv /\ WholeInv
  BY InitIsSeeded, InitIsWhole
<1>4. QED
  BY <1>1, <1>2, <1>3, PTL DEF SeedSpec
=============================================================================
