------------------------- MODULE UserAdministration -------------------------
(***************************************************************************)
(* The users of the enterprises and the roles they hold                    *)
(* (users.service.ts), beside the role administration of                   *)
(* RoleAdministration: the two services share the table roles.             *)
(* create, update and assignRolesToUser write in a transaction, READ       *)
(* COMMITTED and without locks, so what they read before or inside it may  *)
(* be out of date when it commits.  Global users, who hold no roles, are   *)
(* left out.                                                               *)
(***************************************************************************)
EXTENDS RoleAdministration

CONSTANTS
    UserIds,       \* users, one for each e-mail address in the requests
    FirstUsers,    \* the users and
    FirstMembers,  \* their roles before the behaviour starts
    UserSlots,     \* user handlers that may be in flight at once
    UserWorkload   \* the handlers each slot may run (environment)

UserOps == {"create", "update", "assign", "removeRole", "remove", "reactivate"}

ASSUME UserAssumption == UserWorkload \in [UserSlots -> SUBSET UserOps]

VARIABLES
    user,      \* the table users
    member,    \* the table user_roles
    userTask,  \* what each user slot is doing
    revoked    \* history: roles taken from a user and not given again since

userVars == <<user, member, userTask, revoked>>
vars == <<requests, roleVars, userVars>>

\* A user's row.
Users == [enterprise : Enterprises, isActive : BOOLEAN]

\* Rows of user_roles; "by" stands for the row's identity.
UserRoles == [user : UserIds, role : RoleIds, by : 0..MaxRequests]

\* uq_user_role_enterprise: no user has a role twice.
Unique(rows) == \A m, n \in rows : m.user = n.user /\ m.role = n.role => m = n

ASSUME FirstUsersAssumption ==
    /\ NULL \notin Users \cup UserIds
    /\ FirstUsers \in [UserIds -> Users \cup {NULL}]
    /\ FirstMembers \subseteq UserRoles
    /\ Unique(FirstMembers)
    /\ \A m \in FirstMembers :
          /\ FirstUsers[m.user] # NULL
          /\ FirstRoles[m.role] # NULL
          /\ FirstUsers[m.user].enterprise = FirstRoles[m.role].enterprise

Memberships(u) == {m \in member : m.user = u}

RolesOf(u) == {m.role : m \in Memberships(u)}

\* A handler in flight: the user, the roles of the request, isActive of the
\* request or of the entity to save, and the rows it has read.
UserTasks ==
    [op : UserOps \cup {"none"},
     at : {"idle", "validate", "insert", "clear", "commit", "find", "assign",
           "findMember", "deleteMember", "select", "write"},
     id : UserIds \cup {NULL}, enterprise : Enterprises \cup {NULL}, ids : SUBSET RoleIds,
     active : BOOLEAN, rows : SUBSET UserRoles, again : SUBSET UserRoles,
     cut : SUBSET UserRoles, by : 0..MaxRequests]

IdleUser ==
    [op |-> "none", at |-> "idle", id |-> NULL, enterprise |-> NULL, ids |-> {},
     active |-> FALSE, rows |-> {}, again |-> {}, cut |-> {}, by |-> 0]

UserInit ==
    /\ user = FirstUsers
    /\ member = FirstMembers
    /\ userTask = [s \in UserSlots |-> IdleUser]
    /\ revoked = [u \in UserIds |-> {}]

UserBecomes(s, t) == userTask' = [userTask EXCEPT ![s] = t]

Goes(s, step) == UserBecomes(s, [userTask[s] EXCEPT !.at = step])

\* A user handler takes slot s; a request that gives roles ends the revocation
\* of those roles.
StartUser(s, t) ==
    /\ userTask[s].at = "idle"
    /\ t.op \in UserWorkload[s]
    /\ requests < MaxRequests  \* bound
    /\ requests' = requests + 1
    /\ UserBecomes(s, [t EXCEPT !.by = requests + 1])
    /\ revoked' = IF t.op \in {"create", "update", "assign"}
                  THEN [revoked EXCEPT ![t.id] = @ \ t.ids] ELSE revoked
    /\ UNCHANGED <<roleVars, user, member>>

\* The rows for roles R that the request of task t inserts.
NewRows(t, R) == [user : {t.id}, role : R, by : {t.by}]

\* Roles R are taken from the user, unless a request in another slot is about
\* to give them.
Revoke(s, R) ==
    LET u == userTask[s].id
        giving == {q \in UserSlots \ {s} :
                      userTask[q].id = u /\ userTask[q].op \in {"create", "update", "assign"}}
        coming == UNION {userTask[q].ids : q \in giving} IN
    revoked' = [revoked EXCEPT ![u] = @ \cup (R \ coming)]

-----------------------------------------------------------------------------

\* findOne(id, true, enterpriseId)
FoundUser(u, e) == user[u] # NULL /\ user[u].isActive /\ user[u].enterprise = e

\* Mutated form: the roles must exist and be active, of whatever enterprise.
RolesAreValid_AnyEnterprise(ids, e) ==
    \A r \in ids : role[r] # NULL /\ role[r].isActive

\* validateRolesBelongToEnterprise
RolesAreValid(ids, e) ==
    \A r \in ids : role[r] # NULL /\ role[r].isActive /\ role[r].enterprise = e

Validate(s) ==
    LET t == userTask[s] IN
    /\ t.at = "validate"
    /\ RolesAreValid(t.ids, t.enterprise)
    /\ Goes(s, CASE t.op = "create" -> "insert"
                 [] t.op = "update" -> "clear"
                 [] t.op = "assign" -> "find")
    /\ UNCHANGED <<requests, roleVars, user, member, revoked>>

CreateUser(s, u, e, ids, active) ==
    /\ user[u] = NULL
    /\ StartUser(s, [IdleUser EXCEPT !.op = "create",
           !.at = IF ids = {} THEN "insert" ELSE "validate",
           !.id = u, !.enterprise = e, !.ids = ids, !.active = active])

\* The transaction of create: the user and the roles, or neither.  The e-mail
\* address is unique in the enterprise.
InsertUser(s) ==
    LET t == userTask[s] IN
    /\ t.at = "insert"
    /\ user[t.id] = NULL
    /\ user' = [user EXCEPT ![t.id] = [enterprise |-> t.enterprise, isActive |-> t.active]]
    /\ member' = member \cup NewRows(t, t.ids)
    /\ UserBecomes(s, IdleUser)
    /\ UNCHANGED <<requests, roleVars, revoked>>

\* update with roleIds; the request may also set isActive.
UpdateUser(s, u, e, ids, active) ==
    /\ FoundUser(u, e)
    /\ StartUser(s, [IdleUser EXCEPT !.op = "update",
           !.at = IF ids = {} THEN "clear" ELSE "validate",
           !.id = u, !.enterprise = e, !.ids = ids, !.active = active])

\* Inside the transaction: the DELETE sees the rows committed by then.
ClearRoles(s) ==
    LET t == userTask[s] IN
    /\ t.at = "clear"
    /\ UserBecomes(s, [t EXCEPT !.at = "commit", !.rows = Memberships(t.id)])
    /\ UNCHANGED <<requests, roleVars, user, member, revoked>>

\* Mutated form: the roles of the request are added to those the user has.
CommitRoles_Adds(s) ==
    LET t == userTask[s]
        added == NewRows(t, t.ids \ {m.role : m \in t.rows}) IN
    /\ t.at = "commit"
    /\ Unique(member \cup added)
    /\ member' = member \cup added
    /\ user' = [user EXCEPT ![t.id].isActive = t.active]
    /\ Revoke(s, {m.role : m \in t.rows \cap member} \ t.ids)
    /\ UserBecomes(s, IdleUser)
    /\ UNCHANGED <<requests, roleVars>>

\* The INSERT and the commit; a role committed for the user since the DELETE
\* makes them fail and the whole transaction roll back.
CommitRoles(s) ==
    LET t == userTask[s]
        kept == member \ t.rows IN
    /\ t.at = "commit"
    /\ Unique(kept \cup NewRows(t, t.ids))
    /\ member' = kept \cup NewRows(t, t.ids)
    /\ user' = [user EXCEPT ![t.id].isActive = t.active]
    /\ Revoke(s, {m.role : m \in t.rows \cap member} \ t.ids)
    /\ UserBecomes(s, IdleUser)
    /\ UNCHANGED <<requests, roleVars>>

AssignRolesToUser(s, u, e, ids) ==
    /\ FoundUser(u, e)
    /\ StartUser(s, [IdleUser EXCEPT !.op = "assign", !.at = "validate",
           !.id = u, !.enterprise = e, !.ids = ids])

FindAssigned(s) ==
    LET t == userTask[s] IN
    /\ t.at = "find"
    /\ UserBecomes(s, IF t.ids \subseteq RolesOf(t.id) THEN IdleUser
                      ELSE [t EXCEPT !.at = "assign", !.rows = Memberships(t.id)])
    /\ UNCHANGED <<requests, roleVars, user, member, revoked>>

InsertAssigned(s) ==
    LET t == userTask[s]
        new == NewRows(t, t.ids \ {m.role : m \in t.rows}) IN
    /\ t.at = "assign"
    /\ Unique(member \cup new)
    /\ member' = member \cup new
    /\ UserBecomes(s, IdleUser)
    /\ UNCHANGED <<requests, roleVars, user, revoked>>

RemoveRoleFromUser(s, u, e, r) ==
    /\ FoundUser(u, e)
    /\ StartUser(s, [IdleUser EXCEPT !.op = "removeRole", !.at = "findMember",
           !.id = u, !.enterprise = e, !.ids = {r}])

FindMember(s) ==
    LET t == userTask[s]
        found == {m \in Memberships(t.id) : m.role \in t.ids} IN
    /\ t.at = "findMember"
    /\ found # {}
    /\ UserBecomes(s, [t EXCEPT !.at = "deleteMember", !.rows = found])
    /\ UNCHANGED <<requests, roleVars, user, member, revoked>>

DeleteMember(s) ==
    LET t == userTask[s] IN
    /\ t.at = "deleteMember"
    /\ member' = member \ t.rows
    /\ Revoke(s, {m.role : m \in t.rows \cap member})
    /\ UserBecomes(s, IdleUser)
    /\ UNCHANGED <<requests, roleVars, user>>

\* remove and reactivate load the user with the roles and save both.
RemoveUser(s, u, e) ==
    /\ FoundUser(u, e)
    /\ StartUser(s, [IdleUser EXCEPT !.op = "remove", !.at = "select", !.id = u,
           !.active = FALSE, !.rows = Memberships(u)])

Reactivate(s, u, e) ==
    /\ user[u] # NULL
    /\ user[u].enterprise = e
    /\ ~user[u].isActive
    /\ StartUser(s, [IdleUser EXCEPT !.op = "reactivate", !.at = "select", !.id = u,
           !.active = TRUE, !.rows = Memberships(u)])

UserSelect(s) ==
    LET t == userTask[s] IN
    /\ t.at = "select"
    /\ UserBecomes(s, [t EXCEPT !.at = "write",
           !.again = Reinserted(t.rows, Memberships(t.id)),
           !.cut = CutOff(t.rows, Memberships(t.id))])
    /\ UNCHANGED <<requests, roleVars, user, member, revoked>>

\* user_roles.userId may not be null: a role given since the load makes the
\* save fail; a role taken since the load is given back.
UserWrite(s) ==
    LET t == userTask[s] IN
    /\ t.at = "write"
    /\ t.cut = {}
    /\ Unique(member \cup t.again)
    /\ member' = member \cup t.again
    /\ user' = [user EXCEPT ![t.id].isActive = t.active]
    /\ UserBecomes(s, IdleUser)
    /\ UNCHANGED <<requests, roleVars, revoked>>

\* A refused request, a failing statement or a rolled back transaction.
UserFails(s) ==
    /\ userTask[s].at # "idle"
    /\ UserBecomes(s, IdleUser)
    /\ UNCHANGED <<requests, roleVars, user, member, revoked>>

-----------------------------------------------------------------------------

\* The routes that write (users.controller.ts).
UsersController(s) ==
    \E u \in UserIds, e \in Enterprises :
        \/ \E ids \in SUBSET RoleIds, active \in BOOLEAN :
              CreateUser(s, u, e, ids, active) \/ UpdateUser(s, u, e, ids, active)
        \/ \E ids \in (SUBSET RoleIds) \ {{}} : AssignRolesToUser(s, u, e, ids)
        \/ \E r \in RoleIds : RemoveRoleFromUser(s, u, e, r)
        \/ RemoveUser(s, u, e)
        \/ Reactivate(s, u, e)

UserStep(s) ==
    \/ UsersController(s)
    \/ Validate(s) \/ InsertUser(s)
    \/ ClearRoles(s) \/ CommitRoles(s)
    \/ FindAssigned(s) \/ InsertAssigned(s)
    \/ FindMember(s) \/ DeleteMember(s)
    \/ UserSelect(s) \/ UserWrite(s)
    \/ UserFails(s)

\* The process stops and starts again.
Crash ==
    /\ roleTask' = [s \in RoleSlots |-> IdleRole]
    /\ userTask' = [s \in UserSlots |-> IdleUser]
    /\ <<roleTask, userTask>>' # <<roleTask, userTask>>
    /\ UNCHANGED <<requests, role, grant, user, member, revoked>>

Init == RoleInit /\ UserInit

Next ==
    \/ (\E s \in RoleSlots : RoleStep(s)) /\ UNCHANGED userVars
    \/ \E s \in UserSlots : UserStep(s)
    \/ Crash

Spec == Init /\ [][Next]_vars

-----------------------------------------------------------------------------

TypeOK ==
    /\ RoleTypeOK
    /\ user \in [UserIds -> Users \cup {NULL}]
    /\ member \subseteq UserRoles
    /\ userTask \in [UserSlots -> UserTasks]
    /\ revoked \in [UserIds -> SUBSET RoleIds]

\* A user only ever holds roles of the user's own enterprise, however role and
\* user requests of several enterprises and of super admins overlap, fail and
\* crash (validateRolesBelongToEnterprise and the enterprise filters).
TenantsApart ==
    \A m \in member :
        /\ user[m.user] # NULL
        /\ role[m.role] # NULL
        /\ role[m.role].enterprise = user[m.user].enterprise

\* A role taken from a user by update or removeRoleFromUser does not come back
\* unless a later request gives it, although remove and reactivate save the
\* whole list of roles.  Holds if those two overlap no request that takes
\* roles away.
RevocationSticks == \A u \in UserIds : RolesOf(u) \cap revoked[u] = {}
=============================================================================
