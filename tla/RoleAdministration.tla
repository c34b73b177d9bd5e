------------------------- MODULE RoleAdministration -------------------------
(***************************************************************************)
(* Roles and the permissions they grant (roles.service.ts).  A role is a   *)
(* row of roles; each permission it grants is a row of role_permission.    *)
(* create and update write the two tables in several statements and no     *)
(* transaction, and every save of a role also saves the list of            *)
(* permissions that was loaded with it (TypeOrm).                          *)
(* One action between two awaits, as in IncidentLifecycle.                 *)
(***************************************************************************)
EXTENDS Naturals, TypeOrm, Null

CONSTANTS
    RoleIds,       \* roles that may exist in the behaviour (bound)
    Names,         \* the names in the requests (environment)
    Perms,         \* rows of permissions; none is ever deleted
    RECEIVE_INCIDENTS_PERMISSIONS,
    PermissionLists, \* the values of permissionIds in the requests (environment)
    Enterprises,
    RoleSlots,     \* role handlers that may be in flight at once
    RoleWorkload,  \* the handlers each slot may run (environment)
    FirstRoles,    \* the roles and
    FirstGrants,   \* their permissions before the behaviour starts
    MaxRequests    \* requests that may be started in the behaviour (bound)

RoleOps == {"create", "update", "remove"}

\* A role's row.  A role without enterprise is global.
Roles == [enterprise : Enterprises \cup {NULL}, name : Names,
          canReceiveIncidents : BOOLEAN, isActive : BOOLEAN]

ASSUME RoleAssumption ==
    /\ RECEIVE_INCIDENTS_PERMISSIONS \subseteq Perms
    /\ PermissionLists \subseteq SUBSET Perms
    /\ RoleWorkload \in [RoleSlots -> SUBSET RoleOps]
    /\ FirstRoles \in [RoleIds -> Roles \cup {NULL}]
    /\ MaxRequests \in Nat
    /\ NULL \notin Roles \cup Enterprises \cup Names \cup RoleIds \cup BOOLEAN
    /\ \A P \in SUBSET Perms : P # NULL

VARIABLES
    requests,  \* requests started so far, of either service
    role,      \* the table roles
    grant,     \* the table role_permission
    roleTask   \* what each role slot is doing

roleVars == <<role, grant, roleTask>>

\* Rows of role_permission; "by", the request that inserted it, stands for the
\* row's identity: one role may grant one permission by two rows.
RolePermissions == [role : RoleIds, perm : Perms, by : 0..MaxRequests]

ASSUME FirstGrantsAssumption ==
    /\ FirstGrants \subseteq RolePermissions
    /\ \A g \in FirstGrants : FirstRoles[g.role] # NULL

Granting(r) == {g \in grant : g.role = r}

PermsOf(r) == {g.perm : g \in Granting(r)}

\* A handler in flight: the role, the entity it will save with the permissions
\* loaded with it, what the save found to write, the permissions the role is to
\* grant (NULL: leave them), and the request's number.
RoleTasks ==
    [op : RoleOps \cup {"none"}, at : {"idle", "insert", "select", "write", "delete", "grants"},
     id : RoleIds \cup {NULL}, entity : Roles \cup {NULL}, loaded : SUBSET RolePermissions,
     cols : SUBSET {"enterprise", "name", "canReceiveIncidents", "isActive"},
     again : SUBSET RolePermissions, cut : SUBSET RolePermissions,
     ask : (SUBSET Perms) \cup {NULL}, by : 0..MaxRequests]

IdleRole ==
    [op |-> "none", at |-> "idle", id |-> NULL, entity |-> NULL, loaded |-> {}, cols |-> {},
     again |-> {}, cut |-> {}, ask |-> NULL, by |-> 0]

RoleInit ==
    /\ requests = 0
    /\ role = FirstRoles
    /\ grant = FirstGrants
    /\ roleTask = [s \in RoleSlots |-> IdleRole]

RoleBecomes(s, t) == roleTask' = [roleTask EXCEPT ![s] = t]

\* A role handler takes slot s.
StartRole(s, t) ==
    /\ roleTask[s].at = "idle"
    /\ t.op \in RoleWorkload[s]
    /\ requests < MaxRequests  \* bound
    /\ requests' = requests + 1
    /\ RoleBecomes(s, [t EXCEPT !.by = requests + 1])
    /\ UNCHANGED <<role, grant>>

-----------------------------------------------------------------------------

\* The roles of an enterprise, or the global ones, that have a name.
Named(e, n) == {r \in RoleIds : role[r] # NULL /\ role[r].enterprise = e /\ role[r].name = n}

\* idx_roles_enterprise_name_unique, which a null enterprise escapes.
NameIsFree(e, n, r) == e = NULL \/ Named(e, n) \subseteq {r}

\* Receiving incidents brings two permissions with it, for the request only:
\* canReceiveIncidents alone replaces the role's permissions by those two.
ToGrant(permissionIds, receives) ==
    (IF permissionIds = NULL THEN {} ELSE permissionIds)
        \cup (IF receives THEN RECEIVE_INCIDENTS_PERMISSIONS ELSE {})

CreateRole(s, e, n, permissionIds, receives) ==
    /\ Named(e, n) = {}
    /\ StartRole(s, [IdleRole EXCEPT !.op = "create", !.at = "insert",
           !.entity = [enterprise |-> e, name |-> n,
                       canReceiveIncidents |-> receives, isActive |-> TRUE],
           !.ask = ToGrant(permissionIds, receives)])

InsertRole(s, id) ==
    LET t == roleTask[s] IN
    /\ t.at = "insert"
    /\ role[id] = NULL
    /\ NameIsFree(t.entity.enterprise, t.entity.name, id)
    /\ role' = [role EXCEPT ![id] = t.entity]
    /\ RoleBecomes(s, IF t.ask = {} THEN IdleRole
                                    ELSE [t EXCEPT !.at = "grants", !.id = id])
    /\ UNCHANGED <<requests, grant>>

\* The active roles a caller of enterprise e may touch; a super admin has none.
FoundRole(id, e) ==
    /\ role[id] # NULL
    /\ role[id].isActive
    /\ e # NULL => role[id].enterprise = e

\* A field that is not in the request (NULL) keeps its value.
Merged(row, n, receives) ==
    [row EXCEPT !.name = IF n = NULL THEN @ ELSE n,
                !.canReceiveIncidents = IF receives = NULL THEN @ ELSE receives]

UpdateRole(s, id, e, n, permissionIds, receives) ==
    LET entity == Merged(role[id], n, receives) IN
    /\ FoundRole(id, e)
    /\ StartRole(s, [IdleRole EXCEPT !.op = "update", !.at = "select", !.id = id,
           !.entity = entity, !.loaded = Granting(id),
           !.ask = IF permissionIds = NULL /\ receives = NULL THEN NULL
                   ELSE ToGrant(permissionIds, entity.canReceiveIncidents)])

RemoveRole(s, id, e) ==
    /\ FoundRole(id, e)
    /\ StartRole(s, [IdleRole EXCEPT !.op = "remove", !.at = "select", !.id = id,
           !.entity = [role[id] EXCEPT !.isActive = FALSE], !.loaded = Granting(id)])

\* repository.save(role), of update and remove.
RoleSelect(s) ==
    LET t == roleTask[s] IN
    /\ t.at = "select"
    /\ RoleBecomes(s, [t EXCEPT !.at = "write", !.cols = Changed(t.entity, role[t.id]),
           !.again = Reinserted(t.loaded, Granting(t.id)),
           !.cut = CutOff(t.loaded, Granting(t.id))])
    /\ UNCHANGED <<requests, role, grant>>

RoleWrite(s) ==
    LET t == roleTask[s]
        row == Written(role[t.id], t.entity, t.cols) IN
    /\ t.at = "write"
    /\ NameIsFree(row.enterprise, row.name, t.id)
    /\ role' = [role EXCEPT ![t.id] = row]
    /\ grant' = (grant \ t.cut) \cup t.again
    /\ RoleBecomes(s, IF t.ask = NULL THEN IdleRole ELSE [t EXCEPT !.at = "delete"])
    /\ UNCHANGED requests

\* Mutated form: the new permissions are inserted beside the old ones.
DeleteGrants_Keeps(s) ==
    LET t == roleTask[s] IN
    /\ t.at = "delete"
    /\ RoleBecomes(s, IF t.ask = {} THEN IdleRole ELSE [t EXCEPT !.at = "grants"])
    /\ UNCHANGED <<requests, role, grant>>

DeleteGrants(s) ==
    LET t == roleTask[s] IN
    /\ t.at = "delete"
    /\ grant' = grant \ Granting(t.id)
    /\ RoleBecomes(s, IF t.ask = {} THEN IdleRole ELSE [t EXCEPT !.at = "grants"])
    /\ UNCHANGED <<requests, role>>

\* The rows are inserted in one transaction.
InsertGrants(s) ==
    LET t == roleTask[s] IN
    /\ t.at = "grants"
    /\ grant' = grant \cup [role : {t.id}, perm : t.ask, by : {t.by}]
    /\ RoleBecomes(s, IdleRole)
    /\ UNCHANGED <<requests, role>>

\* Any statement may fail, and fails when an index refuses it; what the
\* handler has written so far stays.
RoleFails(s) ==
    /\ roleTask[s].at # "idle"
    /\ RoleBecomes(s, IdleRole)
    /\ UNCHANGED <<requests, role, grant>>

-----------------------------------------------------------------------------

\* The routes that write (roles.controller.ts).
RolesController(s) ==
    \/ \E e \in Enterprises \cup {NULL}, n \in Names, receives \in BOOLEAN,
          P \in PermissionLists : CreateRole(s, e, n, P, receives)
    \/ \E id \in RoleIds, e \in Enterprises \cup {NULL}, n \in Names \cup {NULL},
          receives \in BOOLEAN \cup {NULL}, P \in PermissionLists \cup {NULL} :
              UpdateRole(s, id, e, n, P, receives)
    \/ \E id \in RoleIds, e \in Enterprises \cup {NULL} : RemoveRole(s, id, e)

RoleStep(s) ==
    \/ RolesController(s)
    \/ \E id \in RoleIds : InsertRole(s, id)
    \/ RoleSelect(s)
    \/ RoleWrite(s)
    \/ DeleteGrants(s)
    \/ InsertGrants(s)
    \/ RoleFails(s)

-----------------------------------------------------------------------------

RoleTypeOK ==
    /\ requests \in 0..MaxRequests
    /\ role \in [RoleIds -> Roles \cup {NULL}]
    /\ grant \subseteq RolePermissions
    /\ roleTask \in [RoleSlots -> RoleTasks]

\* A role's permissions are never mixed: a step either takes them all away or,
\* from none, gives it the whole set one request asked for, whatever fails or
\* crashes between the statements of create and update.
ReplacedAsAWhole ==
    [][\A r \in RoleIds :
          \/ PermsOf(r)' = PermsOf(r)
          \/ PermsOf(r)' = {}
          \/ /\ PermsOf(r) = {}
             /\ \E s \in RoleSlots : roleTask[s].id = r /\ PermsOf(r)' = roleTask[s].ask]_roleVars
=============================================================================
