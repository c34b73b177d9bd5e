SPECIFICATION Spec
CONSTANTS
    a1 = a1
    b1 = b1
    b2 = b2
    p1 = p1
    u1 = u1
    u2 = u2
    r1 = r1
    r2 = r2
    e1 = e1
    e2 = e2
    n1 = n1
    RoleIds = {r1, r2}
    Names = {n1}
    Perms = {p1, p2}
    PermissionLists = {{}, {p1}}
    RECEIVE_INCIDENTS_PERMISSIONS = {p2}
    Enterprises = {e1, e2}
    RoleSlots = {a1}
    RoleWorkload <- RoleWork
    FirstRoles <- OneRole
    FirstGrants <- OneGrant
    FirstUsers <- OneUser
    FirstMembers <- OneMember
    UserIds = {u1, u2}
    UserSlots = {b1, b2}
    UserWorkload <- UserWork
    MaxRequests = 3
    NULL = NULL
INVARIANTS TenantsApart RevocationSticks
PROPERTY ReplacedAsAWhole
CHECK_DEADLOCK FALSE
