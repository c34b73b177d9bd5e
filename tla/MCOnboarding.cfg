SPECIFICATION RegSpec
CONSTANTS
    a1 = a1
    a2 = a2
    b1 = b1
    e1 = e1
    e2 = e2
    u0 = u0
    u1 = u1
    u2 = u2
    d1 = d1
    d2 = d2
    m0 = m0
    m1 = m1
    Users = {u0, u1, u2}
    PrefSlots = {b1}
    PrefWorkload <- PrefWork
    Named = {}
    NULL = NULL
    Enterprises = {e1, e2}
    Subdomains = {d1, d2}
    Emails = {m0, m1}
    NewEmails = {m1}
    AuthSlots = {a1, a2}
    AuthWorkload <- AuthWork
    FirstEnterprises <- OneEnterprise
    FirstAccounts <- OnlySuperAdmin
INVARIANTS SessionsApart EnterpriseHasAdmin
SYMMETRY Symmetry
CHECK_DEADLOCK FALSE
