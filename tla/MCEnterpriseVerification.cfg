SPECIFICATION Spec
CONSTANTS
    u1 = u1
    u2 = u2
    u3 = u3
    e1 = e1
    e2 = e2
    m1 = m1
    m2 = m2
    s1 = s1
    s2 = s2
    Users = {u1, u2, u3}
    Enterprises = {e1, e2}
    Emails = {m1, m2}
    EnterpriseOf <- Employer
    EmailOf <- Address
    Codes = {k1}
    SuperAdmins = {a1}
    Looks = {l1}
    ConfigSlots = {s1, s2}
    ConfigWorkload <- Work
    MaxDocuments = 6
    MaxRequests = 4
    NULL = NULL
    UNDEFINED = UNDEFINED
INVARIANTS VerifiedOwnsAddress DecisionIsRecorded VersionsFollowUploads
CHECK_DEADLOCK FALSE
