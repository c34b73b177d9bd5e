SPECIFICATION Spec
CONSTANTS
    s1 = s1
    s2 = s2
    Slots = {s1, s2}
    Workload <- OneReviewer
    ReqIds = {q1, q2}
    REOPEN_DEADLINE_DAYS = 0
    MaxDay = 1
    NULL = NULL
INVARIANTS ReviewPrecedesReopen ReopenIsApproved OnePendingRequest
PROPERTY ReviewedForGood
SYMMETRY RequestSymmetry
CHECK_DEADLOCK FALSE
