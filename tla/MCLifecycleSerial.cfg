SPECIFICATION Spec
CONSTANTS
    s1 = s1
    s2 = s2
    Slots = {s1}
    Workload <- CompanyCloses
    ReqIds = {q1, q2}
    REOPEN_DEADLINE_DAYS = 1
    MaxDay = 5
    NULL = NULL
INVARIANTS TypeOK DeadlineCoversEveryFinalStatus DeadlineNotEarly
PROPERTY ImplementsContract
CHECK_DEADLOCK FALSE
