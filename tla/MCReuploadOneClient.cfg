SPECIFICATION Spec
CONSTANTS
    s1 = s1
    s2 = s2
    Slots = {s1, s2}
    Workload <- OneClient
    Images = {m1, m2, m3}
    MAX_IMAGES = 2
    HoursAllowed = {1, 2}
    MaxHour = 2
    MaxUnused = 2
    NULL = NULL
INVARIANTS TypeOK FileBeforeRecord SingleUse
SYMMETRY ImageSymmetry
CHECK_DEADLOCK FALSE
