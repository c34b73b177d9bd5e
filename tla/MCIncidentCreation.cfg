SPECIFICATION Spec
CONSTANTS
    e1 = e1
    e2 = e2
    f1 = f1
    f2 = f2
    s1 = s1
    s2 = s2
    Employees = {e1, e2}
    Files = {f1, f2}
    MaxIncidents = 3
    MaxWithImages = 2
    CreateSlots = {s1, s2}
    NULL = NULL
SYMMETRY Symmetry
INVARIANTS LoadsStayClose AllOrNothing EveryImageIsStored
CHECK_DEADLOCK FALSE
