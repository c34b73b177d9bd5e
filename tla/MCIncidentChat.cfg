SPECIFICATION ChatSpec
CONSTANTS
    e1 = e1
    c1 = c1
    k1 = k1
    k2 = k2
    s1 = s1
    s2 = s2
    Users = {e1, c1}
    Clients = {c1}
    Creator = c1
    Colleagues = {e1, c1}
    SuperAdmins = {}
    IncidentStates <- States
    Sockets = {k1, k2}
    Owner <- OneEach
    ChatSlots = {s1, s2}
    Limit = 1
    Millisecond <- Clock
    MaxMessages = 3
    MaxRequests = 7
    NULL = NULL
SYMMETRY Symmetry
INVARIANTS NoMessageFallsBetween
PROPERTIES AssignedEmployeeHears
CHECK_DEADLOCK FALSE
