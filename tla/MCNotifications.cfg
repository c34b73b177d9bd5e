SPECIFICATION FairSpec
CONSTANTS
    s1 = s1
    b1 = b1
    b2 = b2
    c1 = c1
    u1 = u1
    k1 = k1
    k2 = k2
    n1 = n1
    Users = {u1}
    PrefSlots = {c1}
    PrefWorkload <- PrefWork
    Named = {"EMAIL", "TELEGRAM", "WHATSAPP"}
    NULL = NULL
    Notices = {n1}
    SendSlots = {s1}
    BoxSlots = {b1, b2}
    Sockets = {k1, k2}
    MaxRequests = 4
INVARIANTS ListenersAreKnown EnabledIsConfigured
PROPERTIES NeverThroughAChannelOff UnreadNeverReturns EveryActiveChannelTried
CHECK_DEADLOCK FALSE
