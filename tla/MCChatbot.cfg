SPECIFICATION Spec
CONSTANTS
    d1 = d1
    d2 = d2
    c1 = c1
    c2 = c2
    s1 = s1
    s2 = s2
    SessionIds = {g1}
    SessionData = {d1, d2}
    GuestSlots = {s1, s2}
    MAX_QUESTIONS = 1
    NULL = NULL
    Users = {u1, u2}
    Conversations = {c1, c2}
    ChatSlots = {s1, s2}
    ChatWorkload <- OneChatAtATime
    Asked = {"get_my_profile", "get_users", "drop_users"}
    Grantable = {"viewUsers"}
    MaxRequests = 4
SYMMETRY Symmetry
INVARIANTS QuotaIsSpentOnAnswers NothingSaidIsLost AnswersStayInside
CHECK_DEADLOCK FALSE
