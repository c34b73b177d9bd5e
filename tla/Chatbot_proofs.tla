---------------------------- MODULE Chatbot_proofs ----------------------------
(***************************************************************************)
(* Theorems about Chatbot and GuestChatbot, for any visitors and users,    *)
(* any limit of questions, any functions the model asks for and any number *)
(* of requests in flight.                                                  *)
(***************************************************************************)
EXTENDS Chatbot, FiniteSetTheorems, SequenceTheorems, TLAPS

-----------------------------------------------------------------------------
(* The visitors' quota *)

LEMMA NullIsNoQuestion == NULL \notin SessionData /\ NULL \notin Sessions /\ NULL \notin Questions
  BY GuestAssumption DEF GuestAssumption

\* How many questions charged to an object are in flight is a number.
LEMMA InFlightType ==
    \A d : IsFiniteSet(GuestInFlight(d)) /\ Cardinality(GuestInFlight(d)) \in Nat
<1> SUFFICES ASSUME NEW d
             PROVE  IsFiniteSet(GuestInFlight(d)) /\ Cardinality(GuestInFlight(d)) \in Nat
  OBVIOUS
<1>1. IsFiniteSet(GuestSlots)
  BY GuestAssumption DEF GuestAssumption
<1>2. IsFiniteSet(GuestInFlight(d))
  BY <1>1, FS_Subset DEF GuestInFlight
<1>3. QED
  BY <1>2, FS_CardinalityType

\* A free slot takes a question, or a slot becomes free.
LEMMA InFlightAdds ==
    ASSUME GuestTypeOK, NEW s \in GuestSlots, guest[s] = NULL, NEW q \in Questions,
           guest' = [guest EXCEPT ![s] = q]
    PROVE  \A d : Cardinality(GuestInFlight(d))' =
               Cardinality(GuestInFlight(d)) + IF d = q.data THEN 1 ELSE 0
<1> SUFFICES ASSUME NEW d
             PROVE  Cardinality(GuestInFlight(d))' =
                        Cardinality(GuestInFlight(d)) + IF d = q.data THEN 1 ELSE 0
  OBVIOUS
<1>1. \A r \in GuestSlots : guest'[r] = IF r = s THEN q ELSE guest[r]
  BY DEF GuestTypeOK
<1>2. s \notin GuestInFlight(d)
  BY DEF GuestInFlight
<1>3. GuestInFlight(d)' = IF d = q.data THEN GuestInFlight(d) \cup {s} ELSE GuestInFlight(d)
  BY <1>1, NullIsNoQuestion DEF GuestInFlight
<1>4. IsFiniteSet(GuestInFlight(d)) /\ Cardinality(GuestInFlight(d)) \in Nat
  BY InFlightType
<1>5. Cardinality(GuestInFlight(d) \cup {s}) = Cardinality(GuestInFlight(d)) + 1
  BY <1>2, <1>4, FS_AddElement
<1>6. CASE d = q.data
  BY <1>3, <1>5, <1>6
<1>7. CASE d # q.data
  BY <1>3, <1>4, <1>7
<1>8. QED
  BY <1>6, <1>7

LEMMA InFlightDrops ==
    ASSUME GuestTypeOK, NEW s \in GuestSlots, guest[s] # NULL,
           guest' = [guest EXCEPT ![s] = NULL]
    PROVE  \A d : Cardinality(GuestInFlight(d))' =
               Cardinality(GuestInFlight(d)) - IF d = guest[s].data THEN 1 ELSE 0
<1> SUFFICES ASSUME NEW d
             PROVE  Cardinality(GuestInFlight(d))' =
                        Cardinality(GuestInFlight(d)) - IF d = guest[s].data THEN 1 ELSE 0
  OBVIOUS
<1>1. \A r \in GuestSlots : guest'[r] = IF r = s THEN NULL ELSE guest[r]
  BY DEF GuestTypeOK
<1>2. s \in GuestInFlight(d) <=> d = guest[s].data
  BY DEF GuestInFlight
<1>3. GuestInFlight(d)' = IF d = guest[s].data THEN GuestInFlight(d) \ {s}
                                               ELSE GuestInFlight(d)
  BY <1>1 DEF GuestInFlight
<1>4. IsFiniteSet(GuestInFlight(d)) /\ Cardinality(GuestInFlight(d)) \in Nat
  BY InFlightType
<1>5. CASE d = guest[s].data
  <2>1. Cardinality(GuestInFlight(d) \ {s}) = Cardinality(GuestInFlight(d)) - 1
    BY <1>2, <1>4, <1>5, FS_RemoveElement
  <2>2. QED
    BY <1>3, <1>5, <2>1
<1>6. CASE d # guest[s].data
  BY <1>3, <1>4, <1>6
<1>7. QED
  BY <1>5, <1>6

LEMMA InFlightIsPositive ==
    ASSUME NEW s \in GuestSlots, guest[s] # NULL
    PROVE  Cardinality(GuestInFlight(guest[s].data)) > 0
<1>1. s \in GuestInFlight(guest[s].data)
  BY DEF GuestInFlight
<1>2. Cardinality(GuestInFlight(guest[s].data)) # 0
  BY <1>1, InFlightType, FS_EmptySet
<1>3. QED
  BY <1>2, InFlightType

\* A session nobody made has no answers and no questions.
Charged == GuestTypeOK /\ QuotaIsSpentOnAnswers

LEMMA CountType == GuestTypeOK => \A d \in SessionData : Count(d) \in 0..MAX_QUESTIONS
  BY GuestAssumption DEF GuestAssumption, GuestTypeOK, Count, Sessions

LEMMA MaxIsNat == MAX_QUESTIONS \in Nat /\ MAX_QUESTIONS > 0
  BY GuestAssumption DEF GuestAssumption

LEMMA AskKeepsCharged ==
    ASSUME Charged, NEW s \in GuestSlots, NEW id \in SessionIds, GuestChat(s, id)
    PROVE  Charged'
<1>1. PICK d \in SessionOf(id) :
         /\ Count(d) < MAX_QUESTIONS
         /\ session' = [session EXCEPT ![d] = [questionCount |-> Count(d) + 1, old |-> FALSE]]
         /\ sessionStore' = [sessionStore EXCEPT ![id] = d]
         /\ guest' = [guest EXCEPT ![s] = [id |-> id, data |-> d]]
         /\ guestAnswered' = guestAnswered
  BY DEF GuestChat
<1>2. d \in SessionData /\ GuestTypeOK /\ guest[s] = NULL
  BY DEF Charged, GuestTypeOK, SessionOf, GuestChat
<1> DEFINE q == [id |-> id, data |-> d]
           n == [questionCount |-> Count(d) + 1, old |-> FALSE]
<1>3. q \in Questions /\ q.data = d
  BY <1>2 DEF Questions
<1>4. Count(d) \in 0..MAX_QUESTIONS
  BY <1>2, CountType
<1>5. n \in Sessions /\ n.questionCount = Count(d) + 1
  <2>1. Count(d) + 1 \in 0..MAX_QUESTIONS
    BY <1>1, <1>4, MaxIsNat
  <2>2. QED
    BY <2>1 DEF Sessions
<1> HIDE DEF q, n
<1>6. session' = [session EXCEPT ![d] = n] /\ guest' = [guest EXCEPT ![s] = q]
  BY <1>1 DEF q, n
<1>7. GuestTypeOK'
  <2>1. sessionStore' \in [SessionIds -> SessionData \cup {NULL}]
    BY <1>1, <1>2 DEF GuestTypeOK
  <2>2. session' \in [SessionData -> Sessions \cup {NULL}]
    BY <1>2, <1>5, <1>6 DEF GuestTypeOK
  <2>3. guest' \in [GuestSlots -> Questions \cup {NULL}]
    BY <1>2, <1>3, <1>6 DEF GuestTypeOK
  <2>4. QED
    BY <1>1, <1>2, <2>1, <2>2, <2>3 DEF GuestTypeOK
<1>8. \A c \in SessionData : Count(c)' = Count(c) + IF c = d THEN 1 ELSE 0
  <2> SUFFICES ASSUME NEW c \in SessionData
               PROVE  Count(c)' = Count(c) + IF c = d THEN 1 ELSE 0
    OBVIOUS
  <2>1. Count(c) \in Nat
    BY <1>2, CountType
  <2>2. CASE c = d
    BY <1>2, <1>5, <1>6, <2>2, NullIsNoQuestion DEF Count, GuestTypeOK
  <2>3. CASE c # d
    <3>1. session'[c] = session[c]
      BY <1>2, <1>6, <2>3 DEF GuestTypeOK
    <3>2. Count(c)' = Count(c)
      BY <3>1 DEF Count
    <3>3. QED
      BY <2>1, <2>3, <3>2
  <2>4. QED
    BY <2>2, <2>3
<1>9. \A c \in SessionData : Cardinality(GuestInFlight(c))' =
          Cardinality(GuestInFlight(c)) + IF c = d THEN 1 ELSE 0
  BY <1>2, <1>3, <1>6, InFlightAdds
<1>10. QuotaIsSpentOnAnswers'
  <2> SUFFICES ASSUME NEW c \in SessionData
               PROVE  /\ Count(c)' = guestAnswered[c] + Cardinality(GuestInFlight(c))'
                      /\ Count(c)' <= MAX_QUESTIONS
    BY <1>1 DEF QuotaIsSpentOnAnswers
  <2>1. /\ Count(c) = guestAnswered[c] + Cardinality(GuestInFlight(c))
        /\ Count(c) \in Nat /\ Cardinality(GuestInFlight(c)) \in Nat
        /\ guestAnswered[c] \in Nat
        /\ Count(c) <= MAX_QUESTIONS
    BY <1>2, CountType, InFlightType DEF Charged, QuotaIsSpentOnAnswers, GuestTypeOK
  <2>2. QED
    BY <1>1, <1>8, <1>9, <2>1, MaxIsNat
<1>11. QED
  BY <1>7, <1>10 DEF Charged

\* A question in flight has its object, which was charged for it.
LEMMA ChargedForIt ==
    ASSUME Charged, NEW s \in GuestSlots, guest[s] # NULL
    PROVE  LET d == guest[s].data IN
           /\ guest[s] \in Questions /\ d \in SessionData
           /\ session[d] \in Sessions
           /\ session[d].questionCount = guestAnswered[d] + Cardinality(GuestInFlight(d))
           /\ Cardinality(GuestInFlight(d)) > 0
           /\ guestAnswered[d] \in Nat
<1> DEFINE d == guest[s].data
<1>1. guest[s] \in Questions /\ d \in SessionData
  BY DEF Charged, GuestTypeOK, Questions
<1>2. Cardinality(GuestInFlight(d)) > 0 /\ Cardinality(GuestInFlight(d)) \in Nat
  BY InFlightIsPositive, InFlightType
<1>3. guestAnswered[d] \in Nat /\ Count(d) = guestAnswered[d] + Cardinality(GuestInFlight(d))
  BY <1>1 DEF Charged, GuestTypeOK, QuotaIsSpentOnAnswers
<1>4. session[d] # NULL
  BY <1>2, <1>3 DEF Count
<1>5. QED
  BY <1>1, <1>2, <1>3, <1>4 DEF Count, Charged, GuestTypeOK

LEMMA ReplyKeepsCharged ==
    ASSUME Charged, NEW s \in GuestSlots, GuestReply(s)
    PROVE  Charged'
<1> DEFINE d == guest[s].data
<1>1. /\ guest[s] # NULL
      /\ guestAnswered' = [guestAnswered EXCEPT ![d] = guestAnswered[d] + 1]
      /\ guest' = [guest EXCEPT ![s] = NULL]
      /\ UNCHANGED <<sessionStore, session>>
  BY DEF GuestReply
<1>2. /\ GuestTypeOK /\ d \in SessionData
      /\ session[d] \in Sessions
      /\ session[d].questionCount = guestAnswered[d] + Cardinality(GuestInFlight(d))
      /\ Cardinality(GuestInFlight(d)) > 0 /\ Cardinality(GuestInFlight(d)) \in Nat
      /\ guestAnswered[d] \in Nat
  BY <1>1, ChargedForIt, InFlightType DEF Charged
<1>3. guestAnswered[d] + 1 \in 0..MAX_QUESTIONS
  <2>1. session[d].questionCount \in 0..MAX_QUESTIONS
    BY <1>2 DEF Sessions
  <2>2. QED
    BY <1>2, <2>1, MaxIsNat
<1>4. guestAnswered' \in [SessionData -> 0..MAX_QUESTIONS]
  BY <1>1, <1>2, <1>3 DEF GuestTypeOK
<1>5. guest' \in [GuestSlots -> Questions \cup {NULL}]
  BY <1>1, <1>2 DEF GuestTypeOK
<1>6. GuestTypeOK'
  BY <1>1, <1>2, <1>4, <1>5 DEF GuestTypeOK
<1>7. \A c \in SessionData : guestAnswered'[c] = guestAnswered[c] + IF c = d THEN 1 ELSE 0
  BY <1>1, <1>2 DEF GuestTypeOK
<1>8. \A c : Cardinality(GuestInFlight(c))' =
          Cardinality(GuestInFlight(c)) - IF c = d THEN 1 ELSE 0
  BY <1>1, <1>2, InFlightDrops
<1>9. QuotaIsSpentOnAnswers'
  <2> SUFFICES ASSUME NEW c \in SessionData
               PROVE  /\ Count(c) = guestAnswered'[c] + Cardinality(GuestInFlight(c))'
                      /\ Count(c) <= MAX_QUESTIONS
    BY <1>1 DEF QuotaIsSpentOnAnswers, Count
  <2>1. /\ Count(c) = guestAnswered[c] + Cardinality(GuestInFlight(c))
        /\ Cardinality(GuestInFlight(c)) \in Nat
        /\ guestAnswered[c] \in Nat
        /\ Count(c) <= MAX_QUESTIONS
    BY <1>2, InFlightType DEF Charged, QuotaIsSpentOnAnswers, GuestTypeOK
  <2>2. QED
    BY <1>7, <1>8, <2>1
<1>10. QED
  BY <1>6, <1>9 DEF Charged

LEMMA FailureKeepsCharged ==
    ASSUME Charged, NEW s \in GuestSlots, GuestChatFails(s)
    PROVE  Charged'
<1> DEFINE d == guest[s].data
           n == [session[d] EXCEPT !.questionCount = session[d].questionCount - 1]
<1>1. /\ guest[s] # NULL
      /\ session' = [session EXCEPT ![d] = n]
      /\ sessionStore' = [sessionStore EXCEPT ![guest[s].id] = d]
      /\ guest' = [guest EXCEPT ![s] = NULL]
      /\ guestAnswered' = guestAnswered
  BY DEF GuestChatFails, CountedBack
<1>2. /\ GuestTypeOK /\ d \in SessionData
      /\ session[d] \in Sessions
      /\ session[d].questionCount = guestAnswered[d] + Cardinality(GuestInFlight(d))
      /\ Cardinality(GuestInFlight(d)) > 0 /\ Cardinality(GuestInFlight(d)) \in Nat
      /\ guestAnswered[d] \in Nat
  BY <1>1, ChargedForIt, InFlightType DEF Charged
<1>3. n \in Sessions /\ n.questionCount = session[d].questionCount - 1
  <2>1. session[d].questionCount \in 0..MAX_QUESTIONS
    BY <1>2 DEF Sessions
  <2>2. session[d].questionCount - 1 \in 0..MAX_QUESTIONS
    BY <1>2, <2>1, MaxIsNat
  <2>3. QED
    BY <1>2, <2>2 DEF Sessions
<1> HIDE DEF n
<1>4. GuestTypeOK'
  <2>1. sessionStore' \in [SessionIds -> SessionData \cup {NULL}]
    BY <1>1, <1>2 DEF GuestTypeOK
  <2>2. session' \in [SessionData -> Sessions \cup {NULL}]
    BY <1>1, <1>2, <1>3 DEF GuestTypeOK
  <2>3. guest' \in [GuestSlots -> Questions \cup {NULL}]
    BY <1>1, <1>2 DEF GuestTypeOK
  <2>4. QED
    BY <1>1, <1>2, <2>1, <2>2, <2>3 DEF GuestTypeOK
<1>5. \A c \in SessionData : Count(c)' = Count(c) - IF c = d THEN 1 ELSE 0
  <2> SUFFICES ASSUME NEW c \in SessionData
               PROVE  Count(c)' = Count(c) - IF c = d THEN 1 ELSE 0
    OBVIOUS
  <2>1. Count(c) \in Nat
    BY <1>2, CountType
  <2>2. CASE c = d
    <3>1. n # NULL /\ session[c] # NULL
      BY <1>2, <1>3, <2>2, NullIsNoQuestion
    <3>2. session'[c] = n
      BY <1>1, <1>2, <2>2 DEF GuestTypeOK
    <3>3. Count(c)' = n.questionCount /\ Count(c) = session[c].questionCount
      BY <3>1, <3>2 DEF Count
    <3>4. QED
      BY <1>3, <2>2, <3>3
  <2>3. CASE c # d
    <3>1. session'[c] = session[c]
      BY <1>1, <1>2, <2>3 DEF GuestTypeOK
    <3>2. Count(c)' = Count(c)
      BY <3>1 DEF Count
    <3>3. QED
      BY <2>1, <2>3, <3>2
  <2>4. QED
    BY <2>2, <2>3
<1>6. \A c : Cardinality(GuestInFlight(c))' =
          Cardinality(GuestInFlight(c)) - IF c = d THEN 1 ELSE 0
  BY <1>1, <1>2, InFlightDrops
<1>7. QuotaIsSpentOnAnswers'
  <2> SUFFICES ASSUME NEW c \in SessionData
               PROVE  /\ Count(c)' = guestAnswered[c] + Cardinality(GuestInFlight(c))'
                      /\ Count(c)' <= MAX_QUESTIONS
    BY <1>1 DEF QuotaIsSpentOnAnswers
  <2>1. /\ Count(c) = guestAnswered[c] + Cardinality(GuestInFlight(c))
        /\ Cardinality(GuestInFlight(c)) \in Nat
        /\ guestAnswered[c] \in Nat
        /\ Count(c) <= MAX_QUESTIONS
    BY <1>2, InFlightType DEF Charged, QuotaIsSpentOnAnswers, GuestTypeOK
  <2>2. QED
    BY <1>5, <1>6, <2>1, MaxIsNat
<1>8. QED
  BY <1>4, <1>7 DEF Charged

\* What leaves the counts, the questions in flight and the answers alone.
LEMMA QuotaStays ==
    ASSUME Charged, GuestTypeOK', UNCHANGED <<guest, guestAnswered>>,
           \A d \in SessionData : Count(d)' = Count(d)
    PROVE  Charged'
<1>1. \A d \in SessionData : GuestInFlight(d)' = GuestInFlight(d)
  BY DEF GuestInFlight
<1>2. QED
  BY <1>1 DEF Charged, QuotaIsSpentOnAnswers

LEMMA NobodyIsCharged ==
    ASSUME guest' = [s \in GuestSlots |-> NULL],
           session' = [d \in SessionData |-> NULL],
           sessionStore' = [i \in SessionIds |-> NULL],
           guestAnswered' = [d \in SessionData |-> 0]
    PROVE  Charged'
<1>1. \A d \in SessionData : Count(d)' = 0 /\ GuestInFlight(d)' = {}
  BY DEF Count, GuestInFlight
<1>2. \A d \in SessionData : Cardinality(GuestInFlight(d))' = 0
  BY <1>1, FS_EmptySet
<1>3. GuestTypeOK'
  BY MaxIsNat DEF GuestTypeOK
<1>4. QED
  BY <1>1, <1>2, <1>3, MaxIsNat DEF Charged, QuotaIsSpentOnAnswers

LEMMA InitIsCharged == Init => Charged
<1> SUFFICES ASSUME Init PROVE Charged
  OBVIOUS
<1>1. \A d \in SessionData : Count(d) = 0 /\ GuestInFlight(d) = {}
  BY DEF Init, GuestInit, Count, GuestInFlight
<1>2. \A d \in SessionData : Cardinality(GuestInFlight(d)) = 0
  BY <1>1, FS_EmptySet
<1>3. GuestTypeOK
  BY MaxIsNat DEF Init, GuestInit, GuestTypeOK
<1>4. QED
  BY <1>1, <1>2, <1>3, MaxIsNat DEF Init, GuestInit, Charged, QuotaIsSpentOnAnswers

LEMMA NextKeepsCharged == Charged /\ [Next]_vars => Charged'
<1> SUFFICES ASSUME Charged, [Next]_vars PROVE Charged'
  OBVIOUS
<1>1. CASE UNCHANGED guestVars
  <2>1. GuestTypeOK'
    BY <1>1 DEF guestVars, Charged, GuestTypeOK
  <2>2. QED
    BY <1>1, <2>1, QuotaStays DEF guestVars, Count
<1>2. ASSUME NEW id \in SessionIds, ResetSession(id)
      PROVE  Charged'
  <2>1. GuestTypeOK'
    BY <1>2 DEF ResetSession, Charged, GuestTypeOK
  <2>2. QED
    BY <1>2, <2>1, QuotaStays DEF ResetSession, Count
<1>3. ASSUME NEW d \in SessionData, SessionAges(d)
      PROVE  Charged'
  <2> DEFINE n == [session[d] EXCEPT !.old = TRUE]
  <2>1. /\ session[d] # NULL /\ session' = [session EXCEPT ![d] = n]
        /\ UNCHANGED <<sessionStore, guest, guestAnswered>>
    BY <1>3 DEF SessionAges
  <2>2. session[d] \in Sessions
    BY <2>1 DEF Charged, GuestTypeOK
  <2>3. n \in Sessions /\ n.questionCount = session[d].questionCount
    BY <2>2 DEF Sessions
  <2> HIDE DEF n
  <2>4. GuestTypeOK'
    BY <2>1, <2>3 DEF Charged, GuestTypeOK
  <2>5. \A c \in SessionData : session'[c] = IF c = d THEN n ELSE session[c]
    BY <2>1 DEF Charged, GuestTypeOK
  <2>6. \A c \in SessionData : Count(c)' = Count(c)
    BY <2>1, <2>3, <2>5, NullIsNoQuestion DEF Count
  <2>7. QED
    BY <2>1, <2>4, <2>6, QuotaStays
<1>4. CASE CleanupOldSessions
  <2>1. GuestTypeOK'
    BY <1>4 DEF CleanupOldSessions, Charged, GuestTypeOK
  <2>2. QED
    BY <1>4, <2>1, QuotaStays DEF CleanupOldSessions, Count
<1>5. CASE Crash
  BY <1>5, NobodyIsCharged DEF Crash, GuestCrash
<1>6. CASE ChatbotController
  BY <1>2, <1>6, AskKeepsCharged DEF ChatbotController
<1>7. CASE GuestGoesOn
  BY <1>3, <1>4, <1>7, ReplyKeepsCharged, FailureKeepsCharged DEF GuestGoesOn
<1>8. QED
  BY <1>1, <1>5, <1>6, <1>7 DEF Next, Calls, GoesOn, vars

\* No visitor gets more answers than the limit from one session, and none is
\* charged for a question that failed: however the questions of a session
\* overlap, and whatever resets, cleanups and restarts make of it meanwhile
\* (ChatbotService.chat).
THEOREM QuotaHolds == Spec => []QuotaIsSpentOnAnswers
<1>1. Charged => QuotaIsSpentOnAnswers
  BY DEF Charged
<1>2. QED
  BY <1>1, InitIsCharged, NextKeepsCharged, PTL DEF Spec

-----------------------------------------------------------------------------
(* The conversations of signed-in users *)

LEMMA IdleTaskType ==
    IdleTask \in Tasks /\ IdleTask.at = "idle" /\ IdleTask.op = "none" /\ IdleTask.data = NULL
  <1>1. MaxRequests \in Nat
    BY ChatbotAssumption DEF ChatbotAssumption
  <1>2. IdleTask \in Tasks
    BY <1>1 DEF IdleTask, Tasks
  <1>3. QED
    BY <1>2 DEF IdleTask

LEMMA NullIsNobody == NULL \notin Users /\ NULL \notin Conversations /\ NULL \notin Rows
  BY ChatbotAssumption DEF ChatbotAssumption

LEMMA NewConversationType ==
    ASSUME NEW u \in Users
    PROVE  NewConversation(u) \in Rows /\ NewConversation(u).user = u
  BY EmptySeq DEF NewConversation, Rows

LEMMA ChangedType ==
    ASSUME NEW entity \in Rows, NEW row \in Rows, entity.user = row.user
    PROVE  Changed(entity, row) \in SUBSET {"messages", "messageCount", "isActive"}
  BY DEF Changed, Rows

\* An UPDATE never changes whose conversation it is.
LEMMA WrittenType ==
    ASSUME NEW entity \in Rows, NEW row \in Rows,
           NEW cols \in SUBSET {"messages", "messageCount", "isActive"}
    PROVE  Written(row, entity, cols) \in Rows /\ Written(row, entity, cols).user = row.user
  BY DEF Written, Rows

Entries == [user : Users, permissions : SUBSET ValidPermission]

ChatTypeOK ==
    /\ conversation \in [Conversations -> Rows \cup {NULL}]
    /\ permissions \in [Users -> SUBSET ValidPermission]
    /\ requests \in 0..MaxRequests
    /\ chats \in Seq(Entries)
    /\ Len(chats) <= requests
    /\ answered \subseteq Answers

\* What is known of a request in flight, in view of the table and the history:
\* a chat is remembered as it was asked, what it executed was granted, and the
\* conversation it holds is its user's, and still there.
Sound(t, rows, asked) ==
    /\ t \in Tasks
    /\ t.at # "idle" => t.user \in Users
    /\ t.at \in {"ask", "execute", "phrase", "insert"} => t.op = "chat"
    /\ t.at \in {"load", "select", "write"} => t.conversation \in Conversations
    /\ t.at = "execute" => t.function \in Asked
    /\ t.data # NULL => Needs[t.data] \subseteq t.permissions
    /\ t.op = "chat" =>
          /\ t.exchange \in 1..Len(asked)
          /\ asked[t.exchange] = [user |-> t.user, permissions |-> t.permissions]
    /\ t.at \in {"ask", "execute", "phrase", "select", "write", "insert"} =>
          /\ t.entity \in Rows
          /\ t.entity.user = t.user
          /\ t.conversation # NULL =>
                rows[t.conversation] # NULL /\ rows[t.conversation].user = t.user

\* The same of an answer that was given.
SoundAnswer(a, rows, asked) ==
    /\ a.exchange \in 1..Len(asked)
    /\ rows[a.conversation] # NULL
    /\ rows[a.conversation].user = asked[a.exchange].user
    /\ a.data # NULL => Needs[a.data] \subseteq asked[a.exchange].permissions

Inside ==
    /\ ChatTypeOK
    /\ task \in [ChatSlots -> Tasks]
    /\ \A s \in ChatSlots : Sound(task[s], conversation, chats)
    /\ \A a \in answered : SoundAnswer(a, conversation, chats)

\* Nothing is deleted and nothing changes hands, and history only grows.
Grows(rows, rowsN, asked, askedN) ==
    /\ \A c \in Conversations :
          rows[c] # NULL => rowsN[c] # NULL /\ rowsN[c].user = rows[c].user
    /\ Len(asked) \in Nat /\ Len(askedN) \in Nat
    /\ Len(askedN) >= Len(asked)
    /\ \A e \in 1..Len(asked) : askedN[e] = asked[e]

LEMMA SoundStays ==
    ASSUME NEW t, NEW rows, NEW rowsN, NEW asked, NEW askedN,
           Grows(rows, rowsN, asked, askedN), Sound(t, rows, asked)
    PROVE  Sound(t, rowsN, askedN)
<1>1. t.op = "chat" =>
          /\ t.exchange \in 1..Len(askedN)
          /\ askedN[t.exchange] = [user |-> t.user, permissions |-> t.permissions]
  BY DEF Sound, Grows
<1>2. t.conversation # NULL => t.conversation \in Conversations
  BY DEF Sound, Tasks
<1>3. QED
  BY <1>1, <1>2 DEF Sound, Grows

LEMMA SoundAnswerStays ==
    ASSUME NEW a \in Answers, NEW rows, NEW rowsN, NEW asked, NEW askedN,
           Grows(rows, rowsN, asked, askedN), SoundAnswer(a, rows, asked)
    PROVE  SoundAnswer(a, rowsN, askedN)
  BY DEF SoundAnswer, Grows, Answers

LEMMA IdleIsSound == \A rows, asked : Sound(IdleTask, rows, asked)
  BY IdleTaskType DEF Sound

LEMMA LenIsNat == ChatTypeOK => Len(chats) \in Nat
  BY LenProperties DEF ChatTypeOK

\* A request goes on, and what it writes is sound.
LEMMA MoveKeepsInside ==
    ASSUME Inside, NEW s \in ChatSlots, NEW n, Becomes(s, n), ChatTypeOK',
           Grows(conversation, conversation', chats, chats'),
           Sound(n, conversation', chats'),
           \A a \in answered' \ answered : SoundAnswer(a, conversation', chats')
    PROVE  Inside'
<1>1. task' \in [ChatSlots -> Tasks]
  BY DEF Inside, Becomes, Sound
<1>2. \A r \in ChatSlots : Sound(task'[r], conversation', chats')
  <2> SUFFICES ASSUME NEW r \in ChatSlots
               PROVE  Sound(task'[r], conversation', chats')
    OBVIOUS
  <2>1. CASE r = s
    BY <2>1 DEF Inside, Becomes
  <2>2. CASE r # s
    <3>1. task'[r] = task[r]
      BY <2>2 DEF Inside, Becomes
    <3>2. QED
      BY <3>1, SoundStays DEF Inside
  <2>3. QED
    BY <2>1, <2>2
<1>3. \A a \in answered' : SoundAnswer(a, conversation', chats')
  BY SoundAnswerStays DEF Inside, ChatTypeOK
<1>4. QED
  BY <1>1, <1>2, <1>3 DEF Inside

LEMMA StillGrows ==
    ASSUME Inside, UNCHANGED <<conversation, chats>>
    PROVE  Grows(conversation, conversation', chats, chats')
  BY LenIsNat DEF Inside, Grows

\* A request goes on and writes nothing.
LEMMA QuietMoveKeepsInside ==
    ASSUME Inside, NEW s \in ChatSlots, NEW n, Becomes(s, n),
           Sound(n, conversation, chats),
           UNCHANGED <<conversation, permissions, chats, answered, requests>>
    PROVE  Inside'
<1>1. ChatTypeOK'
  BY DEF Inside, ChatTypeOK
<1>2. QED
  BY <1>1, StillGrows, MoveKeepsInside

\* The exchange is pushed into the entity.
LEMMA PushedIsSound ==
    ASSUME Inside, NEW t, Sound(t, conversation, chats), t.at \in {"ask", "execute", "phrase"}
    PROVE  Sound(Pushed(t), conversation, chats)
<1> DEFINE messages == Append(t.entity.messages, t.exchange)
           e == [t.entity EXCEPT !.messages = messages, !.messageCount = 2 * Len(messages)]
           n == [t EXCEPT !.entity = e,
                          !.at = IF t.conversation = NULL THEN "insert" ELSE "select"]
<1>1. t \in Tasks /\ t.entity \in Rows /\ t.op = "chat" /\ t.exchange \in 1..Len(chats)
  BY DEF Sound
<1>2. t.exchange \in Exchanges
  <2>1. Len(chats) \in Nat /\ Len(chats) <= requests /\ requests \in 0..MaxRequests
    BY LenIsNat DEF Inside, ChatTypeOK
  <2>2. MaxRequests \in Nat
    BY ChatbotAssumption DEF ChatbotAssumption
  <2>3. QED
    BY <1>1, <2>1, <2>2 DEF Exchanges
<1>3. messages \in Seq(Exchanges) /\ Len(messages) \in Nat
  <2>1. t.entity.messages \in Seq(Exchanges)
    BY <1>1 DEF Rows
  <2>2. messages \in Seq(Exchanges)
    BY <1>2, <2>1, AppendProperties
  <2>3. QED
    BY <2>2, LenProperties
<1>4. 2 * Len(messages) \in Nat
  BY <1>3
<1> HIDE DEF messages
<1>5. e \in Rows /\ e.user = t.entity.user
  BY <1>1, <1>3, <1>4 DEF Rows
<1>6. Pushed(t) = n
  BY DEF Pushed, messages
<1> HIDE DEF e
<1>7. /\ n \in Tasks /\ n.entity = e
      /\ n.at = IF t.conversation = NULL THEN "insert" ELSE "select"
      /\ n.op = t.op /\ n.user = t.user /\ n.permissions = t.permissions
      /\ n.exchange = t.exchange /\ n.conversation = t.conversation /\ n.data = t.data
  BY <1>1, <1>5 DEF Tasks
<1> HIDE DEF n
<1>8. t.conversation # NULL => t.conversation \in Conversations
  BY <1>1 DEF Tasks
<1>9. QED
  BY <1>1, <1>5, <1>6, <1>7, <1>8 DEF Sound

\* A chat is asked: it is remembered, and takes a request.
LEMMA ChatKeepsInside ==
    ASSUME Inside, NEW s \in ChatSlots, NEW u \in Users, NEW c \in Conversations \cup {NULL},
           Chat(s, u, c), requests < MaxRequests, requests' = requests + 1
    PROVE  Inside'
<1> DEFINE entry == [user |-> u, permissions |-> permissions[u]]
           t == [IdleTask EXCEPT !.op = "chat", !.user = u, !.permissions = permissions[u],
                                 !.exchange = Len(chats) + 1]
           fresh == [t EXCEPT !.at = "ask", !.entity = NewConversation(u)]
           known == [t EXCEPT !.at = "load", !.conversation = c]
           n == IF c = NULL THEN fresh ELSE known
<1>1. /\ Becomes(s, n) /\ chats' = Append(chats, entry)
      /\ UNCHANGED <<conversation, permissions, answered>>
  BY DEF Chat
<1>2. ChatTypeOK /\ entry \in Entries /\ entry.user = u
  BY DEF Inside, ChatTypeOK, Entries
<1>3. /\ Len(chats) \in Nat /\ MaxRequests \in Nat /\ requests \in Nat
      /\ Len(chats) <= requests
  BY <1>2, LenIsNat, ChatbotAssumption DEF ChatTypeOK, ChatbotAssumption
<1>4. Len(chats) + 1 \in 0..MaxRequests
  BY <1>3
<1>5. /\ chats' \in Seq(Entries) /\ Len(chats') = Len(chats) + 1
      /\ \A e \in 1..Len(chats) : chats'[e] = chats[e]
      /\ chats'[Len(chats) + 1] = entry
  BY <1>1, <1>2, AppendProperties DEF ChatTypeOK
<1>6. ChatTypeOK'
  BY <1>1, <1>2, <1>3, <1>5 DEF ChatTypeOK
<1>7. Grows(conversation, conversation', chats, chats')
  BY <1>1, <1>3, <1>5 DEF Grows
<1>8. /\ t \in Tasks /\ t.op = "chat" /\ t.user = u /\ t.permissions = permissions[u]
      /\ t.exchange = Len(chats) + 1 /\ t.conversation = NULL /\ t.data = NULL
  BY <1>2, <1>4, IdleTaskType DEF Tasks, ChatOps, ChatTypeOK, IdleTask
<1> HIDE DEF t
<1>9. NewConversation(u) \in Rows /\ NewConversation(u).user = u
  BY NewConversationType
<1>10. /\ n \in Tasks /\ n.op = "chat" /\ n.user = u /\ n.permissions = permissions[u]
       /\ n.exchange = Len(chats) + 1 /\ n.data = NULL
       /\ c = NULL => n.at = "ask" /\ n.conversation = NULL /\ n.entity = NewConversation(u)
       /\ c # NULL => n.at = "load" /\ n.conversation = c
  BY <1>8, <1>9 DEF Tasks
<1> HIDE DEF n
<1>11. n.exchange \in 1..Len(chats')
  BY <1>3, <1>5, <1>10
<1>12. Sound(n, conversation', chats')
  BY <1>5, <1>9, <1>10, <1>11 DEF Sound
<1>13. QED
  BY <1>1, <1>6, <1>7, <1>12, MoveKeepsInside

LEMMA OtherCallKeepsTypes ==
    ASSUME ChatTypeOK, requests < MaxRequests, requests' = requests + 1,
           permissions' \in [Users -> SUBSET ValidPermission],
           UNCHANGED <<conversation, chats, answered>>
    PROVE  ChatTypeOK'
<1>1. /\ Len(chats) \in Nat /\ MaxRequests \in Nat /\ requests \in Nat
      /\ Len(chats) <= requests
  BY LenIsNat, ChatbotAssumption DEF ChatTypeOK, ChatbotAssumption
<1>2. requests + 1 \in 0..MaxRequests /\ Len(chats) <= requests + 1
  BY <1>1
<1>3. QED
  BY <1>2 DEF ChatTypeOK

LEMMA DeleteKeepsInside ==
    ASSUME Inside, NEW s \in ChatSlots, NEW u \in Users, NEW c \in Conversations,
           DeleteConversation(s, u, c), requests < MaxRequests, requests' = requests + 1
    PROVE  Inside'
<1> DEFINE n == [IdleTask EXCEPT !.op = "delete", !.at = "load", !.user = u,
                                 !.conversation = c]
<1>1. Becomes(s, n) /\ UNCHANGED <<conversation, permissions, chats, answered>>
  BY DEF DeleteConversation
<1>2. ChatTypeOK'
  BY <1>1, OtherCallKeepsTypes DEF Inside, ChatTypeOK
<1>3. /\ n \in Tasks /\ n.op = "delete" /\ n.at = "load" /\ n.user = u
      /\ n.conversation = c /\ n.data = NULL
  BY IdleTaskType DEF Tasks, ChatOps
<1> HIDE DEF n
<1>4. Sound(n, conversation, chats)
  BY <1>3 DEF Sound
<1>5. QED
  BY <1>1, <1>2, <1>4, StillGrows, MoveKeepsInside

LEMMA LoadKeepsInside ==
    ASSUME Inside, NEW s \in ChatSlots, LoadConversation(s), requests' = requests
    PROVE  Inside'
<1> DEFINE t == task[s]
           row == FindConversation(t.conversation, t.user)
           asks == [t EXCEPT !.at = "ask", !.entity = row]
           e == [row EXCEPT !.isActive = FALSE]
           deletes == [t EXCEPT !.at = "select", !.entity = e]
           n == IF row = NULL THEN IdleTask ELSE IF t.op = "chat" THEN asks ELSE deletes
<1>1. t.at = "load" /\ Becomes(s, n)
      /\ UNCHANGED <<conversation, permissions, chats, answered, requests>>
  BY DEF LoadConversation
<1>2. Sound(t, conversation, chats) /\ t \in Tasks /\ t.conversation \in Conversations
      /\ t.user \in Users
  BY <1>1 DEF Inside, Sound
<1>3. row # NULL => /\ row \in Rows /\ row.user = t.user
                    /\ row = conversation[t.conversation]
  BY <1>2 DEF FindConversation, Inside, ChatTypeOK
<1> HIDE DEF row
<1>4. row # NULL => e \in Rows /\ e.user = t.user
  BY <1>3 DEF Rows
<1> HIDE DEF e
<1>5. row # NULL =>
         /\ n \in Tasks /\ n.op = t.op /\ n.user = t.user /\ n.permissions = t.permissions
         /\ n.exchange = t.exchange /\ n.data = t.data /\ n.conversation = t.conversation
         /\ n.entity \in Rows /\ n.entity.user = t.user
         /\ t.op = "chat" => n.at = "ask"
         /\ t.op # "chat" => n.at = "select"
  BY <1>2, <1>3, <1>4 DEF Tasks
<1>6. CASE row = NULL
  BY <1>1, <1>6, IdleIsSound, QuietMoveKeepsInside
<1>7. CASE row # NULL
  <2> HIDE DEF n
  <2>1. Sound(n, conversation, chats)
    BY <1>2, <1>3, <1>5, <1>7 DEF Sound
  <2>2. QED
    BY <1>1, <2>1, QuietMoveKeepsInside
<1>8. QED
  BY <1>6, <1>7

LEMMA ModelKeepsInside ==
    ASSUME Inside, NEW s \in ChatSlots, AskModel(s) \/ Execute(s) \/ PhraseResult(s),
           requests' = requests
    PROVE  Inside'
<1> DEFINE t == task[s]
<1>1. Sound(t, conversation, chats) /\ t \in Tasks /\ t.at \in {"ask", "execute", "phrase"}
      /\ UNCHANGED <<conversation, permissions, chats, answered, requests>>
  BY DEF Inside, AskModel, Execute, PhraseResult
<1>2. CASE Becomes(s, Pushed(t))
  BY <1>1, <1>2, PushedIsSound, QuietMoveKeepsInside
<1>3. ASSUME t.at = "ask", NEW f \in Asked,
             Becomes(s, [t EXCEPT !.at = "execute", !.function = f])
      PROVE  Inside'
  <2> DEFINE n == [t EXCEPT !.at = "execute", !.function = f]
  <2>1. /\ n \in Tasks /\ n.at = "execute" /\ n.function = f
        /\ n.op = t.op /\ n.user = t.user /\ n.permissions = t.permissions
        /\ n.exchange = t.exchange /\ n.data = t.data /\ n.conversation = t.conversation
        /\ n.entity = t.entity
    BY <1>1 DEF Tasks
  <2>2. Becomes(s, n)
    BY <1>3
  <2> HIDE DEF n
  <2>3. Sound(n, conversation, chats)
    BY <1>1, <1>3, <2>1 DEF Sound
  <2>4. QED
    BY <1>1, <2>2, <2>3, QuietMoveKeepsInside
<1>4. ASSUME t.at = "execute", MayExecute(t.function, t.permissions),
             Becomes(s, [t EXCEPT !.at = "phrase", !.data = t.function])
      PROVE  Inside'
  <2> DEFINE n == [t EXCEPT !.at = "phrase", !.data = t.function]
  <2>1. /\ n \in Tasks /\ n.at = "phrase" /\ n.data = t.function
        /\ n.op = t.op /\ n.user = t.user /\ n.permissions = t.permissions
        /\ n.exchange = t.exchange /\ n.conversation = t.conversation
        /\ n.entity = t.entity
    BY <1>1 DEF Tasks
  <2>2. Becomes(s, n)
    BY <1>4
  <2> HIDE DEF n
  <2>3. Sound(n, conversation, chats)
    BY <1>1, <1>4, <2>1 DEF Sound, MayExecute
  <2>4. QED
    BY <1>1, <2>2, <2>3, QuietMoveKeepsInside
<1>5. QED
  BY <1>2, <1>3, <1>4 DEF AskModel, Execute, PhraseResult

\* The entity is saved, which gives an answer if it was asked for.
LEMMA AnswerIsSound ==
    ASSUME NEW t, NEW c \in Conversations, NEW rows, NEW asked, Sound(t, rows, asked),
           t.op = "chat", rows[c] # NULL, rows[c].user = t.user,
           ChatTypeOK, Answer(t, c), Len(asked) = Len(chats),
           Len(chats) <= MaxRequests
    PROVE  /\ answered' \subseteq Answers
           /\ \A a \in answered' \ answered : SoundAnswer(a, rows, asked)
<1> DEFINE a == [exchange |-> t.exchange, conversation |-> c, data |-> t.data]
<1>1. answered' = answered \cup {a}
  BY DEF Answer
<1>2. t \in Tasks /\ t.exchange \in 1..Len(asked)
      /\ asked[t.exchange] = [user |-> t.user, permissions |-> t.permissions]
  BY DEF Sound
<1>3. t.exchange \in Exchanges
  <2>1. Len(chats) \in Nat /\ MaxRequests \in Nat
    BY LenIsNat, ChatbotAssumption DEF ChatbotAssumption
  <2>2. QED
    BY <1>2, <2>1 DEF Exchanges
<1>4. a \in Answers
  BY <1>2, <1>3 DEF Answers, Tasks
<1>5. SoundAnswer(a, rows, asked)
  BY <1>2 DEF SoundAnswer, Sound
<1>6. QED
  BY <1>1, <1>4, <1>5 DEF ChatTypeOK

LEMMA AskedIsBounded == ChatTypeOK => Len(chats) <= MaxRequests
<1> SUFFICES ASSUME ChatTypeOK PROVE Len(chats) <= MaxRequests
  OBVIOUS
<1>1. Len(chats) \in Nat /\ MaxRequests \in Nat /\ requests \in 0..MaxRequests
      /\ Len(chats) <= requests
  BY LenIsNat, ChatbotAssumption DEF ChatTypeOK, ChatbotAssumption
<1>2. QED
  BY <1>1

LEMMA InsertKeepsInside ==
    ASSUME Inside, NEW s \in ChatSlots, NEW c \in Conversations, InsertConversation(s, c),
           requests' = requests
    PROVE  Inside'
<1> DEFINE t == task[s]
<1>1. /\ t.at = "insert" /\ conversation[c] = NULL
      /\ conversation' = [conversation EXCEPT ![c] = t.entity]
      /\ Answer(t, c) /\ Becomes(s, IdleTask)
      /\ UNCHANGED <<permissions, chats, requests>>
  BY DEF InsertConversation
<1>2. Sound(t, conversation, chats) /\ ChatTypeOK /\ Len(chats) \in Nat
  BY LenIsNat DEF Inside
<1>3. t.entity \in Rows /\ t.entity.user = t.user /\ t.op = "chat"
  BY <1>1, <1>2 DEF Sound
<1>4. conversation' \in [Conversations -> Rows \cup {NULL}]
  BY <1>1, <1>2, <1>3 DEF ChatTypeOK
<1>5. \A d \in Conversations : conversation'[d] = IF d = c THEN t.entity ELSE conversation[d]
  BY <1>1, <1>2 DEF ChatTypeOK
<1>6. Grows(conversation, conversation', chats, chats')
  BY <1>1, <1>2, <1>5 DEF Grows
<1>7. Sound(t, conversation', chats')
  BY <1>2, <1>6, SoundStays
<1>8. conversation'[c] # NULL /\ conversation'[c].user = t.user
  BY <1>3, <1>5, NullIsNobody
<1>9. /\ answered' \subseteq Answers
      /\ \A a \in answered' \ answered : SoundAnswer(a, conversation', chats')
  BY <1>1, <1>2, <1>3, <1>7, <1>8, AskedIsBounded, AnswerIsSound
<1>10. ChatTypeOK'
  BY <1>1, <1>2, <1>4, <1>9 DEF ChatTypeOK
<1>11. QED
  BY <1>1, <1>6, <1>9, <1>10, IdleIsSound, MoveKeepsInside

LEMMA SelectKeepsInside ==
    ASSUME Inside, NEW s \in ChatSlots, SelectConversation(s), requests' = requests
    PROVE  Inside'
<1> DEFINE t == task[s]
           cols == Changed(t.entity, conversation[t.conversation])
           n == [t EXCEPT !.at = "write", !.cols = cols]
<1>1. t.at = "select" /\ Becomes(s, n)
      /\ UNCHANGED <<conversation, permissions, chats, answered, requests>>
  BY DEF SelectConversation
<1>2. Sound(t, conversation, chats) /\ ChatTypeOK
  BY DEF Inside
<1>3. /\ t \in Tasks /\ t.conversation \in Conversations /\ t.conversation # NULL
      /\ t.entity \in Rows /\ t.entity.user = t.user
      /\ conversation[t.conversation] # NULL
      /\ conversation[t.conversation].user = t.user
  BY <1>1, <1>2, NullIsNobody DEF Sound
<1>4. cols \in SUBSET {"messages", "messageCount", "isActive"}
  BY <1>2, <1>3, ChangedType DEF ChatTypeOK
<1> HIDE DEF cols
<1>5. /\ n \in Tasks /\ n.at = "write" /\ n.conversation = t.conversation
      /\ n.op = t.op /\ n.user = t.user /\ n.permissions = t.permissions
      /\ n.exchange = t.exchange /\ n.data = t.data /\ n.entity = t.entity
  BY <1>3, <1>4 DEF Tasks
<1> HIDE DEF n
<1>6. Sound(n, conversation, chats)
  BY <1>1, <1>2, <1>5 DEF Sound
<1>7. QED
  BY <1>1, <1>6, QuietMoveKeepsInside

LEMMA WriteKeepsInside ==
    ASSUME Inside, NEW s \in ChatSlots, WriteConversation(s), requests' = requests
    PROVE  Inside'
<1> DEFINE t == task[s]
           c == t.conversation
           new == Written(conversation[c], t.entity, t.cols)
<1>1. /\ t.at = "write" /\ Becomes(s, IdleTask)
      /\ conversation' = [conversation EXCEPT ![c] = new]
      /\ IF t.op = "chat" THEN Answer(t, c) ELSE UNCHANGED answered
      /\ UNCHANGED <<permissions, chats, requests>>
  BY DEF WriteConversation
<1>2. Sound(t, conversation, chats) /\ ChatTypeOK /\ Len(chats) \in Nat
  BY LenIsNat DEF Inside
<1>3. /\ t \in Tasks /\ c \in Conversations /\ c # NULL
      /\ t.entity \in Rows
      /\ conversation[c] # NULL /\ conversation[c].user = t.user
      /\ conversation[c] \in Rows
  BY <1>1, <1>2, NullIsNobody DEF Sound, ChatTypeOK
<1>4. new \in Rows /\ new.user = t.user
  BY <1>3, WrittenType DEF Tasks
<1> HIDE DEF new
<1>5. conversation' \in [Conversations -> Rows \cup {NULL}]
  BY <1>1, <1>2, <1>3, <1>4 DEF ChatTypeOK
<1>6. \A d \in Conversations : conversation'[d] = IF d = c THEN new ELSE conversation[d]
  BY <1>1, <1>2, <1>3 DEF ChatTypeOK
<1>7. Grows(conversation, conversation', chats, chats')
  BY <1>1, <1>2, <1>3, <1>4, <1>6, NullIsNobody DEF Grows
<1>8. Sound(t, conversation', chats')
  BY <1>2, <1>7, SoundStays
<1>9. conversation'[c] # NULL /\ conversation'[c].user = t.user
  BY <1>3, <1>4, <1>6, NullIsNobody
<1>10. /\ answered' \subseteq Answers
       /\ \A a \in answered' \ answered : SoundAnswer(a, conversation', chats')
  <2>1. CASE t.op = "chat"
    BY <1>1, <1>2, <1>3, <1>8, <1>9, <2>1, AskedIsBounded, AnswerIsSound
  <2>2. CASE t.op # "chat"
    BY <1>1, <1>2, <2>2 DEF ChatTypeOK
  <2>3. QED
    BY <2>1, <2>2
<1>11. ChatTypeOK'
  BY <1>1, <1>2, <1>5, <1>10 DEF ChatTypeOK
<1>12. QED
  BY <1>1, <1>7, <1>10, <1>11, IdleIsSound, MoveKeepsInside

LEMMA InitIsInside == Init => Inside
<1> SUFFICES ASSUME Init PROVE Inside
  OBVIOUS
<1>1. MaxRequests \in Nat /\ Grantable \subseteq ValidPermission
  BY ChatbotAssumption DEF ChatbotAssumption
<1>2. chats = <<>> /\ Len(chats) = 0 /\ chats \in Seq(Entries)
  BY EmptySeq DEF Init, ChatInit
<1>3. ChatTypeOK
  BY <1>1, <1>2 DEF Init, ChatInit, ChatTypeOK
<1>4. QED
  BY <1>3, IdleTaskType, IdleIsSound DEF Init, ChatInit, Inside

LEMMA NextKeepsInside == Inside /\ [Next]_vars => Inside'
<1> SUFFICES ASSUME Inside, [Next]_vars PROVE Inside'
  OBVIOUS
<1>1. CASE UNCHANGED <<chatVars, requests>>
  BY <1>1 DEF chatVars, Inside, ChatTypeOK
<1>2. CASE Calls
  <2>1. requests < MaxRequests /\ requests' = requests + 1
    BY <1>2 DEF Calls
  <2>2. CASE UNCHANGED chatVars
    <3>1. ChatTypeOK'
      BY <2>1, <2>2, OtherCallKeepsTypes DEF chatVars, Inside, ChatTypeOK
    <3>2. QED
      BY <2>2, <3>1 DEF chatVars, Inside
  <2>3. CASE AuthenticatedChatbotController
    BY <2>1, <2>3, ChatKeepsInside, DeleteKeepsInside DEF AuthenticatedChatbotController
  <2>4. ASSUME NEW u \in Users, ChangePermissions(u)
        PROVE  Inside'
    <3>1. UNCHANGED <<conversation, task, chats, answered>>
      BY <2>4 DEF ChangePermissions
    <3>2. permissions' \in [Users -> SUBSET ValidPermission]
      BY <2>4, ChatbotAssumption DEF ChangePermissions, Inside, ChatTypeOK, ChatbotAssumption
    <3>3. ChatTypeOK'
      BY <2>1, <3>1, <3>2, OtherCallKeepsTypes DEF Inside
    <3>4. QED
      BY <3>1, <3>3 DEF Inside
  <2>5. QED
    BY <1>2, <2>2, <2>3, <2>4 DEF Calls
<1>3. CASE GoesOn
  <2>1. requests' = requests
    BY <1>3 DEF GoesOn
  <2>2. CASE ChatGoesOn
    <3>1. ASSUME NEW s \in ChatSlots, ChatFails(s)
          PROVE  Inside'
      BY <2>1, <3>1, IdleIsSound, QuietMoveKeepsInside DEF ChatFails
    <3>2. QED
      BY <2>1, <2>2, <3>1, LoadKeepsInside, ModelKeepsInside, InsertKeepsInside,
         SelectKeepsInside, WriteKeepsInside DEF ChatGoesOn
  <2>3. QED
    BY <1>1, <1>3, <2>1, <2>2 DEF GoesOn
<1>4. CASE Crash
  <2>1. /\ task' = [s \in ChatSlots |-> IdleTask]
        /\ UNCHANGED <<conversation, permissions, requests, chats, answered>>
    BY <1>4 DEF Crash
  <2>2. QED
    BY <2>1, IdleTaskType, IdleIsSound DEF Inside, ChatTypeOK
<1>5. QED
  BY <1>1, <1>2, <1>3, <1>4 DEF Next, vars

\* The visitors' and the users' state keeps its types: no count of questions
\* passes its limit or goes below zero.
THEOREM ChatbotTypeCorrect == Spec => []TypeOK
<1>1. Charged /\ Inside => TypeOK
  BY AskedIsBounded DEF Charged, Inside, ChatTypeOK, TypeOK, Entries
<1>2. QED
  BY <1>1, InitIsCharged, NextKeepsCharged, InitIsInside, NextKeepsInside, PTL DEF Spec

\* An answer ends up with the user who asked, and no function is executed for
\* it that the roles of that user did not grant, whatever the model asks for
\* and however chats, deletions and changes of roles overlap.
THEOREM AnswersStay == Spec => []AnswersStayInside
<1>1. Inside => AnswersStayInside
  <2> SUFFICES ASSUME Inside, NEW a \in answered
               PROVE  /\ conversation[a.conversation].user = chats[a.exchange].user
                      /\ a.data # NULL => Needs[a.data] \subseteq chats[a.exchange].permissions
    BY DEF AnswersStayInside
  <2>1. QED
    BY DEF Inside, SoundAnswer
<1>2. QED
  BY <1>1, InitIsInside, NextKeepsInside, PTL DEF Spec

-----------------------------------------------------------------------------
(* Nothing said is lost *)

\* One chat and one deletion at a time, in one slot or beside each other.
OneChat == \A s, r \in ChatSlots : "chat" \in ChatWorkload[s] \cap ChatWorkload[r] => s = r

OneDelete == \A s, r \in ChatSlots : "delete" \in ChatWorkload[s] \cap ChatWorkload[r] => s = r

\* Every answer given in conversation c is among the messages.
Whole(ms, c, A) == \A a \in A : a.conversation = c => \E i \in 1..Len(ms) : ms[i] = a.exchange

Ascending(ms) == \A i \in 1..(Len(ms) - 1) : ms[i] < ms[i + 1]

Below(ms, n) == \A i \in 1..Len(ms) : ms[i] < n

Counted(row) == row.messageCount = 2 * Len(row.messages)

GoodRow(row, c, A, k) ==
    /\ Counted(row) /\ Below(row.messages, k + 1)
    /\ row.isActive => Whole(row.messages, c, A) /\ Ascending(row.messages)

Thinking == {"ask", "execute", "phrase"}

Pushing == {"select", "insert", "write"}

\* A chat's exchange is newer than all that is stored; what it has loaded is
\* at least as long as the row, and whole unless it was deleted, for then the
\* row stays deleted.
GoodChat(t, rows, A, k) ==
    t.op = "chat" =>
        /\ \A c \in Conversations : rows[c] # NULL => Below(rows[c].messages, t.exchange)
        /\ t.at \in Thinking \cup Pushing =>
              /\ Counted(t.entity)
              /\ t.entity.isActive =>
                    Whole(t.entity.messages, t.conversation, A) /\ Ascending(t.entity.messages)
              /\ t.conversation # NULL /\ rows[t.conversation].isActive => t.entity.isActive
        /\ t.at \in Thinking =>
              /\ Below(t.entity.messages, t.exchange)
              /\ t.conversation # NULL =>
                    Len(rows[t.conversation].messages) <= Len(t.entity.messages)
        /\ t.at \in Pushing =>
              /\ Below(t.entity.messages, k + 1)
              /\ \E i \in 1..Len(t.entity.messages) : t.entity.messages[i] = t.exchange
              /\ t.conversation # NULL =>
                    Len(rows[t.conversation].messages) < Len(t.entity.messages)
        /\ t.at = "write" => {"messages", "messageCount"} \subseteq t.cols

Saving(d) == d.op = "delete" /\ d.at \in {"select", "write"}

\* A deletion that will not mark the row inactive writes nothing or finds it so.
GoodDelete(d, rows, k) ==
    Saving(d) =>
        LET row == rows[d.conversation] IN
        /\ ~ d.entity.isActive /\ Counted(d.entity) /\ Below(d.entity.messages, k + 1)
        /\ d.entity.messages = row.messages \/ Len(d.entity.messages) < Len(row.messages)
        /\ d.at = "write" =>
              /\ "messages" \in d.cols <=> "messageCount" \in d.cols
              /\ "isActive" \in d.cols \/ d.cols = {} \/ ~ row.isActive

\* A deletion beside a chat that will make the row active again leaves no old
\* messages in an active row.
Beside(d, t, rows) ==
    Saving(d) /\ t.op = "chat" =>
        LET row == rows[d.conversation] IN
        /\ Below(d.entity.messages, t.exchange)
        /\ t.at \in Thinking \cup Pushing /\ t.conversation = d.conversation
              /\ t.entity.isActive =>
                 /\ d.at = "select" /\ ~ row.isActive => d.entity.messages = row.messages
                 /\ d.at = "write" => "isActive" \in d.cols \/ d.cols = {}

\* A slot is at one of its handlers, or at rest.
Doing(s, t) == t.op \in ChatWorkload[s] \/ (t.op = "none" /\ t.at = "idle")

Kept ==
    /\ \A s \in ChatSlots : Doing(s, task[s])
    /\ \A c \in Conversations :
          conversation[c] # NULL => GoodRow(conversation[c], c, answered, Len(chats))
    /\ \A s \in ChatSlots :
          /\ GoodChat(task[s], conversation, answered, Len(chats))
          /\ GoodDelete(task[s], conversation, Len(chats))
    /\ \A s, r \in ChatSlots : Beside(task[s], task[r], conversation)

LEMMA IdleIsKept ==
    \A t, rows, A, k :
        /\ GoodChat(IdleTask, rows, A, k) /\ GoodDelete(IdleTask, rows, k)
        /\ Beside(IdleTask, t, rows) /\ Beside(t, IdleTask, rows)
  BY IdleTaskType DEF GoodChat, GoodDelete, Beside, Saving

LEMMA MessagesType ==
    ASSUME NEW row \in Rows
    PROVE  /\ row.messages \in Seq(Exchanges) /\ Len(row.messages) \in Nat
           /\ row.messageCount \in Nat /\ row.isActive \in BOOLEAN
           /\ \A i \in 1..Len(row.messages) : row.messages[i] \in Nat
           /\ DOMAIN row = {"user", "messages", "messageCount", "isActive"}
<1>1. /\ row.messages \in Seq(Exchanges) /\ row.messageCount \in Nat /\ row.isActive \in BOOLEAN
      /\ DOMAIN row = {"user", "messages", "messageCount", "isActive"}
  BY DEF Rows
<1>2. Len(row.messages) \in Nat /\ \A i \in 1..Len(row.messages) : row.messages[i] \in Exchanges
  BY <1>1, LenProperties, ElementOfSeq
<1>3. QED
  BY <1>1, <1>2 DEF Exchanges

LEMMA BelowMore ==
    ASSUME NEW row \in Rows, NEW m \in Nat, NEW n \in Nat, m <= n, Below(row.messages, m)
    PROVE  Below(row.messages, n)
  BY MessagesType DEF Below

\* Each column of the row after an UPDATE.
LEMMA WrittenColumns ==
    ASSUME NEW row \in Rows, NEW e \in Rows, NEW cols
    PROVE  LET new == Written(row, e, cols) IN
           /\ new.messages = IF "messages" \in cols THEN e.messages ELSE row.messages
           /\ new.messageCount = IF "messageCount" \in cols THEN e.messageCount
                                                            ELSE row.messageCount
           /\ new.isActive = IF "isActive" \in cols THEN e.isActive ELSE row.isActive
  BY DEF Written, Rows

LEMMA ChangedColumns ==
    ASSUME NEW row \in Rows, NEW e \in Rows
    PROVE  /\ "messages" \in Changed(e, row) <=> e.messages # row.messages
           /\ "messageCount" \in Changed(e, row) <=> e.messageCount # row.messageCount
           /\ "isActive" \in Changed(e, row) <=> e.isActive # row.isActive
           /\ "user" \in Changed(e, row) <=> e.user # row.user
           /\ Changed(e, row) \subseteq {"user", "messages", "messageCount", "isActive"}
  BY DEF Changed, Rows

-----------------------------------------------------------------------------
(* The moves of one request *)

LEMMA KeptMoves ==
    ASSUME Inside, Kept, NEW s \in ChatSlots, NEW n, Becomes(s, n),
           Doing(s, n),
           \A c \in Conversations :
               conversation'[c] # NULL => GoodRow(conversation'[c], c, answered', Len(chats')),
           GoodChat(n, conversation', answered', Len(chats')),
           GoodDelete(n, conversation', Len(chats')),
           \A r \in ChatSlots \ {s} :
               /\ GoodChat(task[r], conversation', answered', Len(chats'))
               /\ GoodDelete(task[r], conversation', Len(chats'))
               /\ Beside(n, task[r], conversation') /\ Beside(task[r], n, conversation')
               /\ \A q \in ChatSlots \ {s} : Beside(task[r], task[q], conversation')
    PROVE  Kept'
<1>1. task'[s] = n /\ \A r \in ChatSlots \ {s} : task'[r] = task[r]
  BY DEF Inside, Becomes
<1>2. \A r \in ChatSlots : Doing(r, task'[r])
  BY <1>1 DEF Kept
<1>3. \A r \in ChatSlots :
          /\ GoodChat(task'[r], conversation', answered', Len(chats'))
          /\ GoodDelete(task'[r], conversation', Len(chats'))
  BY <1>1
<1>4. \A r, q \in ChatSlots : Beside(task'[r], task'[q], conversation')
  <2>1. Beside(n, n, conversation')
    BY DEF Beside, Saving
  <2>2. QED
    BY <1>1, <2>1
<1>5. QED
  BY <1>2, <1>3, <1>4 DEF Kept

LEMMA QuietKept ==
    ASSUME Inside, Kept, NEW s \in ChatSlots, NEW n, Becomes(s, n),
           \/ n = IdleTask
           \/ n.op = task[s].op /\ task[s].at # "idle"
           \/ n.op \in ChatWorkload[s],
           UNCHANGED <<conversation, chats, answered>>,
           GoodChat(n, conversation, answered, Len(chats)),
           GoodDelete(n, conversation, Len(chats)),
           \A r \in ChatSlots \ {s} :
               Beside(n, task[r], conversation) /\ Beside(task[r], n, conversation)
    PROVE  Kept'
<1>1. Doing(s, n)
  <2>1. CASE n = IdleTask
    BY <2>1, IdleTaskType DEF Doing
  <2>2. CASE n.op = task[s].op /\ task[s].at # "idle"
    <3>1. Doing(s, task[s])
      BY DEF Kept
    <3>2. QED
      BY <2>2, <3>1 DEF Doing
  <2>3. CASE n.op \in ChatWorkload[s]
    BY <2>3 DEF Doing
  <2>4. QED
    BY <2>1, <2>2, <2>3
<1>2. \A c \in Conversations :
          conversation[c] # NULL => GoodRow(conversation[c], c, answered, Len(chats))
  BY DEF Kept
<1>3. \A r \in ChatSlots \ {s} :
          /\ GoodChat(task[r], conversation, answered, Len(chats))
          /\ GoodDelete(task[r], conversation, Len(chats))
          /\ \A q \in ChatSlots \ {s} : Beside(task[r], task[q], conversation)
  BY DEF Kept
<1>4. QED
  BY <1>1, <1>2, <1>3, KeptMoves

LEMMA IdleKept ==
    ASSUME Inside, Kept, NEW s \in ChatSlots, Becomes(s, IdleTask),
           UNCHANGED <<conversation, chats, answered>>
    PROVE  Kept'
  BY IdleIsKept, IdleTaskType, QuietKept

\* A chat takes the number after all that was ever asked.
LEMMA AskedIsKept ==
    ASSUME OneChat, Inside, Kept, NEW s \in ChatSlots, NEW u \in Users,
           NEW c \in Conversations \cup {NULL}, Chat(s, u, c)
    PROVE  Kept'
<1>1. PICK k : k = Len(chats)
  OBVIOUS
<1>2. k \in Nat /\ ChatTypeOK
  BY <1>1, LenIsNat DEF Inside
<1>3. PICK t : t = [IdleTask EXCEPT !.op = "chat", !.user = u, !.permissions = permissions[u],
                                 !.exchange = Len(chats) + 1]
  OBVIOUS
<1>4. PICK n : n = IF c = NULL THEN [t EXCEPT !.at = "ask", !.entity = NewConversation(u)]
                   ELSE [t EXCEPT !.at = "load", !.conversation = c]
  OBVIOUS
<1>5. /\ n.op = "chat" /\ n.exchange = k + 1
      /\ \/ n.at = "load"
         \/ n.at = "ask" /\ n.conversation = NULL /\ n.entity = NewConversation(u)
  <2>1. CASE c = NULL
    BY <1>1, <1>3, <1>4, <2>1 DEF IdleTask
  <2>2. CASE c # NULL
    BY <1>1, <1>3, <1>4, <2>2 DEF IdleTask
  <2>3. QED
    BY <2>1, <2>2
<1>6. /\ Becomes(s, n) /\ "chat" \in ChatWorkload[s] /\ Len(chats') = k + 1
      /\ UNCHANGED <<conversation, answered>>
  <2>1. chats' = Append(chats, [user |-> u, permissions |-> permissions[u]])
    BY DEF Chat
  <2>2. [user |-> u, permissions |-> permissions[u]] \in Entries
    BY <1>2 DEF ChatTypeOK, Entries
  <2>3. Len(chats') = k + 1
    BY <1>1, <1>2, <2>1, <2>2, AppendProperties DEF ChatTypeOK
  <2>4. QED
    BY <1>3, <1>4, <2>3 DEF Chat
<1>7. ASSUME NEW d \in Conversations, conversation[d] # NULL
      PROVE  /\ Below(conversation[d].messages, k + 1)
             /\ GoodRow(conversation[d], d, answered, k + 1)
  <2>1. conversation[d] \in Rows
    BY <1>2, <1>7 DEF ChatTypeOK
  <2>2. GoodRow(conversation[d], d, answered, k)
    BY <1>1, <1>7 DEF Kept
  <2>3. Below(conversation[d].messages, k + 1 + 1)
    <3>1. Below(conversation[d].messages, k + 1)
      BY <2>2 DEF GoodRow
    <3>2. k + 1 \in Nat /\ k + 1 + 1 \in Nat /\ k + 1 <= k + 1 + 1
      BY <1>2
    <3>3. QED
      BY <2>1, <3>1, <3>2, BelowMore
  <2>4. QED
    BY <2>2, <2>3 DEF GoodRow
<1>8. GoodChat(n, conversation, answered, k + 1)
  <2>1. n.at = "ask" =>
            /\ Counted(n.entity) /\ n.entity.isActive
            /\ Whole(n.entity.messages, NULL, answered) /\ Ascending(n.entity.messages)
            /\ Below(n.entity.messages, n.exchange)
    <3>1. ASSUME n.at = "ask"
          PROVE  /\ n.entity.messages = <<>> /\ Len(n.entity.messages) = 0
                 /\ n.entity.messageCount = 0 /\ n.entity.isActive
      BY <1>5, <3>1, EmptySeq DEF NewConversation
    <3>2. \A a \in answered : a.conversation # NULL
      BY <1>2, NullIsNobody DEF ChatTypeOK, Answers
    <3>3. QED
      BY <3>1, <3>2 DEF Counted, Whole, Ascending, Below
  <2>2. QED
    BY <1>5, <1>7, <2>1 DEF GoodChat, Thinking, Pushing
<1>9. GoodDelete(n, conversation, k + 1)
  BY <1>5 DEF GoodDelete, Saving
<1>10. ASSUME NEW r \in ChatSlots \ {s}
       PROVE  /\ task[r].op # "chat"
              /\ GoodDelete(task[r], conversation, k + 1)
              /\ Beside(n, task[r], conversation) /\ Beside(task[r], n, conversation)
  <2>1. PICK d : d = task[r]
    OBVIOUS
  <2>2. /\ GoodDelete(d, conversation, k) /\ Sound(d, conversation, chats) /\ d.op # "chat"
    BY <1>1, <1>6, <2>1 DEF Kept, Doing, Inside, OneChat
  <2>3. Saving(d) => d.entity \in Rows /\ d.conversation \in Conversations
    BY <2>2 DEF Sound, Saving
  <2>4. Saving(d) => Below(d.entity.messages, k + 1) /\ Below(d.entity.messages, k + 1 + 1)
    <3> SUFFICES ASSUME Saving(d)
                 PROVE  Below(d.entity.messages, k + 1) /\ Below(d.entity.messages, k + 1 + 1)
      OBVIOUS
    <3>1. Below(d.entity.messages, k + 1)
      BY <2>2 DEF GoodDelete
    <3>2. k + 1 \in Nat /\ k + 1 + 1 \in Nat /\ k + 1 <= k + 1 + 1
      BY <1>2
    <3>3. d.entity \in Rows
      BY <2>3
    <3>4. QED
      BY <3>1, <3>2, <3>3, BelowMore
  <2>5. GoodDelete(d, conversation, k + 1)
    BY <2>2, <2>4 DEF GoodDelete
  <2>6. Beside(n, d, conversation)
    BY <1>5 DEF Beside, Saving
  <2>7. Beside(d, n, conversation)
    BY <1>5, <2>3, <2>4, NullIsNobody DEF Beside, Thinking, Pushing
  <2>8. QED
    BY <2>1, <2>2, <2>5, <2>6, <2>7
<1>11. \A r \in ChatSlots \ {s} : GoodChat(task[r], conversation, answered, k + 1)
  BY <1>10 DEF GoodChat
<1>12. \A r, q \in ChatSlots : Beside(task[r], task[q], conversation)
  BY DEF Kept
<1>13. Doing(s, n)
  BY <1>5, <1>6 DEF Doing
<1>14. QED
  BY <1>6, <1>7, <1>8, <1>9, <1>10, <1>11, <1>12, <1>13, KeptMoves

LEMMA BegunDeleteIsKept ==
    ASSUME Inside, Kept, NEW s \in ChatSlots, NEW u, NEW c, DeleteConversation(s, u, c)
    PROVE  Kept'
<1>1. PICK n : n = [IdleTask EXCEPT !.op = "delete", !.at = "load", !.user = u,
                                    !.conversation = c]
  OBVIOUS
<1>2. n.op = "delete" /\ n.at = "load"
  BY <1>1 DEF IdleTask
<1>3. Becomes(s, n) /\ "delete" \in ChatWorkload[s] /\ UNCHANGED <<conversation, chats, answered>>
  BY <1>1 DEF DeleteConversation
<1>4. /\ GoodChat(n, conversation, answered, Len(chats))
      /\ GoodDelete(n, conversation, Len(chats))
      /\ \A t : Beside(n, t, conversation) /\ Beside(t, n, conversation)
  BY <1>2 DEF GoodChat, GoodDelete, Beside, Saving
<1>5. QED
  BY <1>2, <1>3, <1>4, QuietKept

LEMMA LoadedIsKept ==
    ASSUME Inside, Kept, NEW s \in ChatSlots, LoadConversation(s)
    PROVE  Kept'
<1>1. PICK t : t = task[s]
  OBVIOUS
<1>2. PICK row : row = FindConversation(t.conversation, t.user)
  OBVIOUS
<1>3. /\ t \in Tasks /\ t.at = "load" /\ t.conversation \in Conversations
      /\ GoodChat(t, conversation, answered, Len(chats)) /\ ChatTypeOK
      /\ UNCHANGED <<conversation, chats, answered>>
  BY <1>1 DEF Inside, Sound, Kept, LoadConversation
<1>4. CASE row = NULL
  BY <1>1, <1>2, <1>4, IdleKept DEF LoadConversation
<1>5. ASSUME row # NULL
      PROVE  /\ row = conversation[t.conversation] /\ row \in Rows
             /\ GoodRow(row, t.conversation, answered, Len(chats))
             /\ t.conversation # NULL
  BY <1>2, <1>3, <1>5, NullIsNobody DEF FindConversation, ChatTypeOK, Kept
<1>6. ASSUME row # NULL, t.op = "chat"
      PROVE  Kept'
  <2>1. PICK n : n = [t EXCEPT !.at = "ask", !.entity = row]
    OBVIOUS
  <2>2. /\ n.op = "chat" /\ n.at = "ask" /\ n.entity = row /\ n.exchange = t.exchange
        /\ n.conversation = t.conversation
    BY <1>3, <1>6, <2>1 DEF Tasks
  <2>3. Becomes(s, n)
    BY <1>1, <1>2, <1>6, <2>1 DEF LoadConversation
  <2>4. Below(row.messages, t.exchange) /\ Len(row.messages) \in Nat
    BY <1>3, <1>5, <1>6, MessagesType DEF GoodChat
  <2>5. GoodChat(n, conversation, answered, Len(chats))
    BY <1>3, <1>5, <1>6, <2>2, <2>4 DEF GoodChat, GoodRow, Thinking, Pushing
  <2>6. \A r \in ChatSlots \ {s} : Beside(task[r], n, conversation)
    <3> SUFFICES ASSUME NEW r \in ChatSlots \ {s} PROVE Beside(task[r], n, conversation)
      OBVIOUS
    <3>1. Beside(task[r], t, conversation) /\ GoodDelete(task[r], conversation, Len(chats))
      BY <1>1 DEF Kept
    <3>2. QED
      BY <1>5, <1>6, <2>2, <3>1 DEF Beside, GoodDelete
  <2>7. /\ GoodDelete(n, conversation, Len(chats))
        /\ \A r : Beside(n, r, conversation)
    BY <2>2 DEF GoodDelete, Beside, Saving
  <2>8. QED
    BY <1>1, <1>3, <1>6, <2>2, <2>3, <2>5, <2>6, <2>7, QuietKept
<1>7. ASSUME row # NULL, t.op # "chat"
      PROVE  Kept'
  <2>1. PICK e : e = [row EXCEPT !.isActive = FALSE]
    OBVIOUS
  <2>2. /\ e.messages = row.messages /\ e.messageCount = row.messageCount /\ ~ e.isActive
    BY <1>5, <1>7, <2>1 DEF Rows
  <2>3. PICK n : n = [t EXCEPT !.at = "select", !.entity = e]
    OBVIOUS
  <2>4. /\ n.op = t.op /\ n.at = "select" /\ n.entity = e /\ n.conversation = t.conversation
    BY <1>3, <2>3 DEF Tasks
  <2>5. Becomes(s, n)
    BY <1>1, <1>2, <1>7, <2>1, <2>3 DEF LoadConversation
  <2>6. GoodDelete(n, conversation, Len(chats))
    BY <1>5, <1>7, <2>2, <2>4 DEF GoodDelete, GoodRow, Counted
  <2>7. ASSUME NEW r \in ChatSlots
        PROVE  Beside(n, task[r], conversation)
    <3>1. GoodChat(task[r], conversation, answered, Len(chats))
      BY DEF Kept
    <3>2. QED
      BY <1>3, <1>5, <1>7, <2>2, <2>4, <3>1 DEF Beside, GoodChat
  <2>8. /\ GoodChat(n, conversation, answered, Len(chats))
        /\ \A r : Beside(r, n, conversation)
    BY <1>7, <2>4 DEF GoodChat, Beside
  <2>9. QED
    BY <1>1, <1>3, <2>4, <2>5, <2>6, <2>7, <2>8, QuietKept
<1>8. QED
  BY <1>4, <1>6, <1>7

\* A chat that goes on and keeps its exchange, its conversation and whether
\* its entity is active.
LEMMA ChatMoves ==
    ASSUME Inside, Kept, NEW s \in ChatSlots, NEW n, Becomes(s, n),
           UNCHANGED <<conversation, chats, answered>>,
           task[s].op = "chat", task[s].at \in Thinking \cup Pushing,
           n.op = "chat", n.at \in Thinking \cup Pushing, n.exchange = task[s].exchange,
           n.conversation = task[s].conversation,
           n.entity.isActive = task[s].entity.isActive,
           GoodChat(n, conversation, answered, Len(chats))
    PROVE  Kept'
<1>1. PICK t : t = task[s]
  OBVIOUS
<1>2. \A r \in ChatSlots \ {s} : Beside(task[r], n, conversation)
  <2> SUFFICES ASSUME NEW r \in ChatSlots \ {s} PROVE Beside(task[r], n, conversation)
    OBVIOUS
  <2>1. Beside(task[r], t, conversation)
    BY <1>1 DEF Kept
  <2>2. QED
    BY <1>1, <2>1 DEF Beside
<1>3. GoodDelete(n, conversation, Len(chats)) /\ \A r : Beside(n, r, conversation)
  BY DEF GoodDelete, Beside, Saving
<1>4. task[s].at # "idle"
  BY DEF Thinking, Pushing
<1>5. QED
  BY <1>2, <1>3, <1>4, QuietKept

LEMMA PushedIsGood ==
    ASSUME Inside, NEW t, Sound(t, conversation, chats), t.at \in Thinking,
           GoodChat(t, conversation, answered, Len(chats))
    PROVE  LET n == Pushed(t) IN
           /\ n.op = "chat" /\ n.at \in Pushing /\ n.exchange = t.exchange
           /\ n.conversation = t.conversation /\ n.entity.isActive = t.entity.isActive
           /\ GoodChat(n, conversation, answered, Len(chats))
<1>1. PICK ms : ms = t.entity.messages
  OBVIOUS
<1>2. PICK x : x = t.exchange
  OBVIOUS
<1>3. PICK k : k = Len(chats)
  OBVIOUS
<1>4. /\ t \in Tasks /\ t.op = "chat" /\ t.entity \in Rows /\ x \in 1..k /\ k \in Nat
      /\ ms \in Seq(Exchanges) /\ Len(ms) \in Nat
  BY <1>1, <1>2, <1>3, MessagesType, LenIsNat DEF Sound, Thinking, Inside
<1>5. x \in Exchanges
  <2>1. k <= MaxRequests /\ MaxRequests \in Nat
    BY <1>3, AskedIsBounded, ChatbotAssumption DEF Inside, ChatbotAssumption
  <2>2. QED
    BY <1>4, <2>1 DEF Exchanges
<1>6. PICK new : new = Append(ms, x)
  OBVIOUS
<1>7. /\ Len(new) = Len(ms) + 1 /\ new[Len(ms) + 1] = x
      /\ \A i \in 1..Len(ms) : new[i] = ms[i]
  BY <1>4, <1>5, <1>6, AppendProperties
<1>8. PICK e : e = [t.entity EXCEPT !.messages = new, !.messageCount = 2 * Len(new)]
  OBVIOUS
<1>9. e.messages = new /\ e.messageCount = 2 * Len(new) /\ e.isActive = t.entity.isActive
  BY <1>4, <1>8 DEF Rows
<1>10. PICK n : n = Pushed(t)
  OBVIOUS
<1>11. /\ n.op = "chat" /\ n.at = IF t.conversation = NULL THEN "insert" ELSE "select"
       /\ n.exchange = x /\ n.conversation = t.conversation /\ n.entity = e
  BY <1>1, <1>2, <1>4, <1>6, <1>8, <1>10 DEF Pushed, Tasks
<1>12. Below(ms, x) /\ (t.conversation # NULL =>
           Len(conversation[t.conversation].messages) <= Len(ms))
  BY <1>1, <1>2, <1>4 DEF GoodChat
<1>13. \A i \in 1..Len(ms) : ms[i] \in Nat
  BY <1>1, <1>4, MessagesType
<1>14. Below(new, k + 1)
  <2> SUFFICES ASSUME NEW i \in 1..Len(new) PROVE new[i] < k + 1
    BY DEF Below
  <2>1. CASE i = Len(ms) + 1
    BY <1>4, <1>7, <2>1
  <2>2. CASE i # Len(ms) + 1
    <3>1. i \in 1..Len(ms)
      BY <1>4, <1>7, <2>2
    <3>2. new[i] = ms[i] /\ ms[i] < x /\ ms[i] \in Nat
      BY <1>7, <1>12, <1>13, <3>1 DEF Below
    <3>3. QED
      BY <1>4, <3>2
  <2>3. QED
    BY <2>1, <2>2
<1>15. \E i \in 1..Len(new) : new[i] = x
  <2>1. Len(ms) + 1 \in 1..Len(new)
    BY <1>4, <1>7
  <2>2. QED
    BY <1>7, <2>1
<1>16. Ascending(ms) => Ascending(new)
  <2> SUFFICES ASSUME Ascending(ms), NEW i \in 1..(Len(new) - 1) PROVE new[i] < new[i + 1]
    BY DEF Ascending
  <2>1. i \in 1..Len(ms)
    BY <1>4, <1>7
  <2>2. CASE i = Len(ms)
    BY <1>7, <1>12, <2>1, <2>2 DEF Below
  <2>3. CASE i # Len(ms)
    <3>1. i \in 1..(Len(ms) - 1) /\ i + 1 \in 1..Len(ms)
      BY <1>4, <2>1, <2>3
    <3>2. QED
      BY <1>7, <2>1, <3>1 DEF Ascending
  <2>4. QED
    BY <2>2, <2>3
<1>17. Whole(ms, t.conversation, answered) => Whole(new, t.conversation, answered)
  <2> SUFFICES ASSUME Whole(ms, t.conversation, answered), NEW a \in answered,
                      a.conversation = t.conversation
               PROVE  \E i \in 1..Len(new) : new[i] = a.exchange
    BY DEF Whole
  <2>1. PICK i \in 1..Len(ms) : ms[i] = a.exchange
    BY DEF Whole
  <2>2. i \in 1..Len(new)
    BY <1>4, <1>7
  <2>3. QED
    BY <1>7, <2>1, <2>2
<1>18. t.conversation # NULL => Len(conversation[t.conversation].messages) < Len(new)
  <2> SUFFICES ASSUME t.conversation # NULL
               PROVE  Len(conversation[t.conversation].messages) < Len(new)
    OBVIOUS
  <2>1. conversation[t.conversation] \in Rows
    BY <1>4 DEF Sound, Thinking, Inside, ChatTypeOK, Tasks
  <2>2. Len(conversation[t.conversation].messages) \in Nat
    BY <2>1, MessagesType
  <2>3. QED
    BY <1>4, <1>7, <1>12, <2>2
<1>19. GoodChat(n, conversation, answered, k)
  <2>1. \A c \in Conversations : conversation[c] # NULL => Below(conversation[c].messages, x)
    BY <1>2, <1>4 DEF GoodChat
  <2>2. /\ t.entity.isActive =>
              Whole(ms, t.conversation, answered) /\ Ascending(ms)
        /\ t.conversation # NULL /\ conversation[t.conversation].isActive => t.entity.isActive
    BY <1>1, <1>4 DEF GoodChat
  <2>3. n.at \in Pushing /\ n.at \notin Thinking /\ n.at # "write"
    BY <1>11 DEF Pushing, Thinking
  <2>4. Counted(n.entity)
    BY <1>9, <1>11 DEF Counted
  <2>5. QED
    BY <1>9, <1>11, <1>14, <1>15, <1>16, <1>17, <1>18, <2>1, <2>2, <2>3, <2>4 DEF GoodChat
<1>20. QED
  BY <1>2, <1>3, <1>9, <1>10, <1>11, <1>19 DEF Pushing

LEMMA ModelIsKept ==
    ASSUME Inside, Kept, NEW s \in ChatSlots, AskModel(s) \/ Execute(s) \/ PhraseResult(s)
    PROVE  Kept'
<1>1. PICK t : t = task[s]
  OBVIOUS
<1>2. /\ t \in Tasks /\ Sound(t, conversation, chats) /\ t.at \in Thinking /\ t.op = "chat"
      /\ GoodChat(t, conversation, answered, Len(chats))
      /\ UNCHANGED <<conversation, chats, answered>>
  BY <1>1 DEF Inside, Sound, Kept, AskModel, Execute, PhraseResult, Thinking
<1>3. CASE Becomes(s, Pushed(t))
  BY <1>1, <1>2, <1>3, PushedIsGood, ChatMoves
<1>4. ASSUME NEW n, Becomes(s, n), n.op = t.op, n.at \in Thinking, n.exchange = t.exchange,
             n.conversation = t.conversation, n.entity = t.entity
      PROVE  Kept'
  <2>1. n.at \notin Pushing /\ t.at \notin Pushing /\ n.at # "write" /\ t.at # "write"
    BY <1>2, <1>4 DEF Pushing, Thinking
  <2>2. GoodChat(n, conversation, answered, Len(chats))
    BY <1>2, <1>4, <2>1 DEF GoodChat
  <2>3. QED
    BY <1>1, <1>2, <1>4, <2>2, ChatMoves
<1>5. ASSUME NEW f, Becomes(s, [t EXCEPT !.at = "execute", !.function = f])
      PROVE  Kept'
  <2>1. PICK n : n = [t EXCEPT !.at = "execute", !.function = f]
    OBVIOUS
  <2>2. /\ n.op = t.op /\ n.at = "execute" /\ n.exchange = t.exchange
        /\ n.conversation = t.conversation /\ n.entity = t.entity
    BY <1>2, <2>1 DEF Tasks
  <2>3. QED
    BY <1>4, <1>5, <2>1, <2>2 DEF Thinking
<1>6. ASSUME Becomes(s, [t EXCEPT !.at = "phrase", !.data = t.function])
      PROVE  Kept'
  <2>1. PICK n : n = [t EXCEPT !.at = "phrase", !.data = t.function]
    OBVIOUS
  <2>2. /\ n.op = t.op /\ n.at = "phrase" /\ n.exchange = t.exchange
        /\ n.conversation = t.conversation /\ n.entity = t.entity
    BY <1>2, <2>1 DEF Tasks
  <2>3. QED
    BY <1>4, <1>6, <2>1, <2>2 DEF Thinking
<1>7. QED
  BY <1>1, <1>3, <1>5, <1>6 DEF AskModel, Execute, PhraseResult

\* What is known of the conversation a request will write to.
LEMMA RowOfTask ==
    ASSUME Inside, Kept, NEW s \in ChatSlots, task[s].at \in {"select", "write"}
    PROVE  LET t == task[s]
               row == conversation[t.conversation] IN
           /\ t \in Tasks /\ t.conversation \in Conversations /\ t.conversation # NULL
           /\ t.entity \in Rows /\ row \in Rows /\ row # NULL /\ row.user = t.entity.user
           /\ GoodRow(row, t.conversation, answered, Len(chats))
<1>1. PICK t : t = task[s]
  OBVIOUS
<1>2. /\ t \in Tasks /\ t.conversation \in Conversations /\ t.conversation # NULL
      /\ t.entity \in Rows /\ conversation[t.conversation] # NULL
      /\ conversation[t.conversation].user = t.entity.user
  BY <1>1, NullIsNobody DEF Inside, Sound
<1>3. conversation[t.conversation] \in Rows
  BY <1>2 DEF Inside, ChatTypeOK
<1>4. QED
  BY <1>1, <1>2, <1>3 DEF Kept

LEMMA SelectIsKept ==
    ASSUME Inside, Kept, NEW s \in ChatSlots, SelectConversation(s)
    PROVE  Kept'
<1>1. PICK t : t = task[s]
  OBVIOUS
<1>2. PICK row : row = conversation[t.conversation]
  OBVIOUS
<1>3. PICK cols : cols = Changed(t.entity, row)
  OBVIOUS
<1>4. PICK n : n = [t EXCEPT !.at = "write", !.cols = cols]
  OBVIOUS
<1>5. /\ t.at = "select" /\ Becomes(s, n) /\ UNCHANGED <<conversation, chats, answered>>
  BY <1>1, <1>2, <1>3, <1>4 DEF SelectConversation
<1>6. /\ t \in Tasks /\ t.conversation \in Conversations /\ t.conversation # NULL
      /\ t.entity \in Rows /\ row \in Rows /\ row.user = t.entity.user
      /\ GoodRow(row, t.conversation, answered, Len(chats))
      /\ GoodChat(t, conversation, answered, Len(chats))
      /\ GoodDelete(t, conversation, Len(chats))
  BY <1>1, <1>2, <1>5, RowOfTask DEF Kept
<1>7. /\ n.op = t.op /\ n.at = "write" /\ n.cols = cols /\ n.exchange = t.exchange
      /\ n.conversation = t.conversation /\ n.entity = t.entity
  BY <1>4, <1>6 DEF Tasks
<1>8. /\ "messages" \in cols <=> t.entity.messages # row.messages
      /\ "messageCount" \in cols <=> t.entity.messageCount # row.messageCount
      /\ "isActive" \in cols <=> t.entity.isActive # row.isActive
      /\ "user" \in cols <=> t.entity.user # row.user
      /\ cols \subseteq {"user", "messages", "messageCount", "isActive"}
  BY <1>3, <1>6, ChangedColumns
<1>9. /\ Len(row.messages) \in Nat /\ Len(t.entity.messages) \in Nat
      /\ row.messageCount = 2 * Len(row.messages)
  BY <1>6, MessagesType DEF GoodRow, Counted
<1>10. ASSUME t.op = "chat"
       PROVE  Kept'
  <2>1. /\ t.entity.messageCount = 2 * Len(t.entity.messages)
        /\ Len(row.messages) < Len(t.entity.messages)
    BY <1>2, <1>5, <1>6, <1>10 DEF GoodChat, Counted, Pushing
  <2>2. t.entity.messageCount # row.messageCount
    BY <1>9, <2>1
  <2>3. {"messages", "messageCount"} \subseteq cols
    BY <1>8, <1>9, <2>1, <2>2
  <2>4. GoodChat(n, conversation, answered, Len(chats))
    BY <1>5, <1>6, <1>7, <1>10, <2>3 DEF GoodChat, Pushing, Thinking
  <2>5. QED
    BY <1>1, <1>5, <1>7, <1>10, <2>4, ChatMoves DEF Pushing
<1>11. ASSUME t.op # "chat"
       PROVE  Kept'
  <2>1. Saving(t) => /\ ~ t.entity.isActive
                     /\ t.entity.messageCount = 2 * Len(t.entity.messages)
    BY <1>6 DEF GoodDelete, Counted
  <2>2. Saving(n) => Saving(t)
    BY <1>5, <1>7 DEF Saving
  <2>3. Saving(n) => "messages" \in cols <=> "messageCount" \in cols
    <3> SUFFICES ASSUME Saving(n)
                 PROVE  t.entity.messages = row.messages
                            <=> t.entity.messageCount = row.messageCount
      BY <1>8
    <3>1. t.entity.messages = row.messages => t.entity.messageCount = row.messageCount
      BY <1>9, <2>1, <2>2
    <3>2. t.entity.messages # row.messages => Len(t.entity.messages) < Len(row.messages)
      BY <1>2, <1>6, <2>2 DEF GoodDelete
    <3>3. Len(t.entity.messages) < Len(row.messages)
              => t.entity.messageCount # row.messageCount
      BY <1>9, <2>1, <2>2
    <3>4. QED
      BY <3>1, <3>2, <3>3
  <2>4. Saving(n) => "isActive" \in cols \/ ~ row.isActive
    BY <1>8, <2>1, <2>2
  <2>5. GoodDelete(n, conversation, Len(chats))
    BY <1>2, <1>6, <1>7, <2>2, <2>3, <2>4 DEF GoodDelete
  <2>6. ASSUME NEW r \in ChatSlots
        PROVE  Beside(n, task[r], conversation)
    <3>1. PICK q : q = task[r]
      OBVIOUS
    <3>2. Beside(t, q, conversation)
      BY <1>1, <3>1 DEF Kept
    <3>3. ASSUME Saving(n), q.op = "chat", q.at \in Thinking \cup Pushing,
                 q.conversation = t.conversation, q.entity.isActive, "isActive" \notin cols
          PROVE  cols = {}
      <4>1. ~ row.isActive
        BY <2>4, <3>3
      <4>2. t.entity.messages = row.messages
        BY <1>2, <1>5, <2>2, <3>2, <3>3, <4>1 DEF Beside
      <4>3. QED
        BY <1>6, <1>8, <2>3, <3>3, <4>2
    <3>4. QED
      BY <1>2, <1>7, <2>2, <3>1, <3>2, <3>3 DEF Beside
  <2>7. /\ GoodChat(n, conversation, answered, Len(chats))
        /\ \A r : Beside(r, n, conversation)
    BY <1>7, <1>11 DEF GoodChat, Beside
  <2>8. QED
    BY <1>1, <1>5, <1>7, <2>5, <2>6, <2>7, QuietKept
<1>12. QED
  BY <1>10, <1>11

\* An answer with its exchange among the messages keeps them whole.
LEMMA AnswerIsWhole ==
    ASSUME NEW t, NEW c, NEW d, NEW ms, Whole(ms, d, answered), Answer(t, c),
           c = d => \E i \in 1..Len(ms) : ms[i] = t.exchange
    PROVE  Whole(ms, d, answered')
<1>1. PICK a : a = [exchange |-> t.exchange, conversation |-> c, data |-> t.data]
  OBVIOUS
<1>2. a.exchange = t.exchange /\ a.conversation = c /\ answered' = answered \cup {a}
  BY <1>1 DEF Answer
<1>3. QED
  BY <1>2 DEF Whole

LEMMA InsertIsKept ==
    ASSUME OneChat, Inside, Kept, NEW s \in ChatSlots, NEW c \in Conversations,
           InsertConversation(s, c)
    PROVE  Kept'
<1>1. PICK t : t = task[s]
  OBVIOUS
<1>2. PICK k : k = Len(chats)
  OBVIOUS
<1>3. /\ t.at = "insert" /\ conversation[c] = NULL
      /\ conversation' = [conversation EXCEPT ![c] = t.entity]
      /\ Answer(t, c) /\ Becomes(s, IdleTask) /\ Len(chats') = k
  BY <1>1, <1>2 DEF InsertConversation
<1>4. /\ Sound(t, conversation, chats) /\ GoodChat(t, conversation, answered, k)
      /\ t.op = "chat" /\ t.entity \in Rows /\ ChatTypeOK
  BY <1>1, <1>2, <1>3 DEF Inside, Sound, Kept
<1>5. "chat" \in ChatWorkload[s]
  BY <1>1, <1>4 DEF Kept, Doing
<1>6. \A d \in Conversations : conversation'[d] = IF d = c THEN t.entity ELSE conversation[d]
  BY <1>3, <1>4 DEF ChatTypeOK
<1>7. t.entity # NULL
  BY <1>4, NullIsNobody
<1>8. /\ Counted(t.entity) /\ Below(t.entity.messages, k + 1)
      /\ t.entity.isActive => Ascending(t.entity.messages)
      /\ \E i \in 1..Len(t.entity.messages) : t.entity.messages[i] = t.exchange
  BY <1>3, <1>4 DEF GoodChat, Pushing
<1>9. Whole(t.entity.messages, c, answered')
  <2>1. Whole(t.entity.messages, c, answered)
    BY <1>3 DEF Whole, Inside, SoundAnswer
  <2>2. QED
    BY <1>3, <1>8, <2>1, AnswerIsWhole
<1>10. GoodRow(t.entity, c, answered', k)
  BY <1>8, <1>9 DEF GoodRow
<1>11. ASSUME NEW d \in Conversations, conversation'[d] # NULL
       PROVE  GoodRow(conversation'[d], d, answered', k)
  <2>1. CASE d = c
    BY <1>6, <1>10, <2>1
  <2>2. CASE d # c
    <3>1. conversation'[d] = conversation[d] /\ GoodRow(conversation[d], d, answered, k)
      BY <1>2, <1>6, <1>11, <2>2 DEF Kept
    <3>2. Whole(conversation[d].messages, d, answered)
              => Whole(conversation[d].messages, d, answered')
      BY <1>3, <2>2, AnswerIsWhole
    <3>3. QED
      BY <3>1, <3>2 DEF GoodRow
  <2>3. QED
    BY <2>1, <2>2
<1>12. ASSUME NEW r \in ChatSlots \ {s}
       PROVE  /\ task[r].op # "chat"
              /\ Saving(task[r]) =>
                    conversation'[task[r].conversation] = conversation[task[r].conversation]
  <2>1. task[r].op # "chat"
    BY <1>5 DEF Kept, Doing, OneChat
  <2>2. Saving(task[r]) => /\ task[r].conversation \in Conversations
                           /\ conversation[task[r].conversation] # NULL
    BY NullIsNobody DEF Inside, Sound, Saving
  <2>3. QED
    BY <1>3, <1>6, <2>1, <2>2
<1>13. ASSUME NEW r \in ChatSlots \ {s}
       PROVE  /\ GoodChat(task[r], conversation', answered', k)
              /\ GoodDelete(task[r], conversation', k)
              /\ \A q \in ChatSlots \ {s} : Beside(task[r], task[q], conversation')
  <2>1. GoodDelete(task[r], conversation, k)
    BY <1>2 DEF Kept
  <2>2. GoodDelete(task[r], conversation', k)
    BY <1>12, <2>1 DEF GoodDelete
  <2>3. QED
    BY <1>12, <2>2 DEF GoodChat, Beside
<1>14. \A rows, A, r : /\ GoodChat(IdleTask, rows, A, k) /\ GoodDelete(IdleTask, rows, k)
                       /\ Beside(IdleTask, r, rows) /\ Beside(r, IdleTask, rows)
  BY IdleIsKept
<1>15. Doing(s, IdleTask)
  BY IdleTaskType DEF Doing
<1>16. QED
  BY <1>3, <1>11, <1>13, <1>14, <1>15, KeptMoves

\* What a write leaves when a chat or a deletion puts a row where one was.
LEMMA WrittenRow ==
    ASSUME Inside, Kept, NEW s \in ChatSlots, WriteConversation(s)
    PROVE  \E t, row, new :
               /\ t = task[s] /\ t.at = "write" /\ t.entity \in Rows /\ row \in Rows
               /\ t.conversation \in Conversations /\ t.conversation # NULL
               /\ row = conversation[t.conversation] /\ row # NULL
               /\ GoodRow(row, t.conversation, answered, Len(chats))
               /\ \A c \in Conversations :
                     conversation'[c] = IF c = t.conversation THEN new ELSE conversation[c]
               /\ new.messages = IF "messages" \in t.cols THEN t.entity.messages
                                                          ELSE row.messages
               /\ new.messageCount = IF "messageCount" \in t.cols THEN t.entity.messageCount
                                                                  ELSE row.messageCount
               /\ new.isActive = IF "isActive" \in t.cols THEN t.entity.isActive
                                                          ELSE row.isActive
<1>1. PICK t : t = task[s]
  OBVIOUS
<1>2. PICK row : row = conversation[t.conversation]
  OBVIOUS
<1>3. PICK new : new = Written(row, t.entity, t.cols)
  OBVIOUS
<1>4. /\ t.at = "write" /\ t.conversation \in Conversations /\ t.conversation # NULL
      /\ t.entity \in Rows /\ row \in Rows /\ row # NULL
      /\ GoodRow(row, t.conversation, answered, Len(chats))
  BY <1>1, <1>2, RowOfTask DEF WriteConversation
<1>5. conversation' = [conversation EXCEPT ![t.conversation] = new]
  BY <1>1, <1>2, <1>3, <1>4 DEF WriteConversation, Inside, ChatTypeOK
<1>6. \A c \in Conversations :
          conversation'[c] = IF c = t.conversation THEN new ELSE conversation[c]
  BY <1>5 DEF Inside, ChatTypeOK
<1>7. QED
  BY <1>1, <1>2, <1>3, <1>4, <1>6, WrittenColumns

LEMMA ChatWriteIsKept ==
    ASSUME OneChat, Inside, Kept, NEW s \in ChatSlots, WriteConversation(s),
           task[s].op = "chat"
    PROVE  Kept'
<1>1. PICK k : k = Len(chats)
  OBVIOUS
<1>2. PICK t, row, new :
          /\ t = task[s] /\ t.at = "write" /\ t.entity \in Rows /\ row \in Rows
          /\ t.conversation \in Conversations /\ t.conversation # NULL
          /\ row = conversation[t.conversation] /\ row # NULL
          /\ GoodRow(row, t.conversation, answered, Len(chats))
          /\ \A c \in Conversations :
                conversation'[c] = IF c = t.conversation THEN new ELSE conversation[c]
          /\ new.messages = IF "messages" \in t.cols THEN t.entity.messages ELSE row.messages
          /\ new.messageCount = IF "messageCount" \in t.cols THEN t.entity.messageCount
                                                             ELSE row.messageCount
          /\ new.isActive = IF "isActive" \in t.cols THEN t.entity.isActive ELSE row.isActive
  BY WrittenRow
<1>3. PICK c \in Conversations : c = t.conversation
  BY <1>2
<1>4. /\ Answer(t, c) /\ Becomes(s, IdleTask) /\ Len(chats') = k
      /\ GoodChat(t, conversation, answered, k)
  BY <1>1, <1>2, <1>3 DEF WriteConversation, Kept
<1>5. "chat" \in ChatWorkload[s]
  BY <1>2 DEF Kept, Doing
<1>6. /\ new.messages = t.entity.messages /\ new.messageCount = t.entity.messageCount
      /\ new.isActive => t.entity.isActive
  BY <1>2, <1>4 DEF GoodChat, Pushing
<1>7. /\ Counted(t.entity) /\ Below(t.entity.messages, k + 1)
      /\ t.entity.isActive =>
            Whole(t.entity.messages, c, answered) /\ Ascending(t.entity.messages)
      /\ \E i \in 1..Len(t.entity.messages) : t.entity.messages[i] = t.exchange
      /\ Len(row.messages) < Len(t.entity.messages)
  BY <1>2, <1>3, <1>4 DEF GoodChat, Pushing
<1>8. GoodRow(new, c, answered', k)
  <2>1. Whole(t.entity.messages, c, answered) => Whole(t.entity.messages, c, answered')
    BY <1>4, <1>7, AnswerIsWhole
  <2>2. QED
    BY <1>6, <1>7, <2>1 DEF GoodRow, Counted
<1>9. ASSUME NEW d \in Conversations, conversation'[d] # NULL
      PROVE  GoodRow(conversation'[d], d, answered', k)
  <2>1. CASE d = c
    BY <1>2, <1>3, <1>8, <2>1
  <2>2. CASE d # c
    <3>1. conversation'[d] = conversation[d] /\ GoodRow(conversation[d], d, answered, k)
      BY <1>1, <1>2, <1>3, <1>9, <2>2 DEF Kept
    <3>2. Whole(conversation[d].messages, d, answered)
              => Whole(conversation[d].messages, d, answered')
      BY <1>4, <2>2, AnswerIsWhole
    <3>3. QED
      BY <3>1, <3>2 DEF GoodRow
  <2>3. QED
    BY <2>1, <2>2
<1>10. ASSUME NEW r \in ChatSlots \ {s}
       PROVE  /\ task[r].op # "chat"
              /\ GoodDelete(task[r], conversation', k)
  <2>1. PICK d : d = task[r]
    OBVIOUS
  <2>2. d.op # "chat"
    BY <1>5, <2>1 DEF Kept, Doing, OneChat
  <2>3. GoodDelete(d, conversation, k) /\ Beside(d, t, conversation)
    BY <1>1, <1>2, <2>1 DEF Kept
  <2>4. Saving(d) => d.conversation \in Conversations /\ d.entity \in Rows
    BY <2>1 DEF Inside, Sound, Saving
  <2>5. ASSUME Saving(d), d.conversation = c
        PROVE  GoodDelete(d, conversation', k)
    <3>1. conversation'[c] = new /\ conversation[c] = row
      BY <1>2, <1>3
    <3>2. Len(d.entity.messages) < Len(new.messages)
      <4>1. Len(d.entity.messages) \in Nat /\ Len(row.messages) \in Nat
            /\ Len(t.entity.messages) \in Nat
        BY <1>2, <2>4, <2>5, MessagesType
      <4>2. d.entity.messages = row.messages \/ Len(d.entity.messages) < Len(row.messages)
        BY <2>3, <2>5, <3>1 DEF GoodDelete
      <4>3. QED
        BY <1>6, <1>7, <4>1, <4>2
    <3>3. d.at = "write" => "isActive" \in d.cols \/ d.cols = {} \/ ~ new.isActive
      BY <1>2, <1>3, <1>6, <2>2, <2>3, <2>5 DEF Beside, Pushing
    <3>4. QED
      BY <2>3, <2>5, <3>1, <3>2, <3>3 DEF GoodDelete
  <2>6. ASSUME Saving(d), d.conversation # c
        PROVE  GoodDelete(d, conversation', k)
    <3>1. conversation'[d.conversation] = conversation[d.conversation]
      BY <1>2, <1>3, <2>4, <2>6
    <3>2. QED
      BY <2>3, <3>1 DEF GoodDelete
  <2>7. QED
    BY <2>1, <2>2, <2>5, <2>6 DEF GoodDelete
<1>11. ASSUME NEW r \in ChatSlots \ {s}
       PROVE  /\ GoodChat(task[r], conversation', answered', k)
              /\ \A q \in ChatSlots \ {s} : Beside(task[r], task[q], conversation')
  BY <1>10 DEF GoodChat, Beside
<1>12. \A rows, A, r : /\ GoodChat(IdleTask, rows, A, k) /\ GoodDelete(IdleTask, rows, k)
                       /\ Beside(IdleTask, r, rows) /\ Beside(r, IdleTask, rows)
  BY IdleIsKept
<1>13. Doing(s, IdleTask)
  BY IdleTaskType DEF Doing
<1>14. QED
  BY <1>4, <1>9, <1>10, <1>11, <1>12, <1>13, KeptMoves

LEMMA DeleteWriteIsKept ==
    ASSUME OneDelete, Inside, Kept, NEW s \in ChatSlots, WriteConversation(s),
           task[s].op # "chat"
    PROVE  Kept'
<1>1. PICK k : k = Len(chats)
  OBVIOUS
<1>2. PICK t, row, new :
          /\ t = task[s] /\ t.at = "write" /\ t.entity \in Rows /\ row \in Rows
          /\ t.conversation \in Conversations /\ t.conversation # NULL
          /\ row = conversation[t.conversation] /\ row # NULL
          /\ GoodRow(row, t.conversation, answered, Len(chats))
          /\ \A c \in Conversations :
                conversation'[c] = IF c = t.conversation THEN new ELSE conversation[c]
          /\ new.messages = IF "messages" \in t.cols THEN t.entity.messages ELSE row.messages
          /\ new.messageCount = IF "messageCount" \in t.cols THEN t.entity.messageCount
                                                             ELSE row.messageCount
          /\ new.isActive = IF "isActive" \in t.cols THEN t.entity.isActive ELSE row.isActive
  BY WrittenRow
<1>3. PICK c \in Conversations : c = t.conversation
  BY <1>2
<1>4. Becomes(s, IdleTask) /\ Len(chats') = k /\ UNCHANGED answered
  BY <1>1, <1>2 DEF WriteConversation
<1>5. "delete" \in ChatWorkload[s] /\ Saving(t)
  <2>1. t.op \in ChatWorkload[s] /\ t.op # "chat"
    BY <1>2 DEF Kept, Doing
  <2>2. t.op = "delete"
    BY <2>1, ChatbotAssumption DEF ChatbotAssumption, ChatOps
  <2>3. QED
    BY <1>2, <2>1, <2>2 DEF Saving
<1>6. /\ ~ t.entity.isActive /\ Counted(t.entity) /\ Below(t.entity.messages, k + 1)
      /\ t.entity.messages = row.messages \/ Len(t.entity.messages) < Len(row.messages)
      /\ "messages" \in t.cols <=> "messageCount" \in t.cols
      /\ "isActive" \in t.cols \/ t.cols = {} \/ ~ row.isActive
  BY <1>1, <1>2, <1>5 DEF Kept, GoodDelete
<1>7. /\ \/ new.messages = row.messages /\ new.messageCount = row.messageCount
         \/ new.messages = t.entity.messages /\ new.messageCount = t.entity.messageCount
      /\ new.isActive => row.isActive /\ new.messages = row.messages
  <2>1. \/ new.messages = row.messages /\ new.messageCount = row.messageCount
        \/ new.messages = t.entity.messages /\ new.messageCount = t.entity.messageCount
    BY <1>2, <1>6
  <2>2. CASE "isActive" \in t.cols
    <3>1. new.isActive = t.entity.isActive
      BY <1>2, <2>2
    <3>2. QED
      BY <1>6, <2>1, <3>1
  <2>3. CASE "isActive" \notin t.cols
    <3>1. new.isActive = row.isActive
      BY <1>2, <2>3
    <3>2. new.isActive => t.cols = {}
      BY <1>6, <2>3, <3>1
    <3>3. t.cols = {} => new.messages = row.messages
      BY <1>2
    <3>4. QED
      BY <2>1, <3>1, <3>2, <3>3
  <2>4. QED
    BY <2>2, <2>3
<1>8. Len(new.messages) <= Len(row.messages) /\ Len(new.messages) \in Nat
      /\ Len(row.messages) \in Nat
  BY <1>2, <1>6, <1>7, MessagesType
<1>9. GoodRow(new, c, answered, k)
  <2>1. GoodRow(row, c, answered, k)
    BY <1>1, <1>2, <1>3
  <2>2. Counted(new) /\ Below(new.messages, k + 1)
    BY <1>6, <1>7, <2>1 DEF GoodRow, Counted
  <2>3. QED
    BY <1>7, <2>1, <2>2 DEF GoodRow
<1>10. ASSUME NEW d \in Conversations, conversation'[d] # NULL
       PROVE  GoodRow(conversation'[d], d, answered', k)
  BY <1>1, <1>2, <1>3, <1>4, <1>9, <1>10 DEF Kept
<1>11. ASSUME NEW r \in ChatSlots \ {s}
       PROVE  GoodChat(task[r], conversation', answered', k)
  <2>1. PICK q : q = task[r]
    OBVIOUS
  <2>2. /\ GoodChat(q, conversation, answered, k) /\ Beside(t, q, conversation)
        /\ q \in Tasks
    BY <1>1, <1>2, <2>1 DEF Kept, Inside
  <2>3. ASSUME q.op = "chat"
        PROVE  Below(new.messages, q.exchange)
    BY <1>2, <1>5, <1>7, <2>2, <2>3 DEF GoodChat, Beside
  <2>4. ASSUME q.op = "chat", NEW d \in Conversations, conversation'[d] # NULL
        PROVE  Below(conversation'[d].messages, q.exchange)
    BY <1>2, <1>3, <2>2, <2>3, <2>4 DEF GoodChat
  <2>5. q.conversation # NULL =>
            /\ conversation'[q.conversation].isActive
                  => conversation[q.conversation].isActive
            /\ \/ conversation'[q.conversation] = conversation[q.conversation]
               \/ /\ q.conversation = c
                  /\ conversation'[q.conversation] = new
                  /\ conversation[q.conversation] = row
    BY <1>2, <1>3, <1>7, <2>2 DEF Tasks
  <2>6. ASSUME NEW n \in Nat, q.conversation # NULL
        PROVE  /\ Len(conversation[q.conversation].messages) <= n
                      => Len(conversation'[q.conversation].messages) <= n
               /\ Len(conversation[q.conversation].messages) < n
                      => Len(conversation'[q.conversation].messages) < n
    BY <1>8, <2>5, <2>6
  <2>7. q.op = "chat" /\ q.at \in Thinking \cup Pushing => Len(q.entity.messages) \in Nat
    BY <2>1, MessagesType DEF Inside, Sound, Thinking, Pushing
  <2>8. q.op = "chat" /\ q.at \in Thinking /\ q.conversation # NULL =>
            Len(conversation'[q.conversation].messages) <= Len(q.entity.messages)
    BY <2>2, <2>6, <2>7 DEF GoodChat
  <2>9. q.op = "chat" /\ q.at \in Pushing /\ q.conversation # NULL =>
            Len(conversation'[q.conversation].messages) < Len(q.entity.messages)
    BY <2>2, <2>6, <2>7 DEF GoodChat
  <2>10. QED
    BY <1>4, <2>1, <2>2, <2>4, <2>5, <2>8, <2>9 DEF GoodChat
<1>12. ASSUME NEW r \in ChatSlots \ {s}
       PROVE  /\ GoodDelete(task[r], conversation', k)
              /\ \A q : Beside(task[r], q, conversation')
  <2>1. ~ Saving(task[r])
    BY <1>5 DEF Kept, Doing, OneDelete, Saving
  <2>2. QED
    BY <2>1 DEF GoodDelete, Beside
<1>13. \A rows, A, r : /\ GoodChat(IdleTask, rows, A, k) /\ GoodDelete(IdleTask, rows, k)
                       /\ Beside(IdleTask, r, rows) /\ Beside(r, IdleTask, rows)
  BY IdleIsKept
<1>14. Doing(s, IdleTask)
  BY IdleTaskType DEF Doing
<1>15. QED
  BY <1>4, <1>10, <1>11, <1>12, <1>13, <1>14, KeptMoves

-----------------------------------------------------------------------------

LEMMA InitIsKept == Init => Kept
<1> SUFFICES ASSUME Init PROVE Kept
  OBVIOUS
<1>1. /\ \A c \in Conversations : conversation[c] = NULL
      /\ \A s \in ChatSlots : task[s] = IdleTask
  BY DEF Init, ChatInit
<1>2. \A s \in ChatSlots : Doing(s, IdleTask)
  BY IdleTaskType DEF Doing
<1>3. QED
  BY <1>1, <1>2, IdleIsKept DEF Kept

LEMMA NextKeepsKept == OneChat /\ OneDelete /\ Inside /\ Kept /\ [Next]_vars => Kept'
<1> SUFFICES ASSUME OneChat, OneDelete, Inside, Kept, [Next]_vars PROVE Kept'
  OBVIOUS
<1>1. CASE UNCHANGED <<conversation, task, chats, answered>>
  BY <1>1 DEF Kept
<1>2. CASE Crash
  <2>1. /\ \A s \in ChatSlots : task'[s] = IdleTask
        /\ UNCHANGED <<conversation, chats, answered>>
    BY <1>2 DEF Crash
  <2>2. \A s \in ChatSlots : Doing(s, IdleTask)
    BY IdleTaskType DEF Doing
  <2>3. QED
    BY <2>1, <2>2, IdleIsKept DEF Kept
<1>3. CASE AuthenticatedChatbotController
  BY <1>3, AskedIsKept, BegunDeleteIsKept DEF AuthenticatedChatbotController
<1>4. CASE ChatGoesOn
  <2>1. ASSUME NEW s \in ChatSlots, ChatFails(s)
        PROVE  Kept'
    BY <2>1, IdleKept DEF ChatFails
  <2>2. ASSUME NEW s \in ChatSlots, WriteConversation(s)
        PROVE  Kept'
    BY <2>2, ChatWriteIsKept, DeleteWriteIsKept
  <2>3. QED
    BY <1>4, <2>1, <2>2, LoadedIsKept, ModelIsKept, InsertIsKept, SelectIsKept DEF ChatGoesOn
<1>5. QED
  BY <1>1, <1>2, <1>3, <1>4 DEF Next, Calls, GoesOn, ChangePermissions, vars, chatVars

\* With one chat and one deletion in flight at a time, a user's conversation
\* keeps every answer given in it, in the order of the questions and counted,
\* as long as it is listed: wherever the deletion falls between the chat's
\* load, its calls of the model and its save, whatever fails on the way, and
\* whichever of the two writes first (chat, deleteConversation, save).
THEOREM NothingSaidStays ==
    ASSUME OneChat, OneDelete
    PROVE  Spec => []NothingSaidIsLost
<1>1. Kept => NothingSaidIsLost
  <2> SUFFICES ASSUME Kept, NEW c \in Conversations, conversation[c] # NULL
               PROVE  LET row == conversation[c] IN
                      /\ row.messageCount = 2 * Len(row.messages)
                      /\ row.isActive =>
                            /\ \A a \in answered :
                                  a.conversation = c => Contains(row.messages, a.exchange)
                            /\ \A i \in 1..(Len(row.messages) - 1) :
                                  row.messages[i] < row.messages[i + 1]
    BY DEF NothingSaidIsLost
  <2>1. GoodRow(conversation[c], c, answered, Len(chats))
    BY DEF Kept
  <2>2. QED
    BY <2>1 DEF GoodRow, Counted, Whole, Ascending, Contains
<1>2. Inside /\ Kept /\ [Next]_vars => (Inside /\ Kept)'
  BY NextKeepsInside, NextKeepsKept
<1>3. QED
  BY <1>1, <1>2, InitIsInside, InitIsKept, PTL DEF Spec
=============================================================================
