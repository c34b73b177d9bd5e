---------------------------- MODULE GuestChatbot ----------------------------
(***************************************************************************)
(* The public chatbot (chatbot/chatbot.service.ts): how many questions a   *)
(* visitor's session may ask.  The sessions are objects in a map of the    *)
(* process; a question holds on to its object while the language model     *)
(* (external) answers, and counts it back when the model fails, whatever   *)
(* became of the session meanwhile.                                        *)
(***************************************************************************)
EXTENDS Naturals, FiniteSets, Null

CONSTANTS
    SessionIds,
    SessionData,    \* the objects made so far and to be made (bound)
    GuestSlots,     \* questions that may be in flight at once
    MAX_QUESTIONS

Sessions == [questionCount : 0..MAX_QUESTIONS, old : BOOLEAN]

Questions == [id : SessionIds, data : SessionData]

ASSUME GuestAssumption ==
    /\ MAX_QUESTIONS \in Nat \ {0}
    /\ IsFiniteSet(GuestSlots)
    /\ NULL \notin SessionData \cup Sessions \cup Questions

VARIABLES
    sessionStore,  \* the map
    session,       \* each object: what it counts and whether it is a day old
    guest,         \* the question in flight in each slot
    guestAnswered  \* history: how many questions charged to each object got an answer

guestVars == <<sessionStore, session, guest, guestAnswered>>

GuestInit ==
    /\ sessionStore = [i \in SessionIds |-> NULL]
    /\ session = [d \in SessionData |-> NULL]
    /\ guest = [s \in GuestSlots |-> NULL]
    /\ guestAnswered = [d \in SessionData |-> 0]

GuestInFlight(d) == {s \in GuestSlots : guest[s] # NULL /\ guest[s].data = d}

\* getOrCreateSession: the object in the map, or a new one.
SessionOf(id) ==
    IF sessionStore[id] # NULL THEN {sessionStore[id]} ELSE {d \in SessionData : session[d] = NULL}

Count(d) == IF session[d] = NULL THEN 0 ELSE session[d].questionCount

\* A question is charged before the model is asked.  Past the limit it is
\* refused, and nothing changes.
GuestChat(s, id) ==
    /\ guest[s] = NULL
    /\ \E d \in SessionOf(id) :
          /\ Count(d) < MAX_QUESTIONS
          /\ session' = [session EXCEPT ![d] = [questionCount |-> Count(d) + 1, old |-> FALSE]]
          /\ sessionStore' = [sessionStore EXCEPT ![id] = d]
          /\ guest' = [guest EXCEPT ![s] = [id |-> id, data |-> d]]
    /\ UNCHANGED guestAnswered

GuestReply(s) ==
    /\ guest[s] # NULL
    /\ guestAnswered' = [guestAnswered EXCEPT ![guest[s].data] = @ + 1]
    /\ guest' = [guest EXCEPT ![s] = NULL]
    /\ UNCHANGED <<sessionStore, session>>

\* Mutated form: counted back on the session of the map, if there is one.
CountedBack_InTheMap(q) ==
    IF sessionStore[q.id] = NULL \/ Count(sessionStore[q.id]) = 0 THEN session
    ELSE [session EXCEPT ![sessionStore[q.id]].questionCount = @ - 1]

CountedBack(q) == [session EXCEPT ![q.data].questionCount = @ - 1]

\* The model fails; the object is put back into the map, from which it may
\* have been removed, or where another may have taken its place.
GuestChatFails(s) ==
    /\ guest[s] # NULL
    /\ session' = CountedBack(guest[s])
    /\ sessionStore' = [sessionStore EXCEPT ![guest[s].id] = guest[s].data]
    /\ guest' = [guest EXCEPT ![s] = NULL]
    /\ UNCHANGED guestAnswered

ResetSession(id) ==
    /\ sessionStore[id] # NULL
    /\ sessionStore' = [sessionStore EXCEPT ![id] = NULL]
    /\ UNCHANGED <<session, guest, guestAnswered>>

\* A day after the last question; no call to the model takes that long.
SessionAges(d) ==
    /\ session[d] # NULL
    /\ ~ session[d].old
    /\ GuestInFlight(d) = {}
    /\ session' = [session EXCEPT ![d].old = TRUE]
    /\ UNCHANGED <<sessionStore, guest, guestAnswered>>

\* Every hour.
CleanupOldSessions ==
    /\ sessionStore' = [i \in SessionIds |->
           IF sessionStore[i] # NULL /\ session[sessionStore[i]].old THEN NULL
                                                                  ELSE sessionStore[i]]
    /\ sessionStore' # sessionStore
    /\ UNCHANGED <<session, guest, guestAnswered>>

\* The map and the objects are gone.
GuestCrash ==
    /\ sessionStore' = [i \in SessionIds |-> NULL]
    /\ session' = [d \in SessionData |-> NULL]
    /\ guest' = [s \in GuestSlots |-> NULL]
    /\ guestAnswered' = [d \in SessionData |-> 0]

\* The routes of chatbot.controller.ts that change something.
ChatbotController ==
    \E id \in SessionIds : ResetSession(id) \/ \E s \in GuestSlots : GuestChat(s, id)

GuestGoesOn ==
    \/ \E s \in GuestSlots : GuestReply(s) \/ GuestChatFails(s)
    \/ \E d \in SessionData : SessionAges(d)
    \/ CleanupOldSessions

-----------------------------------------------------------------------------

GuestTypeOK ==
    /\ sessionStore \in [SessionIds -> SessionData \cup {NULL}]
    /\ session \in [SessionData -> Sessions \cup {NULL}]
    /\ guest \in [GuestSlots -> Questions \cup {NULL}]
    /\ guestAnswered \in [SessionData -> 0..MAX_QUESTIONS]

\* A session is charged for the questions that were answered or still may be,
\* and for no other, and never past its limit: however its questions overlap,
\* fail, and outlive the session in the map that a reset or the cleanup
\* removed (ChatbotService.chat).
QuotaIsSpentOnAnswers ==
    \A d \in SessionData :
        /\ Count(d) = guestAnswered[d] + Cardinality(GuestInFlight(d))
        /\ Count(d) <= MAX_QUESTIONS
=============================================================================
