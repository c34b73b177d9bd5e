------------------------------ MODULE Chatbot ------------------------------
(***************************************************************************)
(* The chatbot of signed-in users (authenticated-chatbot.service.ts,       *)
(* function-executor.service.ts, groq-function.service.ts), beside the     *)
(* public one (GuestChatbot).                                              *)
(*                                                                         *)
(* The language model is external and may answer anything: a text, or the  *)
(* name of a function it wants called, offered to it or not.  A chat keeps *)
(* its conversation in memory through two calls of the model and then      *)
(* saves all of it.                                                        *)
(***************************************************************************)
EXTENDS GuestChatbot, Sequences, SequencesExt, TypeOrm

CONSTANTS
    Users,
    Conversations,  \* the ids of conversations
    ChatSlots,      \* requests of signed-in users in flight at once
    ChatWorkload,   \* the handlers each slot may run (environment)
    Asked,          \* the functions the model asks for (environment)
    Grantable,      \* the permissions that roles are given and lose (environment)
    MaxRequests     \* bound: questions and requests started

ChatOps == {"chat", "delete"}

ValidPermission == {"viewIncidents", "viewUsers", "readDashboard", "getRoles"}

\* The permission a function needs, if it needs one; a name the executor does
\* not know is refused.
Needs ==
    [get_my_profile |-> {}, get_incidents |-> {"viewIncidents"},
     get_incident_details |-> {"viewIncidents"}, get_users |-> {"viewUsers"},
     get_user_details |-> {"viewUsers"}, get_dashboard_stats |-> {"readDashboard"},
     get_roles |-> {"getRoles"}]

\* Chats, in the order in which they are begun.
Exchanges == 1..MaxRequests

\* A row; each exchange is two messages, the user's and the assistant's.
Rows ==
    [user : Users, messages : Seq(Exchanges), messageCount : Nat, isActive : BOOLEAN]

ASSUME ChatbotAssumption ==
    /\ ChatWorkload \in [ChatSlots -> SUBSET ChatOps]
    /\ Grantable \subseteq ValidPermission
    /\ MaxRequests \in Nat
    /\ NULL \notin Users \cup Conversations \cup Asked
    /\ NULL \notin Rows

VARIABLES
    conversation,  \* the table chatbot_conversations
    permissions,   \* what the roles of each user grant
    task,          \* what each slot is doing
    requests,      \* questions and requests started
    chats,         \* history: who asked in each exchange, with which permissions,
    answered       \* history: and the answers, with the data they were made from

chatVars == <<conversation, permissions, task, chats, answered>>
vars == <<guestVars, chatVars, requests>>

Answers == [exchange : Exchanges, conversation : Conversations, data : Asked \cup {NULL}]

\* permissions: those of the user the request was authenticated as.  function:
\* what the model asked for, and data: what was executed.
Tasks ==
    [op : ChatOps \cup {"none"},
     at : {"idle", "load", "ask", "execute", "phrase", "select", "write", "insert"},
     user : Users \cup {NULL}, permissions : SUBSET ValidPermission,
     exchange : 0..MaxRequests, conversation : Conversations \cup {NULL},
     function : Asked \cup {NULL}, data : Asked \cup {NULL},
     entity : Rows \cup {NULL}, cols : SUBSET {"messages", "messageCount", "isActive"}]

IdleTask ==
    [op |-> "none", at |-> "idle", user |-> NULL, permissions |-> {}, exchange |-> 0,
     conversation |-> NULL, function |-> NULL, data |-> NULL, entity |-> NULL, cols |-> {}]

ChatInit ==
    /\ conversation = [c \in Conversations |-> NULL]
    /\ permissions \in [Users -> SUBSET Grantable]
    /\ task = [s \in ChatSlots |-> IdleTask]
    /\ requests = 0
    /\ chats = <<>>
    /\ answered = {}

Becomes(s, t) == task' = [task EXCEPT ![s] = t]

-----------------------------------------------------------------------------
(* AuthenticatedChatbotService.chat *)

NewConversation(u) == [user |-> u, messages |-> <<>>, messageCount |-> 0, isActive |-> TRUE]

\* In a conversation, or with c = NULL in a new one, which is not stored yet.
Chat(s, u, c) ==
    /\ task[s].at = "idle"
    /\ "chat" \in ChatWorkload[s]
    /\ LET t == [IdleTask EXCEPT !.op = "chat", !.user = u, !.permissions = permissions[u],
                                 !.exchange = Len(chats) + 1]
       IN Becomes(s, IF c = NULL THEN [t EXCEPT !.at = "ask", !.entity = NewConversation(u)]
                                 ELSE [t EXCEPT !.at = "load", !.conversation = c])
    /\ chats' = Append(chats, [user |-> u, permissions |-> permissions[u]])
    /\ UNCHANGED <<conversation, permissions, answered>>

\* The row, if it is there and the user's.
FindConversation(c, u) ==
    IF conversation[c] # NULL /\ conversation[c].user = u THEN conversation[c] ELSE NULL

\* With no row the request is refused.
LoadConversation(s) ==
    LET t == task[s]
        row == FindConversation(t.conversation, t.user) IN
    /\ t.at = "load"
    /\ Becomes(s, IF row = NULL THEN IdleTask
                  ELSE IF t.op = "chat" THEN [t EXCEPT !.at = "ask", !.entity = row]
                  ELSE [t EXCEPT !.at = "select", !.entity = [row EXCEPT !.isActive = FALSE]])
    /\ UNCHANGED <<conversation, permissions, chats, answered>>

\* Mutated form: the newest messages come first.
Pushed_Unshift(t) ==
    LET messages == <<t.exchange>> \o t.entity.messages IN
    [t EXCEPT !.entity = [@ EXCEPT !.messages = messages, !.messageCount = 2 * Len(messages)],
              !.at = IF t.conversation = NULL THEN "insert" ELSE "select"]

\* The entity with the exchange pushed, on its way to the database.
Pushed(t) ==
    LET messages == Append(t.entity.messages, t.exchange) IN
    [t EXCEPT !.entity = [@ EXCEPT !.messages = messages, !.messageCount = 2 * Len(messages)],
              !.at = IF t.conversation = NULL THEN "insert" ELSE "select"]

\* chatWithFunctions: a text is the answer, a function is called.
AskModel(s) ==
    /\ task[s].at = "ask"
    /\ \/ Becomes(s, Pushed(task[s]))
       \/ \E f \in Asked : Becomes(s, [task[s] EXCEPT !.at = "execute", !.function = f])
    /\ UNCHANGED <<conversation, permissions, chats, answered>>

\* Mutated form: the model was only offered what the user may call.
MayExecute_Offered(f, granted) == f \in DOMAIN Needs

MayExecute(f, granted) == f \in DOMAIN Needs /\ Needs[f] \subseteq granted

\* execute: its queries run, or the refusal or the error becomes the answer.
Execute(s) ==
    LET t == task[s] IN
    /\ t.at = "execute"
    /\ \/ /\ MayExecute(t.function, t.permissions)
          /\ Becomes(s, [t EXCEPT !.at = "phrase", !.data = t.function])
       \/ Becomes(s, Pushed(t))
    /\ UNCHANGED <<conversation, permissions, chats, answered>>

\* generateResponseWithFunctionResult
PhraseResult(s) ==
    /\ task[s].at = "phrase"
    /\ Becomes(s, Pushed(task[s]))
    /\ UNCHANGED <<conversation, permissions, chats, answered>>

Answer(t, c) ==
    answered' = answered \cup {[exchange |-> t.exchange, conversation |-> c, data |-> t.data]}

InsertConversation(s, c) ==
    LET t == task[s] IN
    /\ t.at = "insert"
    /\ conversation[c] = NULL
    /\ conversation' = [conversation EXCEPT ![c] = t.entity]
    /\ Answer(t, c)
    /\ Becomes(s, IdleTask)
    /\ UNCHANGED <<permissions, chats>>

\* repository.save(conversation)
SelectConversation(s) ==
    LET t == task[s] IN
    /\ t.at = "select"
    /\ Becomes(s, [t EXCEPT !.at = "write",
                            !.cols = Changed(t.entity, conversation[t.conversation])])
    /\ UNCHANGED <<conversation, permissions, chats, answered>>

WriteConversation(s) ==
    LET t == task[s] IN
    /\ t.at = "write"
    /\ conversation' = [conversation EXCEPT ![t.conversation] = Written(@, t.entity, t.cols)]
    /\ IF t.op = "chat" THEN Answer(t, t.conversation) ELSE UNCHANGED answered
    /\ Becomes(s, IdleTask)
    /\ UNCHANGED <<permissions, chats>>

-----------------------------------------------------------------------------

\* The row is marked inactive; asking in it goes on to be possible.
DeleteConversation(s, u, c) ==
    /\ task[s].at = "idle"
    /\ "delete" \in ChatWorkload[s]
    /\ Becomes(s, [IdleTask EXCEPT !.op = "delete", !.at = "load", !.user = u,
                                   !.conversation = c])
    /\ UNCHANGED <<conversation, permissions, chats, answered>>

\* A query or a call of the model fails: the user is told, nothing is saved.
ChatFails(s) ==
    /\ task[s].at # "idle"
    /\ Becomes(s, IdleTask)
    /\ UNCHANGED <<conversation, permissions, chats, answered>>

\* The roles of a user are changed (RoleAdministration, UserAdministration).
ChangePermissions(u) ==
    /\ \E P \in SUBSET Grantable :
          /\ P # permissions[u]
          /\ permissions' = [permissions EXCEPT ![u] = P]
    /\ UNCHANGED <<conversation, task, chats, answered>>

-----------------------------------------------------------------------------

\* The routes of authenticated-chatbot.controller.ts that change something.
\* The ids of conversations are those of rows, the users' own or not.
AuthenticatedChatbotController ==
    \E s \in ChatSlots, u \in Users :
        \/ Chat(s, u, NULL)
        \/ \E c \in Conversations :
              conversation[c] # NULL /\ (Chat(s, u, c) \/ DeleteConversation(s, u, c))

ChatGoesOn ==
    \E s \in ChatSlots :
        \/ LoadConversation(s)
        \/ AskModel(s)
        \/ Execute(s)
        \/ PhraseResult(s)
        \/ \E c \in Conversations : InsertConversation(s, c)
        \/ SelectConversation(s)
        \/ WriteConversation(s)
        \/ ChatFails(s)

Calls ==
    /\ requests < MaxRequests
    /\ requests' = requests + 1
    /\ \/ ChatbotController /\ UNCHANGED chatVars
       \/ AuthenticatedChatbotController /\ UNCHANGED guestVars
       \/ (\E u \in Users : ChangePermissions(u)) /\ UNCHANGED guestVars

GoesOn ==
    /\ \/ GuestGoesOn /\ UNCHANGED chatVars
       \/ ChatGoesOn /\ UNCHANGED guestVars
    /\ UNCHANGED requests

Crash ==
    /\ GuestCrash
    /\ task' = [s \in ChatSlots |-> IdleTask]
    /\ <<sessionStore, guest, task>>' # <<sessionStore, guest, task>>
    /\ UNCHANGED <<conversation, permissions, requests, chats, answered>>

Init == GuestInit /\ ChatInit

Next == Calls \/ GoesOn \/ Crash

Spec == Init /\ [][Next]_vars

-----------------------------------------------------------------------------

TypeOK ==
    /\ GuestTypeOK
    /\ conversation \in [Conversations -> Rows \cup {NULL}]
    /\ permissions \in [Users -> SUBSET ValidPermission]
    /\ task \in [ChatSlots -> Tasks]
    /\ requests \in 0..MaxRequests
    /\ chats \in Seq([user : Users, permissions : SUBSET ValidPermission])
    /\ Len(chats) <= MaxRequests
    /\ answered \subseteq Answers

\* What a user was answered stays in the conversation as long as it is listed,
\* in the order it was asked, and counted (chat, deleteConversation).  Holds if
\* one chat and one deletion at a time are in flight: two chats that began from
\* the same messages keep the later one's alone, and a second deletion writes
\* old messages into a conversation that a chat has made active again.
NothingSaidIsLost ==
    \A c \in Conversations : conversation[c] # NULL =>
        LET row == conversation[c] IN
        /\ row.messageCount = 2 * Len(row.messages)
        /\ row.isActive =>
              /\ \A a \in answered : a.conversation = c => Contains(row.messages, a.exchange)
              /\ \A i \in 1..(Len(row.messages) - 1) : row.messages[i] < row.messages[i + 1]

\* An answer goes into a conversation of the user who asked, and is made from
\* no data that user's roles did not grant when the request came in, although
\* the model may ask for any function (chat, execute, checkPermission).
AnswersStayInside ==
    \A a \in answered :
        /\ conversation[a.conversation].user = chats[a.exchange].user
        /\ a.data # NULL => Needs[a.data] \subseteq chats[a.exchange].permissions
=============================================================================
