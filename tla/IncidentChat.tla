---------------------------- MODULE IncidentChat ----------------------------
(***************************************************************************)
(* The chat of one incident (messages.gateway.ts, messages.service.ts and  *)
(* the message routes of incidencias.controller.ts): the sockets in its    *)
(* room, the table messages, the pages the screens load, and the           *)
(* announcement of a client's message to the assigned employee.            *)
(*                                                                         *)
(* A message is stamped when its INSERT begins and seen by others when it  *)
(* is committed; only then is it emitted to the room.  One action between  *)
(* two awaits; fetchSockets and the emit after it run without a pause.     *)
(***************************************************************************)
EXTENDS Naturals, FiniteSets, Null

CONSTANTS
    Users, Clients,   \* who takes part, and which of them are clients
    Creator,          \* the client who created the incident
    Colleagues,       \* the users of the incident's enterprise
    SuperAdmins,      \* those of no enterprise
    IncidentStates,   \* what the other services make of the incident (environment)
    Sockets,          \* the websockets, each a connection or none
    Owner,            \* who connects by each of them (environment)
    ChatSlots,        \* messages being sent at once
    Limit,            \* messages to a page
    Millisecond,      \* of each message's createdAt (environment)
    MaxMessages,      \* bound: messages stored
    MaxRequests       \* bound: what users and other services ask for

Status == {"OPEN", "IN_PROGRESS", "RESOLVED", "CLOSED", "CANCELLED"}

Employees == Colleagues \ Clients

Incidents == [status : Status, isActive : BOOLEAN, assigned : Employees \cup {NULL}]

\* Messages are named by the order of their createdAt, which the database keeps
\* to the microsecond; of equal ones, by the order in which it returns them.
Messages == 1..MaxMessages

MessageRows == [sender : Users, isRead : BOOLEAN]

ASSUME ChatAssumption ==
    /\ MaxMessages \in Nat
    /\ MaxRequests \in Nat
    /\ Limit \in Nat \ {0}
    /\ Clients \subseteq Users
    /\ Colleagues \subseteq Users
    /\ SuperAdmins \subseteq Users \ (Clients \cup Colleagues)
    /\ Creator \in Clients \cap Colleagues
    /\ IncidentStates \subseteq Incidents
    /\ Millisecond \in [Messages -> Nat]
    /\ \A m, n \in Messages : m < n => Millisecond[m] <= Millisecond[n]
    /\ Owner \in [Sockets -> Users]
    /\ NULL \notin Users \cup MessageRows

VARIABLES
    incident,  \* the columns of the incident that the chat reads
    message,   \* the table messages, as committed
    stamped,   \* how many messages were begun to be inserted
    chatTask,  \* what each sending is doing
    conn,      \* each socket: its user once known, its room
    view,      \* what each screen shows, and from where it loaded
    emitted,   \* the messages that were emitted to the room
    heard,     \* who was given which message, in this room or in their own
    ended,     \* the messages whose handler went through, and whom it was to tell
    requests   \* how much was asked for

chatVars == <<incident, message, stamped, chatTask, conn, view, emitted, heard, ended, requests>>

sendVars == <<message, stamped, chatTask, emitted, heard, ended>>

\* users: who was in the room when the message was emitted.  employee: whom
\* the route by HTTP will tell, as it read the incident at its start.
ChatTasks ==
    [at : {"idle", "insert", "commit", "emit", "announce"}, by : {"gateway", "http"},
     sender : Users \cup {NULL}, message : Messages \cup {NULL},
     users : SUBSET Users, employee : Employees \cup {NULL}]

IdleChat ==
    [at |-> "idle", by |-> "http", sender |-> NULL, message |-> NULL, users |-> {},
     employee |-> NULL]

\* claimed: whose token handleConnection is looking up.
Connections ==
    [claimed : Users \cup {NULL}, userId : Users \cup {NULL},
     joining : BOOLEAN, inRoom : BOOLEAN]

NoConnection == [claimed |-> NULL, userId |-> NULL, joining |-> FALSE, inRoom |-> FALSE]

\* oldest: of the pages loaded since the socket joined the room.  cursors: the
\* messages before which it asked for more.
Views ==
    [seen : SUBSET Messages, oldest : Messages \cup {NULL}, cursors : SUBSET Messages]

NoView == [seen |-> {}, oldest |-> NULL, cursors |-> {}]

ChatInit ==
    /\ incident \in IncidentStates
    /\ message = [m \in Messages |-> NULL]
    /\ stamped = 0
    /\ chatTask = [s \in ChatSlots |-> IdleChat]
    /\ conn = [k \in Sockets |-> NoConnection]
    /\ view = [k \in Sockets |-> NoView]
    /\ emitted = {}
    /\ heard = {}
    /\ ended = {}
    /\ requests = 0

-----------------------------------------------------------------------------
(* Sockets *)

ConnBecomes(k, c) == conn' = [conn EXCEPT ![k] = c]

HandleConnection(k) ==
    /\ conn[k] = NoConnection
    /\ ConnBecomes(k, [NoConnection EXCEPT !.claimed = Owner[k]])
    /\ UNCHANGED <<incident, sendVars, view>>

\* The token is good and the user exists: from here on the socket is theirs.
Authenticated(k) ==
    /\ conn[k].claimed # NULL
    /\ ConnBecomes(k, [conn[k] EXCEPT !.claimed = NULL, !.userId = conn[k].claimed])
    /\ UNCHANGED <<incident, sendVars, view>>

\* validateIncidenciaAccess
HasAccess(u) == IF u \in Clients THEN u = Creator ELSE u \in Colleagues \cup SuperAdmins

HandleJoinRoom(k) ==
    /\ conn[k].userId # NULL
    /\ ~ conn[k].joining
    /\ HasAccess(conn[k].userId)
    /\ ConnBecomes(k, [conn[k] EXCEPT !.joining = TRUE])
    /\ UNCHANGED <<incident, sendVars, view>>

\* Also for a socket that left while its access was looked up.
Joined(k) ==
    /\ conn[k].joining
    /\ ConnBecomes(k, [conn[k] EXCEPT !.joining = FALSE, !.inRoom = TRUE])
    /\ UNCHANGED <<incident, sendVars, view>>

\* The screen keeps what it shows, but it no longer follows the room.
HandleLeaveRoom(k) ==
    /\ conn[k].inRoom
    /\ ConnBecomes(k, [conn[k] EXCEPT !.inRoom = FALSE])
    /\ view' = [view EXCEPT ![k] = NoView]
    /\ UNCHANGED <<incident, sendVars>>

\* What was still being looked up for the socket ends without effect.
HandleDisconnect(k) ==
    /\ conn[k] # NoConnection
    /\ ConnBecomes(k, NoConnection)
    /\ view' = [view EXCEPT ![k] = NoView]
    /\ UNCHANGED <<incident, sendVars>>

-----------------------------------------------------------------------------
(* Sending *)

Becomes(s, t) == chatTask' = [chatTask EXCEPT ![s] = t]

\* validateIncidenciaCanReceiveMessages, and the same tests in the gateway.
CanReceiveMessages == incident.isActive /\ incident.status \notin {"RESOLVED", "CLOSED"}

\* handleSendMessage; of the sender it asks only who they are.
HandleSendMessage(s, k) ==
    /\ chatTask[s].at = "idle"
    /\ conn[k].userId # NULL
    /\ CanReceiveMessages
    /\ Becomes(s, [IdleChat EXCEPT !.at = "insert", !.by = "gateway", !.sender = conn[k].userId])
    /\ UNCHANGED <<incident, message, stamped, conn, view, emitted, heard, ended>>

\* sendMessage and sendMessageAsClient of the controller.
SendMessage(s, u) ==
    /\ chatTask[s].at = "idle"
    /\ HasAccess(u)
    /\ CanReceiveMessages
    /\ Becomes(s, [IdleChat EXCEPT !.at = "insert", !.sender = u,
           !.employee = IF u \in Clients THEN incident.assigned ELSE NULL])
    /\ UNCHANGED <<incident, message, stamped, conn, view, emitted, heard, ended>>

\* MessagesService.create: the INSERT, which takes its stamp now ...
Insert(s) ==
    /\ chatTask[s].at = "insert"
    /\ stamped < MaxMessages
    /\ stamped' = stamped + 1
    /\ Becomes(s, [chatTask[s] EXCEPT !.at = "commit", !.message = stamped'])
    /\ UNCHANGED <<incident, message, conn, view, emitted, heard, ended>>

\* ... and its commit.
Commit(s) ==
    LET t == chatTask[s] IN
    /\ t.at = "commit"
    /\ message' = [message EXCEPT ![t.message] = [sender |-> t.sender, isRead |-> FALSE]]
    /\ Becomes(s, [t EXCEPT !.at = "emit"])
    /\ UNCHANGED <<incident, stamped, conn, view, emitted, heard, ended>>

\* emitNotificationToUser: who has no socket in their own room is not reached,
\* and nothing is stored for them; nor is anybody when nobody is assigned.
Told(e) == {u \in {e} : \E k \in Sockets : conn[k].userId = u} \ {NULL}

Finish(m, e) == ended' = ended \cup {[message |-> m, employee |-> e]}

\* The emit.  By HTTP, the employee read at the start is told of a client's
\* message in the same breath; the gateway goes on to read the incident again.
Emit(s) ==
    LET t == chatTask[s]
        room == {k \in Sockets : conn[k].inRoom}
        users == {conn[k].userId : k \in room} IN
    /\ t.at = "emit"
    /\ emitted' = emitted \cup {t.message}
    /\ view' = [k \in Sockets |->
           IF k \in room THEN [view[k] EXCEPT !.seen = @ \cup {t.message}] ELSE view[k]]
    /\ heard' = heard \cup [message : {t.message}, user : users \cup Told(t.employee)]
    /\ IF t.by = "gateway" /\ t.sender \in Clients
       THEN /\ Becomes(s, [t EXCEPT !.at = "announce", !.users = users])
            /\ UNCHANGED ended
       ELSE Becomes(s, IdleChat) /\ Finish(t.message, t.employee)
    /\ UNCHANGED <<incident, message, stamped, conn>>

\* Mutated form: who is in the room is asked anew.
EmployeeInRoom_Now(t, e) == \E k \in Sockets : conn[k].inRoom /\ conn[k].userId = e

EmployeeInRoom(t, e) == e \in t.users

\* An employee who was in the room when the message came is not told of it.
Announce(s) ==
    LET t == chatTask[s]
        e == incident.assigned IN
    /\ t.at = "announce"
    /\ heard' = IF EmployeeInRoom(t, e) THEN heard
                ELSE heard \cup [message : {t.message}, user : Told(e)]
    /\ Finish(t.message, e)
    /\ Becomes(s, IdleChat)
    /\ UNCHANGED <<incident, message, stamped, conn, view, emitted>>

\* A query fails: the sender is told that the message was not sent, although
\* from the commit on it is stored, and after the emit it was read.
Fails(s) ==
    /\ chatTask[s].at # "idle"
    /\ Becomes(s, IdleChat)
    /\ UNCHANGED <<incident, message, stamped, conn, view, emitted, heard, ended>>

-----------------------------------------------------------------------------
(* Reading *)

Stored == {m \in Messages : message[m] # NULL}

\* The newest messages of M, at most Limit.
Newest(M) == {m \in M : Cardinality({n \in M : n > m}) < Limit}

\* Mutated form: pages go from the oldest message to the newest.
Page_Ascending(before) ==
    LET M == IF before = NULL THEN Stored
             ELSE {m \in Stored : Millisecond[m] < Millisecond[before]} IN
    {m \in M : Cardinality({n \in M : n < m}) < Limit}

\* findAllByIncidencia, whose cursor is the oldest message already loaded.  The
\* cursor's createdAt is a Date, cut to the millisecond, and the column is
\* compared with that: no other message of its millisecond is before it.
Page(before) ==
    Newest(IF before = NULL THEN Stored
           ELSE {m \in Stored : Millisecond[m] < Millisecond[before]})

\* A screen in the room asks for the first page, or for the one before.
FindAllByIncidencia(k) ==
    LET page == Page(view[k].oldest) IN
    /\ conn[k].inRoom
    /\ page # {}
    /\ view' = [view EXCEPT ![k] =
           [seen |-> @.seen \cup page,
            oldest |-> CHOOSE m \in page : \A n \in page : m <= n,
            cursors |-> @.cursors \cup ({@.oldest} \ {NULL})]]
    /\ UNCHANGED <<incident, sendVars, conn>>

\* markMultipleAsRead without a list of messages: all but the user's own.
MarkMultipleAsRead(u) ==
    /\ HasAccess(u)
    /\ message' = [m \in Messages |->
           IF m \in Stored /\ message[m].sender # u THEN [message[m] EXCEPT !.isRead = TRUE]
                                                    ELSE message[m]]
    /\ UNCHANGED <<incident, stamped, chatTask, conn, view, emitted, heard, ended>>

-----------------------------------------------------------------------------

\* The other services change the incident (IncidentLifecycle).
IncidentChanges ==
    /\ incident' \in IncidentStates
    /\ incident' # incident
    /\ UNCHANGED <<sendVars, conn, view>>

Requests ==
    /\ requests < MaxRequests
    /\ requests' = requests + 1
    /\ \/ \E k \in Sockets :
             \/ HandleConnection(k)
             \/ HandleJoinRoom(k)
             \/ HandleLeaveRoom(k)
             \/ HandleDisconnect(k)
             \/ FindAllByIncidencia(k)
             \/ \E s \in ChatSlots : HandleSendMessage(s, k)
       \/ \E u \in Users :
             \/ \E s \in ChatSlots : SendMessage(s, u)
             \/ MarkMultipleAsRead(u)
       \/ IncidentChanges

\* What was begun goes on, or fails.
GoesOn ==
    /\ \/ \E k \in Sockets : Authenticated(k) \/ Joined(k)
       \/ \E s \in ChatSlots : Insert(s) \/ Commit(s) \/ Emit(s) \/ Announce(s) \/ Fails(s)
    /\ UNCHANGED requests

ChatNext == Requests \/ GoesOn

ChatSpec == ChatInit /\ [][ChatNext]_chatVars

-----------------------------------------------------------------------------

ChatTypeOK ==
    /\ incident \in IncidentStates
    /\ message \in [Messages -> MessageRows \cup {NULL}]
    /\ stamped \in 0..MaxMessages
    /\ chatTask \in [ChatSlots -> ChatTasks]
    /\ conn \in [Sockets -> Connections]
    /\ view \in [Sockets -> Views]
    /\ emitted \subseteq Messages
    /\ heard \subseteq [message : Messages, user : Users]
    /\ ended \subseteq [message : Messages, employee : Employees \cup {NULL}]
    /\ requests \in 0..MaxRequests

\* A screen that joined the room and then loaded pages shows every message
\* that was emitted, back to the oldest it loaded, in whatever order messages
\* are stamped, committed and emitted (create before emit;
\* findAllByIncidencia).  What falls between two pages is exactly what was
\* created before a cursor and in the cursor's millisecond.
NoMessageFallsBetween ==
    \A k \in Sockets :
        view[k].oldest # NULL =>
            \A m \in emitted :
                m >= view[k].oldest =>
                    \/ m \in view[k].seen
                    \/ \E n \in view[k].cursors : m < n /\ Millisecond[m] = Millisecond[n]

\* When the sending of a client's message goes through, the employee it found
\* assigned has heard of it, in the room or by being told, whoever joined, left
\* or was assigned meanwhile (handleSendMessage, sendMessageAsClient); except
\* that nobody was assigned, or that no socket of the employee's is connected.
AssignedEmployeeHears ==
    [][\A x \in ended' \ ended :
           x.employee # NULL /\ (\E k \in Sockets : conn[k].userId = x.employee) =>
               [message |-> x.message, user |-> x.employee] \in heard']_chatVars
=============================================================================
