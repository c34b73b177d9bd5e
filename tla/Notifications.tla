---------------------------- MODULE Notifications ----------------------------
(***************************************************************************)
(* Notifications of a user (notification.service.ts), their sending by     *)
(* every active channel (providers/), and the registry of websockets       *)
(* (notification.gateway.ts), beside the preferences (UserPreferences).    *)
(*                                                                         *)
(* sendToUser stores the row, asks once which channels are active and then *)
(* sends by all of them in parallel; each channel asks again whether it is *)
(* active, and what goes wrong in one is only logged.  Nothing is sent     *)
(* again.  The e-mail and Telegram services are external.                  *)
(***************************************************************************)
EXTENDS UserPreferences

CONSTANTS
    Notices,      \* the ids of notifications
    SendSlots,    \* calls of sendToUser in flight at once
    BoxSlots,     \* requests about stored notifications in flight at once
    Sockets,      \* the ids of websocket connections
    MaxRequests   \* bound: how often the users and the other services call

Notifications == [user : Users, isRead : BOOLEAN]

ASSUME NotificationsAssumption ==
    /\ MaxRequests \in Nat
    /\ NULL \notin Notifications \cup Notices \cup Sockets

VARIABLES
    notification,  \* the table notifications
    sent,          \* the notifications ever stored, and whose they are
    sendTask,      \* what each call of sendToUser is doing
    boxTask,       \* what each request about stored notifications is doing
    conn,          \* each websocket: its life, and what handleConnection did
    userSockets,   \* the gateway's map
    delivered,     \* what left by which channel
    lost,          \* what will never leave by a channel that was active
    requests       \* how many calls were made

boxVars == <<notification, boxTask>>
gatewayVars == <<conn, userSockets>>
outcomes == <<delivered, lost>>
vars == <<prefVars, notification, sent, sendTask, boxTask, conn, userSockets, delivered, lost,
          requests>>

Sendings == [notice : Notices, provider : ProviderType]

\* channel: how far send() of each provider is.
SendTasks ==
    [at : {"idle", "providers", "sending"}, user : Users \cup {NULL},
     notice : Notices \cup {NULL},
     channel : [ProviderType -> {"inactive", "check", "address", "settled"}]]

IdleSend ==
    [at |-> "idle", user |-> NULL, notice |-> NULL,
     channel |-> [p \in ProviderType |-> "inactive"]]

\* insert: the save found no row of that id.
BoxTasks ==
    [at : {"idle", "select", "write", "insert", "remove"}, notice : Notices \cup {NULL},
     entity : Notifications \cup {NULL}, cols : SUBSET {"user", "isRead"}]

IdleBox == [at |-> "idle", notice |-> NULL, entity |-> NULL, cols |-> {}]

Connections ==
    [life : {"new", "open", "closed"}, handler : {"none", "verify", "registered"},
     user : Users \cup {NULL}]

NotificationInit ==
    /\ notification = [n \in Notices |-> NULL]
    /\ sent = {}
    /\ sendTask = [s \in SendSlots |-> IdleSend]
    /\ boxTask = [s \in BoxSlots |-> IdleBox]
    /\ conn = [k \in Sockets |-> [life |-> "new", handler |-> "none", user |-> NULL]]
    /\ userSockets = [u \in Users |-> {}]
    /\ delivered = {}
    /\ lost = {}
    /\ requests = 0

-----------------------------------------------------------------------------
(* NotificationService.sendToUser *)

SendBecomes(s, t) == sendTask' = [sendTask EXCEPT ![s] = t]

\* create: the row is stored, unread, under a new id.
SendToUser(s, u, n) ==
    /\ sendTask[s].at = "idle"
    /\ n \notin {x.notice : x \in sent}
    /\ notification' = [notification EXCEPT ![n] = [user |-> u, isRead |-> FALSE]]
    /\ sent' = sent \cup {[notice |-> n, user |-> u]}
    /\ SendBecomes(s, [IdleSend EXCEPT !.at = "providers", !.user = u, !.notice = n])
    /\ UNCHANGED <<prefVars, boxTask, gatewayVars, outcomes>>

Enabled(u, p) == pref[u][p] # NULL /\ pref[u][p].isEnabled

GetActiveProviders(s) ==
    LET t == sendTask[s] IN
    /\ t.at = "providers"
    /\ SendBecomes(s, [t EXCEPT !.at = "sending",
           !.channel = [p \in ProviderType |->
                           IF Enabled(t.user, p) THEN "check" ELSE "inactive"]])
    /\ UNCHANGED <<prefVars, notification, sent, boxTask, gatewayVars, outcomes>>

\* Mutated form: the list of active providers is enough.
IsEnabled_Listed(u, p) == TRUE

\* isEnabled of each provider.
IsEnabled(u, p) ==
    /\ Enabled(u, p)
    /\ p = "TELEGRAM" => "chatId" \in pref[u][p].config
    /\ p = "WHATSAPP" => "phoneNumber" \in pref[u][p].config

Settled(t, p) == [t EXCEPT !.channel[p] = "settled"]

Leaves(t, p) == delivered' = delivered \cup {[notice |-> t.notice, provider |-> p]}

\* send() up to its first answer; the websocket's goes on to its end, which
\* reaches nobody when the user has no socket.
Check(s, p) ==
    LET t == sendTask[s]
        on == IsEnabled(t.user, p) IN
    /\ t.channel[p] = "check"
    /\ SendBecomes(s, IF on /\ p # "WEBSOCKET" THEN [t EXCEPT !.channel[p] = "address"]
                                               ELSE Settled(t, p))
    /\ IF on /\ p = "WEBSOCKET" /\ userSockets[t.user] # {} THEN Leaves(t, p)
                                                             ELSE UNCHANGED delivered
    /\ UNCHANGED <<prefVars, notification, sent, boxTask, gatewayVars, lost>>

\* The rest of send(), which reads the user's address: the e-mail channel's
\* from the account, the others' from the preference if it is still enabled.
Deliver(s, p) ==
    LET t == sendTask[s] IN
    /\ t.channel[p] = "address"
    /\ SendBecomes(s, Settled(t, p))
    /\ IF p = "EMAIL" \/ IsEnabled(t.user, p) THEN Leaves(t, p) ELSE UNCHANGED delivered
    /\ UNCHANGED <<prefVars, notification, sent, boxTask, gatewayVars, lost>>

\* Mutated form: the error is thrown and ends the call.
ProviderFails_Throws(s, p) ==
    /\ sendTask[s].channel[p] \in {"check", "address"}
    /\ SendBecomes(s, IdleSend)
    /\ lost' = lost \cup {[notice |-> sendTask[s].notice, provider |-> p]}
    /\ UNCHANGED <<prefVars, notification, sent, boxTask, gatewayVars, delivered>>

\* A query fails, or the service does: only this channel's sending is lost.
ProviderFails(s, p) ==
    LET t == sendTask[s] IN
    /\ t.channel[p] \in {"check", "address"}
    /\ SendBecomes(s, Settled(t, p))
    /\ lost' = lost \cup {[notice |-> t.notice, provider |-> p]}
    /\ UNCHANGED <<prefVars, notification, sent, boxTask, gatewayVars, delivered>>

\* getActiveProviders fails: the caller gets the error, and nothing is sent.
SendFails(s) ==
    LET t == sendTask[s] IN
    /\ t.at = "providers"
    /\ SendBecomes(s, IdleSend)
    /\ lost' = lost \cup [notice : {t.notice}, provider : ProviderType]
    /\ UNCHANGED <<prefVars, notification, sent, boxTask, gatewayVars, delivered>>

\* Promise.allSettled
AllSettled(s) ==
    /\ sendTask[s].at = "sending"
    /\ \A p \in ProviderType : sendTask[s].channel[p] \in {"inactive", "settled"}
    /\ SendBecomes(s, IdleSend)
    /\ UNCHANGED <<prefVars, notification, sent, boxTask, gatewayVars, outcomes>>

-----------------------------------------------------------------------------
(* The stored notifications *)

BoxBecomes(s, t) == boxTask' = [boxTask EXCEPT ![s] = t]

\* Mutated form: reading what is read makes it unread.
Marked_Toggled(row) == [row EXCEPT !.isRead = ~@]

Marked(row) == [row EXCEPT !.isRead = TRUE]

MarkAsRead(s, n) ==
    /\ boxTask[s].at = "idle"
    /\ notification[n] # NULL
    /\ ~ notification[n].isRead
    /\ BoxBecomes(s, [IdleBox EXCEPT !.at = "select", !.notice = n,
                                     !.entity = Marked(notification[n])])
    /\ UNCHANGED <<prefVars, notification, sent, sendTask, gatewayVars, outcomes>>

\* The save finds the row, or, when it was removed meanwhile, none: it will
\* insert it again.
MarkSelect(s) ==
    LET t == boxTask[s] IN
    /\ t.at = "select"
    /\ IF notification[t.notice] = NULL
       THEN BoxBecomes(s, [t EXCEPT !.at = "insert"])
       ELSE BoxBecomes(s, [t EXCEPT !.at = "write",
                                    !.cols = Changed(t.entity, notification[t.notice])])
    /\ UNCHANGED <<prefVars, notification, sent, sendTask, gatewayVars, outcomes>>

\* An UPDATE of a row removed after the SELECT changes nothing.
MarkWrite(s) ==
    LET t == boxTask[s]
        row == notification[t.notice] IN
    /\ t.at \in {"write", "insert"}
    /\ notification' = [notification EXCEPT ![t.notice] =
           IF t.at = "insert" THEN t.entity
           ELSE IF row = NULL THEN NULL ELSE Written(row, t.entity, t.cols)]
    /\ BoxBecomes(s, IdleBox)
    /\ UNCHANGED <<prefVars, sent, sendTask, gatewayVars, outcomes>>

Remove(s, n) ==
    /\ boxTask[s].at = "idle"
    /\ notification[n] # NULL
    /\ BoxBecomes(s, [IdleBox EXCEPT !.at = "remove", !.notice = n])
    /\ UNCHANGED <<prefVars, notification, sent, sendTask, gatewayVars, outcomes>>

RemoveWrite(s) ==
    /\ boxTask[s].at = "remove"
    /\ notification' = [notification EXCEPT ![boxTask[s].notice] = NULL]
    /\ BoxBecomes(s, IdleBox)
    /\ UNCHANGED <<prefVars, sent, sendTask, gatewayVars, outcomes>>

BelongsTo(n, u) == notification[n] # NULL /\ notification[n].user = u

\* One UPDATE.
MarkAllAsRead(u) ==
    /\ notification' = [n \in Notices |->
           IF BelongsTo(n, u) THEN Marked(notification[n]) ELSE notification[n]]
    /\ UNCHANGED <<prefVars, sent, sendTask, boxTask, gatewayVars, outcomes>>

\* One DELETE.
RemoveAllRead(u) ==
    /\ notification' = [n \in Notices |->
           IF BelongsTo(n, u) /\ notification[n].isRead THEN NULL ELSE notification[n]]
    /\ UNCHANGED <<prefVars, sent, sendTask, boxTask, gatewayVars, outcomes>>

BoxFails(s) ==
    /\ boxTask[s].at # "idle"
    /\ BoxBecomes(s, IdleBox)
    /\ UNCHANGED <<prefVars, notification, sent, sendTask, gatewayVars, outcomes>>

-----------------------------------------------------------------------------
(* NotificationGateway *)

\* handleConnection up to the verification of the token.
HandleConnection(k, u) ==
    /\ conn[k].life = "new"
    /\ conn' = [conn EXCEPT ![k] = [life |-> "open", handler |-> "verify", user |-> u]]
    /\ UNCHANGED userSockets

\* The rest of it, which does not ask whether the socket is still open.
Registered(k) ==
    /\ conn[k].handler = "verify"
    /\ conn' = [conn EXCEPT ![k].handler = "registered"]
    /\ userSockets' = [userSockets EXCEPT ![conn[k].user] = @ \cup {k}]

\* The token is refused: the gateway disconnects the socket.
Refused(k) ==
    /\ conn[k].handler = "verify"
    /\ conn' = [conn EXCEPT ![k].handler = "none", ![k].life = "closed"]
    /\ UNCHANGED userSockets

\* Mutated form: the user is forgotten with the first socket that closes.
HandleDisconnect_ForgetsUser(k) ==
    /\ conn[k].life = "open"
    /\ conn' = [conn EXCEPT ![k].life = "closed"]
    /\ userSockets' = IF conn[k].handler = "registered"
                      THEN [userSockets EXCEPT ![conn[k].user] = {}] ELSE userSockets

HandleDisconnect(k) ==
    /\ conn[k].life = "open"
    /\ conn' = [conn EXCEPT ![k].life = "closed"]
    /\ userSockets' = IF conn[k].handler = "registered"
                      THEN [userSockets EXCEPT ![conn[k].user] = @ \ {k}] ELSE userSockets

GatewayConnects == \E k \in Sockets, u \in Users : HandleConnection(k, u)

GatewayGoesOn == \E k \in Sockets : Registered(k) \/ Refused(k) \/ HandleDisconnect(k)

GatewayFrame ==
    UNCHANGED <<prefVars, notification, sent, sendTask, boxTask, outcomes>>

-----------------------------------------------------------------------------

\* The routes of notification.controller.ts.
NotificationController(s) ==
    \/ \E n \in Notices : MarkAsRead(s, n) \/ Remove(s, n)
    \/ \E u \in Users : MarkAllAsRead(u) \/ RemoveAllRead(u)

BoxGoesOn(s) ==
    \/ MarkSelect(s)
    \/ MarkWrite(s)
    \/ RemoveWrite(s)
    \/ BoxFails(s)

\* What a call of sendToUser does once it is begun and nothing fails.
SendGoesOn(s) ==
    /\ \/ GetActiveProviders(s)
       \/ \E p \in ProviderType : Check(s, p) \/ Deliver(s, p)
       \/ AllSettled(s)
    /\ UNCHANGED requests

PrefFrame == UNCHANGED <<notification, sent, sendTask, boxTask, gatewayVars, outcomes>>

\* What the calls in flight would still have sent, if the process stops.
InFlight ==
    UNION {{x \in Sendings : /\ x.notice = sendTask[s].notice
                             /\ \/ sendTask[s].at = "providers"
                                \/ sendTask[s].channel[x.provider] \in {"check", "address"}}
           : s \in SendSlots}

Crash ==
    /\ prefTask' = [s \in PrefSlots |-> IdlePref]
    /\ sendTask' = [s \in SendSlots |-> IdleSend]
    /\ boxTask' = [s \in BoxSlots |-> IdleBox]
    /\ conn' = [k \in Sockets |-> IF conn[k].life = "new" THEN conn[k]
                                  ELSE [life |-> "closed", handler |-> "none", user |-> NULL]]
    /\ userSockets' = [u \in Users |-> {}]
    /\ lost' = lost \cup InFlight
    /\ <<prefTask, sendTask, boxTask, conn>>' # <<prefTask, sendTask, boxTask, conn>>
    /\ UNCHANGED <<pref, notification, sent, delivered, requests>>

Init == PrefInit /\ NotificationInit

\* Users and the services that notify them call.
Calls ==
    /\ requests < MaxRequests
    /\ requests' = requests + 1
    /\ \/ \E s \in SendSlots, u \in Users, n \in Notices : SendToUser(s, u, n)
       \/ \E s \in BoxSlots : NotificationController(s)
       \/ GatewayConnects /\ GatewayFrame
       \/ (\E s \in PrefSlots : PreferencesController(s, Users)) /\ PrefFrame

\* What was begun goes on, or fails.
GoesOn ==
    /\ \/ \E s \in SendSlots : (\E p \in ProviderType : ProviderFails(s, p)) \/ SendFails(s)
       \/ \E s \in BoxSlots : BoxGoesOn(s)
       \/ GatewayGoesOn /\ GatewayFrame
       \/ (\E s \in PrefSlots : PrefGoesOn(s)) /\ PrefFrame
    /\ UNCHANGED requests

Next ==
    \/ Calls
    \/ \E s \in SendSlots : SendGoesOn(s)
    \/ GoesOn
    \/ Crash

Spec == Init /\ [][Next]_vars

\* The event loop runs every continuation whose answer has come.
FairSpec == Spec /\ \A s \in SendSlots : WF_vars(SendGoesOn(s))

-----------------------------------------------------------------------------

\* What the preferences show the user as on.
EnabledAndConfigured(u, p) == Enabled(u, p) /\ IsProviderConfigured(p, pref[u][p])

TypeOK ==
    /\ PrefTypeOK
    /\ notification \in [Notices -> Notifications \cup {NULL}]
    /\ sent \subseteq [notice : Notices, user : Users]
    /\ sendTask \in [SendSlots -> SendTasks]
    /\ boxTask \in [BoxSlots -> BoxTasks]
    /\ conn \in [Sockets -> Connections]
    /\ userSockets \in [Users -> SUBSET Sockets]
    /\ delivered \subseteq Sendings
    /\ lost \subseteq Sendings
    /\ requests \in 0..MaxRequests

\* A socket that is open and was accepted is in the gateway's map, whatever
\* other sockets its user opened and closed: isUserConnected never skips a
\* user who listens (notification.gateway.ts).  The converse does not hold: a
\* socket that closes while its token is verified stays in the map.
ListenersAreKnown ==
    \A k \in Sockets :
        conn[k].life = "open" /\ conn[k].handler = "registered" =>
            k \in userSockets[conn[k].user]

\* A step sends through a channel only while the user has it switched on,
\* although the list of channels was read earlier: every provider asks again.
\* Except e-mail, which looks the account up after it asked.
NeverThroughAChannelOff ==
    [][\A x \in delivered' \ delivered, y \in sent :
           x.provider # "EMAIL" /\ x.notice = y.notice => Enabled(y.user, x.provider)]_vars

\* What was read or removed never counts as unread again (countUnread),
\* although a removal that overtakes a markAsRead is undone by its save.
UnreadNeverReturns ==
    [][\A x \in sent : LET row == notification[x.notice] IN
           row = NULL \/ row.isRead =>
               notification'[x.notice] = NULL \/ notification'[x.notice].isRead]_vars

\* What was stored leaves by every channel that was on then and stays on,
\* connected sockets apart, unless that very sending failed: what another
\* channel does cannot stop it (sendToUser's catch inside the map).
EveryActiveChannelTried ==
    \A s \in SendSlots, n \in Notices, u \in Users, p \in ProviderType \ {"WEBSOCKET"} :
        /\ sendTask[s].at = "providers"
        /\ sendTask[s].notice = n
        /\ sendTask[s].user = u
        /\ EnabledAndConfigured(u, p)
        ~> \/ [notice |-> n, provider |-> p] \in delivered \cup lost
           \/ ~ EnabledAndConfigured(u, p)
=============================================================================
