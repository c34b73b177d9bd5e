-------------------------- MODULE UserPreferences --------------------------
(***************************************************************************)
(* The notification channels of each user (user-preferences.service.ts):   *)
(* one row of notification_provider_preferences for each provider, made    *)
(* either all four together with their defaults or singly, disabled, when  *)
(* a request names a provider that has no row yet.                         *)
(* One action between two awaits, as in IncidentLifecycle.                 *)
(***************************************************************************)
EXTENDS Naturals, TypeOrm, Null

CONSTANTS
    Users,
    PrefSlots,      \* preference handlers that may be in flight at once
    PrefWorkload,   \* the handlers each slot may run (environment)
    Named           \* the providers the requests name (environment)

ProviderType == {"EMAIL", "WEBSOCKET", "TELEGRAM", "WHATSAPP"}

PrefOps == {"list", "get", "status", "config", "remove"}

\* The fields of a provider's configuration that the code asks about.  No
\* request carries isVerified and no code sets it.
ConfigKeys == {"chatId", "phoneNumber", "isVerified"}

\* The fields a request to configure a provider may carry, of those the code
\* asks about for that provider.
UpdateProviderConfigDto(p) ==
    SUBSET (CASE p = "TELEGRAM" -> {"chatId"}
              [] p = "WHATSAPP" -> {"phoneNumber"}
              [] OTHER -> {})

\* A row; config is the set of the fields it has, none when it is null.
Preferences == [isEnabled : BOOLEAN, config : SUBSET ConfigKeys]

ASSUME PreferencesAssumption ==
    /\ PrefWorkload \in [PrefSlots -> SUBSET PrefOps]
    /\ Named \subseteq ProviderType
    /\ NULL \notin Preferences \cup Users \cup ProviderType

VARIABLES
    pref,     \* the table notification_provider_preferences
    prefTask  \* what each slot is doing

prefVars == <<pref, prefTask>>

\* A handler in flight: the user and provider, the request's isEnabled and
\* configuration, the entity it will save and the columns found changed.
PrefTasks ==
    [op : PrefOps \cup {"none"}, at : {"idle", "defaults", "create", "select", "write"},
     user : Users \cup {NULL}, provider : ProviderType \cup {NULL}, enable : BOOLEAN,
     keys : SUBSET ConfigKeys, entity : Preferences,
     cols : SUBSET {"isEnabled", "config"}]

Disabled == [isEnabled |-> FALSE, config |-> {}]

IdlePref ==
    [op |-> "none", at |-> "idle", user |-> NULL, provider |-> NULL, enable |-> FALSE,
     keys |-> {}, entity |-> Disabled, cols |-> {}]

NoPreferences == [p \in ProviderType |-> NULL]

PrefInit ==
    /\ pref = [u \in Users |-> NoPreferences]
    /\ prefTask = [s \in PrefSlots |-> IdlePref]

PrefBecomes(s, t) == prefTask' = [prefTask EXCEPT ![s] = t]

-----------------------------------------------------------------------------

DefaultProviders ==
    [p \in ProviderType |-> [Disabled EXCEPT !.isEnabled = p \in {"EMAIL", "WEBSOCKET"}]]

\* initializeDefaultProviders inserts the four rows in one transaction, which
\* the unique key refuses when the user has a row already.
InsertDefaults(u) ==
    /\ pref[u] = NoPreferences
    /\ pref' = [pref EXCEPT ![u] = DefaultProviders]

IsProviderConfigured(p, row) ==
    CASE p \in {"EMAIL", "WEBSOCKET"} -> TRUE
      [] p = "TELEGRAM" -> "chatId" \in row.config
      [] p = "WHATSAPP" -> {"phoneNumber", "isVerified"} \subseteq row.config

ValidateProviderConfig(p, keys) ==
    /\ p = "TELEGRAM" => "chatId" \in keys
    /\ p = "WHATSAPP" => "phoneNumber" \in keys

\* Mutated form: a provider is enabled whether or not it is configured.
MayEnable_Always(t, row) == TRUE

MayEnable(t, row) == t.enable => IsProviderConfigured(t.provider, row)

\* What a handler that has the preference goes on to do: save it changed, or
\* stop because it has nothing to save or the request is refused.
Proceed(s, t, row) ==
    PrefBecomes(s,
        CASE t.op = "status" /\ MayEnable(t, row) ->
                [t EXCEPT !.at = "select", !.entity = [row EXCEPT !.isEnabled = t.enable]]
          [] t.op = "config" /\ ValidateProviderConfig(t.provider, t.keys) ->
                [t EXCEPT !.at = "select", !.entity = [row EXCEPT !.config = @ \cup t.keys]]
          [] OTHER -> IdlePref)

-----------------------------------------------------------------------------

MayStart(s, op) == prefTask[s].at = "idle" /\ op \in PrefWorkload[s]

\* Nothing changes for a user who has any row.
GetNotificationProviders(s, u) ==
    /\ MayStart(s, "list")
    /\ pref[u] = NoPreferences
    /\ PrefBecomes(s, [IdlePref EXCEPT !.op = "list", !.at = "defaults", !.user = u])
    /\ UNCHANGED pref

ListDefaults(s) ==
    /\ prefTask[s].at = "defaults"
    /\ InsertDefaults(prefTask[s].user)
    /\ PrefBecomes(s, IdlePref)

\* findOrCreateProvider, for getProvider, updateProviderStatus and
\* updateProviderConfig.
FindOrCreateProvider(s, t) ==
    LET row == pref[t.user][t.provider] IN
    /\ MayStart(s, t.op)
    /\ IF row = NULL THEN PrefBecomes(s, [t EXCEPT !.at = "create"])
                     ELSE Proceed(s, t, row)
    /\ UNCHANGED pref

CreateProvider(s) ==
    LET t == prefTask[s] IN
    /\ t.at = "create"
    /\ pref[t.user][t.provider] = NULL
    /\ pref' = [pref EXCEPT ![t.user][t.provider] = Disabled]
    /\ Proceed(s, t, Disabled)

GetProvider(s, u, p) ==
    FindOrCreateProvider(s, [IdlePref EXCEPT !.op = "get", !.user = u, !.provider = p])

UpdateProviderStatus(s, u, p, enable) ==
    FindOrCreateProvider(s, [IdlePref EXCEPT !.op = "status", !.user = u, !.provider = p,
                                             !.enable = enable])

UpdateProviderConfig(s, u, p, keys) ==
    FindOrCreateProvider(s, [IdlePref EXCEPT !.op = "config", !.user = u, !.provider = p,
                                             !.keys = keys])

RemoveProvider(s, u, p) ==
    /\ MayStart(s, "remove")
    /\ pref[u][p] # NULL
    /\ PrefBecomes(s, [IdlePref EXCEPT !.op = "remove", !.at = "select", !.user = u,
                                       !.provider = p])
    /\ UNCHANGED pref

\* repository.save(preference)
PrefSelect(s) ==
    LET t == prefTask[s] IN
    /\ t.at = "select"
    /\ PrefBecomes(s, [t EXCEPT !.at = "write",
                                !.cols = Changed(t.entity, pref[t.user][t.provider])])
    /\ UNCHANGED pref

PrefWrite(s) ==
    LET t == prefTask[s] IN
    /\ t.at = "write"
    /\ pref' = [pref EXCEPT ![t.user][t.provider] = Written(@, t.entity, t.cols)]
    /\ PrefBecomes(s, IdlePref)

\* A statement fails, or the unique key refuses an insert.
PrefFails(s) ==
    /\ prefTask[s].at # "idle"
    /\ PrefBecomes(s, IdlePref)
    /\ UNCHANGED pref

-----------------------------------------------------------------------------

\* The routes of user-preferences.controller.ts; U are the users who may call.
PreferencesController(s, U) ==
    \E u \in U :
        \/ GetNotificationProviders(s, u)
        \/ \E p \in Named :
              \/ GetProvider(s, u, p)
              \/ \E enable \in BOOLEAN : UpdateProviderStatus(s, u, p, enable)
              \/ \E keys \in UpdateProviderConfigDto(p) : UpdateProviderConfig(s, u, p, keys)
              \/ RemoveProvider(s, u, p)

\* The rest of a handler.
PrefGoesOn(s) ==
    \/ ListDefaults(s)
    \/ CreateProvider(s)
    \/ PrefSelect(s)
    \/ PrefWrite(s)
    \/ PrefFails(s)

-----------------------------------------------------------------------------

PrefTypeOK ==
    /\ pref \in [Users -> [ProviderType -> Preferences \cup {NULL}]]
    /\ prefTask \in [PrefSlots -> PrefTasks]

\* A channel that is on has the configuration it needs, whatever order of
\* enabling, configuring and removing the user's requests come in
\* (updateProviderStatus, removeProvider).  Holds if those requests do not
\* overlap: an enabling that read the configuration just before it is cleared
\* writes isEnabled alone, and clearing it is what a removal does, or a save of
\* the row as it was before it was configured.
EnabledIsConfigured ==
    \A u \in Users, p \in ProviderType :
        pref[u][p] # NULL /\ pref[u][p].isEnabled => IsProviderConfigured(p, pref[u][p])
=============================================================================
