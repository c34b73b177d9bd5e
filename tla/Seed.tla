-------------------------------- MODULE Seed --------------------------------
(***************************************************************************)
(* The seed of the database (npm run seed; seed/seed.service.ts): it       *)
(* deletes what is there, table by table, and saves its own data, row by   *)
(* row, with no transaction around any of it.  It may stop anywhere, and   *)
(* is then started again on whatever it left.                              *)
(*                                                                         *)
(* A row is a tuple: its table and what identifies it.  Incidents carry    *)
(* the user who created them, 0 if nobody did.                             *)
(***************************************************************************)
EXTENDS Integers, Sequences, SequencesExt, FiniteSetsExt, FiniteSets, Null

CONSTANTS
    Serving,   \* whether the application is used while the seed runs (environment)
    MaxSeeds,  \* bound: how often the seed is started
    MaxEvents  \* bound: rows the application adds, and channels that fail

ASSUME SeedAssumption ==
    /\ Serving \in BOOLEAN
    /\ MaxSeeds \in Nat
    /\ MaxEvents \in Nat

(* seed/data, with fewer rows of each kind *)

PERMISSIONS_DATA ==
    << [name |-> "editIncidents", parent |-> "manageIncidents"],
       [name |-> "readDashboard", parent |-> NULL],
       [name |-> "manageIncidents", parent |-> NULL] >>

\* NULL, which stands for no parent, is the name of no permission.
ASSUME PermissionsAssumption ==
    \A i \in DOMAIN PERMISSIONS_DATA : PERMISSIONS_DATA[i].name # NULL

ENTERPRISES_DATA == <<"techcorp", "globalservices">>

\* Its permissions; none stands for all.
ROLES_DATA == << {}, {"editIncidents", "readDashboard"} >>

\* The role of each user of an enterprise.
USERS_DATA == <<1, 2>>

\* The enterprise of each client.
CUSTOM_CLIENTS_DATA == <<"techcorp">>

ProviderType == <<"EMAIL", "WEBSOCKET", "TELEGRAM", "WHATSAPP">>

\* How many incidents: of the first enterprise, of the second, ...
INCIDENCIAS_CONFIG_BY_ENTERPRISE == <<2, 1>>

\* The client of each.
CUSTOM_INCIDENCIAS_DATA == <<1>>

\* How many; each belongs to the enterprise at its place.
ENTERPRISE_CONFIGS_DATA == 2

\* The place of the enterprise of each.
ENTERPRISE_DOCUMENTS_DATA == <<1, 1, 2>>

VARIABLES
    db,           \* the rows of all tables
    at,           \* where the seed is
    rest,         \* the rows it has yet to save in this stage
    permissions,  \* the permissions it has in memory, by name
    ended,        \* how the last seed ended
    seeds, events \* seeds started; rows the application added, channels that failed

seedVars == <<db, at, rest, permissions, ended, seeds, events>>

-----------------------------------------------------------------------------
(* The tables and their foreign keys *)

SUPER_ADMIN == <<"users", NULL, 0>>

Table(r) == r[1]

InTable(t) == {r \in db : Table(r) = t}

\* The rows that r refers to and goes with (onDelete: 'CASCADE').
Owners(r) ==
    CASE Table(r) = "role_permission" -> {<<"roles", r[2], r[3]>>, <<"permissions", r[4]>>}
      [] Table(r) = "user_roles" ->
            {<<"users", r[2], r[3]>>, <<"roles", r[2], r[4]>>, <<"enterprises", r[2]>>}
      [] Table(r) \in {"notification_provider_preferences", "chatbot_conversations"} ->
            {<<"users", r[2], r[3]>>}
      [] Table(r) = "notifications" -> {<<"users", r[2], r[3]>>, <<"enterprises", r[2]>>}
      [] Table(r) \in {"incidencias", "enterprise_config", "enterprise_documents"} ->
            {<<"enterprises", r[2]>>}
      [] Table(r) = "messages" -> {<<"incidencias", r[2], r[3], r[4]>>}
      [] OTHER -> {}

\* The rows that r refers to and that cannot be deleted before it.
Needed(r) ==
    CASE Table(r) = "roles" -> {<<"enterprises", r[2]>>}
      [] Table(r) = "users" -> IF r = SUPER_ADMIN THEN {} ELSE {<<"enterprises", r[2]>>}
      [] Table(r) = "incidencias" -> IF r[3] = 0 THEN {} ELSE {<<"users", r[2], r[3]>>}
      [] Table(r) = "messages" -> {<<"users", r[2], r[5]>>}
      [] OTHER -> {}

\* D and the rows that go with it.
WithOwned(D) == D \cup {r \in db : Owners(r) \cap D # {}}

\* Mutated form: with no condition on the users.
Deleted_Everyone(t) == WithOwned(WithOwned(InTable(t)))

\* What DELETE FROM t takes away; no row is owned by way of more than two.
Deleted(t) == WithOwned(WithOwned(InTable(t) \ {SUPER_ADMIN}))

\* A row that stays needs one of them.
Refused(t) == LET D == Deleted(t) IN \E r \in db \ D : Needed(r) \cap D # {}

-----------------------------------------------------------------------------

\* Mutated form: roles after the enterprises they belong to.
CleanDatabase_RolesLast ==
    <<"enterprise_documents", "enterprise_config", "incidencias",
      "notification_provider_preferences", "user_roles", "users", "role_permission",
      "permissions", "enterprises", "roles">>

\* Mutated form: permissions are the same for all and stay.
CleanDatabase_KeepsPermissions ==
    <<"enterprise_documents", "enterprise_config", "incidencias",
      "notification_provider_preferences", "user_roles", "users", "role_permission",
      "roles", "enterprises">>

\* The tables cleanDatabase empties, in this order.
CleanDatabase ==
    <<"enterprise_documents", "enterprise_config", "incidencias",
      "notification_provider_preferences", "user_roles", "users", "role_permission",
      "roles", "permissions", "enterprises">>

Stages ==
    <<"permissions", "superAdmin">>
    \o FlattenSeq([i \in DOMAIN ENTERPRISES_DATA |-> <<"enterprise", "roles", "users">>])
    \o <<"clients", "incidencias", "configs", "documents">>

\* The enterprise the stage at place i is about.
EnterpriseAt(i) == ENTERPRISES_DATA[(i - 3) \div 3 + 1]

-----------------------------------------------------------------------------
(* The rows each stage saves, in order, as far as is known when it begins *)

\* The elements of s that pass the test, in their order (filter).  This is
\* SelectSeq, which is recursive and of which the prover knows nothing.
Those(s, Test(_)) ==
    FlattenSeq([i \in DOMAIN s |-> IF Test(s[i]) THEN <<s[i]>> ELSE <<>>])

\* Parents first; if there is any permission none is made.
SeedPermissions ==
    IF InTable("permissions") # {} THEN <<>>
    ELSE LET Named(p) == <<"permissions", p.name>>
             Parents == Those(PERMISSIONS_DATA, LAMBDA p : p.parent = NULL)
             Children == Those(PERMISSIONS_DATA, LAMBDA p : p.parent # NULL)
         IN  [i \in DOMAIN (Parents \o Children) |-> Named((Parents \o Children)[i])]

SeedSuperAdmin == IF SUPER_ADMIN \in db THEN <<>> ELSE <<SUPER_ADMIN>>

SeedRolesForEnterprise(e) ==
    FlattenSeq([n \in DOMAIN ROLES_DATA |->
        LET granted == IF ROLES_DATA[n] = {} THEN permissions
                                             ELSE ROLES_DATA[n] \cap permissions
        IN  << <<"roles", e, n>> >>
            \o SetToSeq({<<"role_permission", e, n, p>> : p \in granted})])

InitializeDefaultNotificationProviders(e, u) ==
    [i \in DOMAIN ProviderType |->
        <<"notification_provider_preferences", e, u, ProviderType[i]>>]

\* Users are given roles by place: with another number of roles there are none.
SeedUsersForEnterprise(e) ==
    IF Cardinality({r \in InTable("roles") : r[2] = e}) # Len(USERS_DATA) THEN <<>>
    ELSE FlattenSeq([u \in DOMAIN USERS_DATA |->
             << <<"users", e, u>>, <<"user_roles", e, u, USERS_DATA[u]>> >>
             \o InitializeDefaultNotificationProviders(e, u)])

ClientUser(c) == Len(USERS_DATA) + c

SeedCustomClients ==
    FlattenSeq([c \in DOMAIN CUSTOM_CLIENTS_DATA |->
        LET e == CUSTOM_CLIENTS_DATA[c] IN
        << <<"users", e, ClientUser(c)>> >>
        \o InitializeDefaultNotificationProviders(e, ClientUser(c))])

\* The enterprises in the order of their creation.
ByCreation ==
    Those(ENTERPRISES_DATA \o <<"other">>, LAMBDA e : <<"enterprises", e>> \in db)

\* The last configuration serves for all further enterprises.
SeedIncidencias ==
    LET Counts == INCIDENCIAS_CONFIG_BY_ENTERPRISE
        Generated(i) ==
            [k \in 1..Counts[Min({i, Len(Counts)})] |-> <<"incidencias", ByCreation[i], 0, k>>]
        Custom(k) ==
            LET c == CUSTOM_INCIDENCIAS_DATA[k]
            IN  <<"incidencias", CUSTOM_CLIENTS_DATA[c], ClientUser(c), k>>
    IN  IF ByCreation = <<>> THEN <<>>
        ELSE FlattenSeq([i \in DOMAIN ByCreation |-> Generated(i)])
             \o [k \in DOMAIN CUSTOM_INCIDENCIAS_DATA |-> Custom(k)]

\* The enterprises in some order: the query asks for none.
InAnyOrder == SetToSeqs({r[2] : r \in InTable("enterprises")})

SeedEnterpriseConfigs(order) ==
    [c \in 1..Min({ENTERPRISE_CONFIGS_DATA, Len(order)}) |-> <<"enterprise_config", order[c], c>>]

SeedEnterpriseDocuments(order) ==
    LET Found == Those([d \in DOMAIN ENTERPRISE_DOCUMENTS_DATA |-> d],
                       LAMBDA d : ENTERPRISE_DOCUMENTS_DATA[d] \in DOMAIN order)
    IN  [i \in DOMAIN Found |->
            <<"enterprise_documents", order[ENTERPRISE_DOCUMENTS_DATA[Found[i]]], Found[i]>>]

-----------------------------------------------------------------------------

Idle == [phase |-> "idle", i |-> 0]

SeedInit ==
    /\ db = {}
    /\ at = Idle
    /\ rest = <<>>
    /\ permissions = {}
    /\ ended = "never"
    /\ seeds = 0
    /\ events = 0

RunAllSeeds ==
    /\ at = Idle
    /\ seeds < MaxSeeds
    /\ seeds' = seeds + 1
    /\ at' = [phase |-> "clean", i |-> 1]
    /\ ended' = "not yet"
    /\ UNCHANGED <<db, rest, permissions, events>>

\* One DELETE.
CleanTable ==
    /\ at.phase = "clean"
    /\ ~ Refused(CleanDatabase[at.i])
    /\ db' = db \ Deleted(CleanDatabase[at.i])
    /\ at' = IF at.i < Len(CleanDatabase) THEN [at EXCEPT !.i = @ + 1]
                                          ELSE [phase |-> "read", i |-> 1]
    /\ UNCHANGED <<rest, permissions, ended, seeds, events>>

\* What stage i is to save.
ToSave(i) ==
    CASE Stages[i] = "permissions" -> {SeedPermissions}
      [] Stages[i] = "superAdmin" -> {SeedSuperAdmin}
      [] Stages[i] = "enterprise" -> {<< <<"enterprises", EnterpriseAt(i)>> >>}
      [] Stages[i] = "roles" -> {SeedRolesForEnterprise(EnterpriseAt(i))}
      [] Stages[i] = "users" -> {SeedUsersForEnterprise(EnterpriseAt(i))}
      [] Stages[i] = "clients" -> {SeedCustomClients}
      [] Stages[i] = "incidencias" -> {SeedIncidencias}
      [] Stages[i] = "configs" -> {SeedEnterpriseConfigs(o) : o \in InAnyOrder}
      [] Stages[i] = "documents" -> {SeedEnterpriseDocuments(o) : o \in InAnyOrder}

\* If there is an enterprise already, none is made, nor roles and users.
SeedEnterprises(i) == i = 3 => InTable("enterprises") = {}

ReadStage ==
    /\ at.phase = "read"
    /\ IF SeedEnterprises(at.i)
       THEN /\ rest' \in ToSave(at.i)
            /\ at' = [at EXCEPT !.phase = "save"]
       ELSE /\ at' = [at EXCEPT !.i = 3 + 3 * Len(ENTERPRISES_DATA)]
            /\ UNCHANGED rest
    /\ permissions' = IF Stages[at.i] = "permissions"
                      THEN {r[2] : r \in InTable("permissions")} ELSE permissions
    /\ UNCHANGED <<db, ended, seeds, events>>

\* A permission whose parent was not made, a client whose enterprise is not
\* there and an incident whose client is not there are passed over.
PassedOver(r) ==
    \/ /\ Table(r) = "permissions"
       /\ \E i \in DOMAIN PERMISSIONS_DATA :
             LET p == PERMISSIONS_DATA[i] IN
             p.name = r[2] /\ p.parent # NULL /\ p.parent \notin permissions
    \/ Stages[at.i] = "clients" /\ <<"enterprises", r[2]>> \notin db
    \/ Table(r) = "incidencias" /\ r[3] # 0 /\ <<"users", r[2], r[3]>> \notin db

\* Tables in which what a row stands for is unique.
UniqueTables ==
    {"permissions", "enterprises", "roles", "users", "user_roles",
     "notification_provider_preferences", "enterprise_config"}

MayBeSaved(r) ==
    /\ Table(r) \in UniqueTables => r \notin db
    /\ Owners(r) \cup Needed(r) \subseteq db

SaveRow ==
    /\ at.phase = "save"
    /\ rest # <<>>
    /\ LET r == Head(rest) IN
       /\ IF PassedOver(r) THEN UNCHANGED <<db, permissions>>
          ELSE /\ MayBeSaved(r)
               /\ db' = db \cup {r}
               /\ permissions' = IF Table(r) = "permissions" THEN permissions \cup {r[2]}
                                                             ELSE permissions
       /\ rest' = Tail(rest)
    /\ UNCHANGED <<at, ended, seeds, events>>

NextStage ==
    /\ at.phase = "save"
    /\ rest = <<>>
    /\ IF at.i < Len(Stages)
       THEN at' = [phase |-> "read", i |-> at.i + 1] /\ UNCHANGED ended
       ELSE at' = Idle /\ ended' = "completed"
    /\ UNCHANGED <<db, rest, permissions, seeds, events>>

\* A channel that cannot be saved is logged; the user's others, which are those
\* that come next, are given up.
PreferenceFails ==
    /\ at.phase = "save"
    /\ rest # <<>>
    /\ Table(Head(rest)) = "notification_provider_preferences"
    /\ events < MaxEvents
    /\ events' = events + 1
    /\ LET OfUser(r) == Table(r) = Table(Head(rest)) /\ r[2] = Head(rest)[2] /\ r[3] = Head(rest)[3]
       IN  \E k \in DOMAIN rest :
              /\ \A j \in DOMAIN rest : OfUser(rest[j]) <=> j <= k
              /\ rest' = SubSeq(rest, k + 1, Len(rest))
    /\ UNCHANGED <<db, at, permissions, ended, seeds>>

\* A query fails, or the process dies: what was done stays.
SeedFails ==
    /\ at # Idle
    /\ at' = Idle
    /\ rest' = <<>>
    /\ permissions' = {}
    /\ ended' = "failed"
    /\ UNCHANGED <<db, seeds, events>>

\* Rows that go with the super admin.
OfSuperAdmin ==
    {<<"chatbot_conversations", NULL, 0>>,
     <<"notification_provider_preferences", NULL, 0, "EMAIL">>}

\* Rows the application may add.
Useable ==
    {<<"enterprises", "other">>, <<"users", "other", 9>>, <<"incidencias", "other", 9, 9>>,
     <<"roles", "techcorp", 3>>, <<"role_permission", "techcorp", 2, "manageIncidents">>,
     <<"user_roles", "techcorp", 1, 2>>, <<"incidencias", "techcorp", 1, 9>>,
     <<"messages", "techcorp", 0, 1, 1>>, <<"messages", "techcorp", 1, 9, 2>>,
     <<"notifications", "techcorp", 1>>, <<"chatbot_conversations", "techcorp", 1>>,
     <<"enterprise_documents", "techcorp", 9>>} \cup OfSuperAdmin

\* The application is used.
Use ==
    /\ at = Idle \/ Serving
    /\ events < MaxEvents
    /\ events' = events + 1
    /\ \E r \in Useable :
          /\ r \notin db
          /\ Owners(r) \cup Needed(r) \subseteq db
          /\ db' = db \cup {r}
    /\ ended' = IF at = Idle THEN "used" ELSE ended
    /\ UNCHANGED <<at, rest, permissions, seeds>>

SeedNext ==
    \/ RunAllSeeds
    \/ CleanTable
    \/ ReadStage
    \/ SaveRow
    \/ NextStage
    \/ PreferenceFails
    \/ SeedFails
    \/ Use

SeedSpec == SeedInit /\ [][SeedNext]_seedVars

-----------------------------------------------------------------------------

\* The data of the seed; what it has of channels may be less.
SeedData ==
    LET Names == {PERMISSIONS_DATA[i].name : i \in DOMAIN PERMISSIONS_DATA}
        E == ToSet(ENTERPRISES_DATA)
        Employees == {<<"users", e, u>> : e \in E, u \in DOMAIN USERS_DATA}
        Clients == {<<"users", CUSTOM_CLIENTS_DATA[c], ClientUser(c)>> :
                       c \in DOMAIN CUSTOM_CLIENTS_DATA}
    IN  {<<"permissions", p>> : p \in Names} \cup {<<"enterprises", e>> : e \in E}
        \cup {<<"roles", e, n>> : e \in E, n \in DOMAIN ROLES_DATA}
        \cup {r \in {<<"role_permission", e, n, p>> :
                       e \in E, n \in DOMAIN ROLES_DATA, p \in Names} :
                 ROLES_DATA[r[3]] = {} \/ r[4] \in ROLES_DATA[r[3]]}
        \cup {SUPER_ADMIN} \cup Employees \cup Clients
        \cup {<<"user_roles", e, u, USERS_DATA[u]>> : e \in E, u \in DOMAIN USERS_DATA}
        \cup (UNION {{<<"incidencias", ENTERPRISES_DATA[i], 0, k>> :
                         k \in 1..INCIDENCIAS_CONFIG_BY_ENTERPRISE[i]} :
                      i \in DOMAIN ENTERPRISES_DATA})
        \cup {<<"incidencias", "techcorp", ClientUser(CUSTOM_INCIDENCIAS_DATA[k]), k>> :
                        k \in DOMAIN CUSTOM_INCIDENCIAS_DATA}

Elsewhere == {"notification_provider_preferences", "enterprise_config", "enterprise_documents"}

\* A seed that says it has completed has left all its data, every role with its
\* permissions and every user with the role meant for it, and nothing else but
\* what is the super admin's, whatever seeds that stopped anywhere and whatever
\* use of the application there were before (runAllSeeds).  The application is
\* not used meanwhile.
CompletedIsWhole ==
    ended = "completed" =>
        /\ {r \in db : Table(r) \notin Elsewhere} \ OfSuperAdmin = SeedData
        /\ {r[3] : r \in InTable("enterprise_config")} = 1..ENTERPRISE_CONFIGS_DATA
        /\ Cardinality(InTable("enterprise_config")) = ENTERPRISE_CONFIGS_DATA
        /\ {r[3] : r \in InTable("enterprise_documents")} = DOMAIN ENTERPRISE_DOCUMENTS_DATA
        /\ \A r1, r2 \in InTable("enterprise_documents") :
              (r1[2] = r2[2]) <=>
                  (ENTERPRISE_DOCUMENTS_DATA[r1[3]] = ENTERPRISE_DOCUMENTS_DATA[r2[3]])

\* The tables are emptied in an order that respects the foreign keys
\* (seed.service.ts:95): no DELETE is refused because of a row that stays,
\* whatever the application and earlier seeds left there.
CleaningIsNeverRefused == at.phase = "clean" => ~ Refused(CleanDatabase[at.i])

\* The super admin, once made, is not deleted by any seed, nor are the
\* conversations with the chatbot that go with that user (cleanDatabase).
SuperAdminStays ==
    [][\A r \in {SUPER_ADMIN, <<"chatbot_conversations", NULL, 0>>} : r \in db => r \in (db')]_db
=============================================================================
