---------------------------- MODULE Registration ----------------------------
(***************************************************************************)
(* How enterprises and their people come into being and get a session      *)
(* (auth.service.ts, auth-validation.service.ts, enterprise.service.ts),   *)
(* beside the preferences each new account is given (UserPreferences).     *)
(*                                                                         *)
(* An account is written before its preferences and outside any            *)
(* transaction with them; an enterprise, its administrator and the         *)
(* administrator's role are one transaction.  enterprise.service saves an  *)
(* enterprise together with the list of users it loaded (TypeOrm), so an   *)
(* account made in between loses its enterprise.                           *)
(* Passwords, hashing and the signature of tokens are external.            *)
(***************************************************************************)
EXTENDS UserPreferences

CONSTANTS
    Enterprises,
    Subdomains,
    Emails,
    NewEmails,      \* those that register (a bound)
    AuthSlots,      \* registrations and enterprise edits in flight at once
    AuthWorkload,   \* the handlers each slot may run (environment)
    FirstEnterprises, FirstAccounts  \* the tables at the start

AuthOps == {"register", "google", "registerEnterprise", "edit"}

UserType == {"SUPER_ADMIN", "ENTERPRISE_ADMIN", "EMPLOYEE", "CLIENT"}

EnterpriseRows == [subdomain : Subdomains, isActive : BOOLEAN]

Accounts == [email : Emails, enterprise : Enterprises \cup {NULL}, userType : UserType]

ASSUME RegistrationAssumption ==
    /\ AuthWorkload \in [AuthSlots -> SUBSET AuthOps]
    /\ NewEmails \subseteq Emails
    /\ NULL \notin EnterpriseRows \cup Accounts \cup Enterprises \cup Subdomains \cup Emails
    /\ FirstEnterprises \in [Enterprises -> EnterpriseRows \cup {NULL}]
    /\ \A d, e \in Enterprises :
          /\ FirstEnterprises[d] # NULL
          /\ FirstEnterprises[e] # NULL
          /\ FirstEnterprises[d].subdomain = FirstEnterprises[e].subdomain
          => d = e
    /\ FirstAccounts \in [Users -> Accounts \cup {NULL}]
    /\ \A u \in Users :
          FirstAccounts[u] # NULL /\ FirstAccounts[u].enterprise # NULL =>
              FirstEnterprises[FirstAccounts[u].enterprise] # NULL
    \* A super admin is made by the seed, in no enterprise (users.service.ts:52
    \* refuses one in an enterprise, and no update sets the type).
    /\ \A u \in Users :
          FirstAccounts[u] # NULL /\ FirstAccounts[u].userType = "SUPER_ADMIN" =>
              FirstAccounts[u].enterprise = NULL

VARIABLES
    enterprise,  \* the table enterprises
    account,     \* the table users
    superAdmin,  \* who holds the "Super Admin" role of each enterprise
    authTask,    \* what each slot is doing
    tokens,      \* activation tokens that have not expired
    sessions     \* sessions given: the account, and the enterprise of the subdomain it
                 \* asked for (NULL: of none)

authVars == <<enterprise, account, superAdmin, authTask, tokens, sessions>>
regVars == <<prefVars, authVars>>

Tokens == [user : Users, subdomain : Subdomains]

Sessions == [user : Users, enterprise : Enterprises \cup {NULL}]

\* A handler in flight: the enterprise and e-mail address it is about, the
\* account made, and for an edit the entity with its users and what the save
\* found changed.
AuthTasks ==
    [op : AuthOps \cup {"none"},
     at : {"idle", "checkEmail", "save", "defaults", "transaction", "select", "write"},
     enterprise : Enterprises \cup {NULL}, email : Emails \cup {NULL},
     user : Users \cup {NULL}, entity : EnterpriseRows \cup {NULL}, loaded : SUBSET Users,
     cols : SUBSET {"subdomain", "isActive"}, cut : SUBSET Users]

IdleAuth ==
    [op |-> "none", at |-> "idle", enterprise |-> NULL, email |-> NULL, user |-> NULL,
     entity |-> NULL, loaded |-> {}, cols |-> {}, cut |-> {}]

AuthInit ==
    /\ enterprise = FirstEnterprises
    /\ account = FirstAccounts
    /\ superAdmin = [e \in Enterprises |-> NULL]
    /\ authTask = [s \in AuthSlots |-> IdleAuth]
    /\ tokens = {}
    /\ sessions = {}

AuthBecomes(s, t) == authTask' = [authTask EXCEPT ![s] = t]

StartAuth(s, t) ==
    /\ authTask[s].at = "idle"
    /\ t.op \in AuthWorkload[s]
    /\ AuthBecomes(s, t)
    /\ UNCHANGED <<prefVars, enterprise, account, superAdmin, tokens, sessions>>

\* A handler answers: it gives no session, or one.
Answer(s) == AuthBecomes(s, IdleAuth) /\ UNCHANGED sessions

GiveSession(u, e) == sessions' = sessions \cup {[user |-> u, enterprise |-> e]}

-----------------------------------------------------------------------------
(* AuthValidationService *)

\* validateAndGetEnterprise
Designates(subdomain, e) ==
    /\ enterprise[e] # NULL
    /\ enterprise[e].subdomain = subdomain
    /\ enterprise[e].isActive

\* The accounts of an e-mail address, of a set of enterprises.
AccountsWith(email, E) ==
    {u \in Users : account[u] # NULL /\ account[u].email = email /\ account[u].enterprise \in E}

\* Mutated form: that an account exists is enough.
BelongsToSubdomain_Any(u, subdomain) == account[u] # NULL

\* The account's enterprise is the one of the subdomain.
EnterpriseMatches(u, subdomain) ==
    /\ account[u].enterprise # NULL
    /\ enterprise[account[u].enterprise].subdomain = subdomain

\* validateUserBelongsToSubdomain: a super admin may come from any subdomain,
\* or from none (subdomain is NULL).
BelongsToSubdomain(u, subdomain) ==
    /\ account[u] # NULL
    /\ account[u].userType = "SUPER_ADMIN" \/ EnterpriseMatches(u, subdomain)

\* The enterprise a request's subdomain is the subdomain of, if there is one.
AskedFor(subdomain, e) ==
    IF e = NULL
    THEN ~ \E d \in Enterprises : enterprise[d] # NULL /\ enterprise[d].subdomain = subdomain
    ELSE enterprise[e] # NULL /\ enterprise[e].subdomain = subdomain

-----------------------------------------------------------------------------
(* Clients *)

Register(s, email, subdomain, e) ==
    /\ Designates(subdomain, e)
    /\ StartAuth(s, [IdleAuth EXCEPT !.op = "register", !.at = "checkEmail",
                                     !.enterprise = e, !.email = email])

\* The idToken is verified by Google, an external service.
GoogleLoginClient(s, email, subdomain, e) ==
    /\ Designates(subdomain, e)
    /\ StartAuth(s, [IdleAuth EXCEPT !.op = "google", !.at = "checkEmail",
                                     !.enterprise = e, !.email = email])

\* An unknown address goes on to be saved; register refuses a known one.
CheckEmail(s) ==
    LET t == authTask[s] IN
    /\ t.at = "checkEmail"
    /\ t.op \in {"register", "google"}
    /\ AccountsWith(t.email, {t.enterprise}) = {}
    /\ AuthBecomes(s, [t EXCEPT !.at = "save"])
    /\ UNCHANGED <<prefVars, enterprise, account, superAdmin, tokens, sessions>>

\* Google's login takes a known address as it is, if it is a client's.
FoundByGoogle(s, u) ==
    LET t == authTask[s] IN
    /\ t.at = "checkEmail"
    /\ t.op = "google"
    /\ u \in AccountsWith(t.email, {t.enterprise})
    /\ account[u].userType = "CLIENT"
    /\ AuthBecomes(s, IdleAuth)
    /\ GiveSession(u, t.enterprise)
    /\ UNCHANGED <<prefVars, enterprise, account, superAdmin, tokens>>

\* (enterpriseId, email) is unique.
SaveAccount(s, u) ==
    LET t == authTask[s] IN
    /\ t.at = "save"
    /\ account[u] = NULL
    /\ AccountsWith(t.email, {t.enterprise}) = {}
    /\ account' = [account EXCEPT ![u] = [email |-> t.email, enterprise |-> t.enterprise,
                                          userType |-> "CLIENT"]]
    /\ AuthBecomes(s, [t EXCEPT !.at = "defaults", !.user = u])
    /\ UNCHANGED <<prefVars, enterprise, superAdmin, tokens, sessions>>

\* initializeDefaultProviders; then the client gets a session and the
\* administrator of a new enterprise an activation token.
Defaults(s) ==
    LET t == authTask[s] IN
    /\ t.at = "defaults"
    /\ InsertDefaults(t.user)
    /\ IF t.op = "registerEnterprise"
       THEN /\ tokens' = tokens \cup {[user |-> t.user,
                                       subdomain |-> t.entity.subdomain]}
            /\ UNCHANGED sessions
       ELSE GiveSession(t.user, t.enterprise) /\ UNCHANGED tokens
    /\ AuthBecomes(s, IdleAuth)
    /\ UNCHANGED <<prefTask, enterprise, account, superAdmin>>

-----------------------------------------------------------------------------
(* Enterprises *)

SubdomainIsFree(subdomain) ==
    ~ \E e \in Enterprises : enterprise[e] # NULL /\ enterprise[e].subdomain = subdomain

RegisterEnterprise(s, subdomain, email) ==
    /\ SubdomainIsFree(subdomain)
    /\ StartAuth(s, [IdleAuth EXCEPT !.op = "registerEnterprise", !.at = "checkEmail",
           !.email = email, !.entity = [subdomain |-> subdomain, isActive |-> TRUE]])

\* validateEmailDoesNotExist: in no enterprise.
CheckAdminEmail(s) ==
    LET t == authTask[s] IN
    /\ t.at = "checkEmail"
    /\ t.op = "registerEnterprise"
    /\ AccountsWith(t.email, Enterprises \cup {NULL}) = {}
    /\ AuthBecomes(s, [t EXCEPT !.at = "transaction"])
    /\ UNCHANGED <<prefVars, enterprise, account, superAdmin, tokens, sessions>>

\* The enterprise's row, by itself.
NewEnterprise(s, e) ==
    LET t == authTask[s] IN
    /\ t.at = "transaction"
    /\ enterprise[e] = NULL
    /\ SubdomainIsFree(t.entity.subdomain)
    /\ enterprise' = [enterprise EXCEPT ![e] = t.entity]

\* The administrator, the role with every permission, and who holds it.
NewAdmin(s, e, u) ==
    LET t == authTask[s] IN
    /\ account[u] = NULL
    /\ account' = [account EXCEPT ![u] = [email |-> t.email, enterprise |-> e,
                                          userType |-> "ENTERPRISE_ADMIN"]]
    /\ superAdmin' = [superAdmin EXCEPT ![e] = u]
    /\ AuthBecomes(s, [t EXCEPT !.at = "defaults", !.enterprise = e, !.user = u])

\* Mutated form: the statements do not share a transaction and the last ones
\* may fail.
Transaction_Separate(s, e, u) ==
    /\ NewEnterprise(s, e)
    /\ NewAdmin(s, e, u) \/ (AuthBecomes(s, IdleAuth) /\ UNCHANGED <<account, superAdmin>>)
    /\ UNCHANGED <<prefVars, tokens, sessions>>

\* The commit of registerEnterprise's transaction.
Transaction(s, e, u) ==
    /\ NewEnterprise(s, e)
    /\ NewAdmin(s, e, u)
    /\ UNCHANGED <<prefVars, tokens, sessions>>

\* Mutated form: only the clients are loaded with the enterprise.
UsersOf_Clients(e) ==
    {u \in Users : account[u] # NULL /\ account[u].enterprise = e
                   /\ account[u].userType = "CLIENT"}

UsersOf(e) == {u \in Users : account[u] # NULL /\ account[u].enterprise = e}

\* update (of the subdomain) and remove: findOne loads the enterprise with its
\* users, and the whole is saved.
EditEnterprise(s, e, row) ==
    /\ enterprise[e] # NULL
    /\ row.subdomain # enterprise[e].subdomain => SubdomainIsFree(row.subdomain)
    /\ StartAuth(s, [IdleAuth EXCEPT !.op = "edit", !.at = "select", !.enterprise = e,
                                     !.entity = row, !.loaded = UsersOf(e)])

EditSelect(s) ==
    LET t == authTask[s] IN
    /\ t.at = "select"
    /\ AuthBecomes(s, [t EXCEPT !.at = "write",
           !.cols = Changed(t.entity, enterprise[t.enterprise]),
           !.cut = CutOff(t.loaded, {u \in Users : account[u] # NULL
                                         /\ account[u].enterprise = t.enterprise})])
    /\ UNCHANGED <<prefVars, enterprise, account, superAdmin, tokens, sessions>>

\* users.enterpriseId may be null: who was not in the loaded list is cut off.
EditWrite(s) ==
    LET t == authTask[s]
        row == Written(enterprise[t.enterprise], t.entity, t.cols) IN
    /\ t.at = "write"
    /\ row.subdomain # enterprise[t.enterprise].subdomain => SubdomainIsFree(row.subdomain)
    /\ enterprise' = [enterprise EXCEPT ![t.enterprise] = row]
    /\ account' = [u \in Users |->
           IF u \in t.cut THEN [account[u] EXCEPT !.enterprise = NULL] ELSE account[u]]
    /\ Answer(s)
    /\ UNCHANGED <<prefVars, superAdmin, tokens>>

-----------------------------------------------------------------------------
(* Sessions *)

\* A token may be used as often as it is sent until it expires, from the
\* subdomain it was made for; a super admin is no exception here.
ActivateAccount(token, e) ==
    /\ token \in tokens
    /\ account[token.user] # NULL
    /\ EnterpriseMatches(token.user, token.subdomain)
    /\ AskedFor(token.subdomain, e)
    /\ GiveSession(token.user, e)
    /\ UNCHANGED <<prefVars, enterprise, account, superAdmin, authTask, tokens>>

\* The account is looked up by its e-mail address alone: of two accounts with
\* one address, in two enterprises, the database returns either.  Whether the
\* enterprise is active is not asked.
Login(email, subdomain, u, e) ==
    /\ u \in AccountsWith(email, Enterprises \cup {NULL})
    /\ BelongsToSubdomain(u, subdomain)
    /\ AskedFor(subdomain, e)
    /\ GiveSession(u, e)
    /\ UNCHANGED <<prefVars, enterprise, account, superAdmin, authTask, tokens>>

Expire(token) ==
    /\ token \in tokens
    /\ tokens' = tokens \ {token}
    /\ UNCHANGED <<prefVars, enterprise, account, superAdmin, authTask, sessions>>

\* A refused request, a failing statement, a rolled back transaction.  An
\* account whose defaults fail stays, and the caller is told it does not.
AuthFails(s) ==
    /\ authTask[s].at # "idle"
    /\ Answer(s)
    /\ UNCHANGED <<prefVars, enterprise, account, superAdmin, tokens>>

-----------------------------------------------------------------------------

\* The routes of auth.controller.ts and of enterprise.controller.ts.
AuthController(s) ==
    \/ \E email \in NewEmails, subdomain \in Subdomains, e \in Enterprises :
          Register(s, email, subdomain, e) \/ GoogleLoginClient(s, email, subdomain, e)
    \/ \E email \in NewEmails, subdomain \in Subdomains :
          RegisterEnterprise(s, subdomain, email)
    \/ \E e \in Enterprises, row \in EnterpriseRows : EditEnterprise(s, e, row)

AuthStep(s) ==
    \/ AuthController(s)
    \/ CheckEmail(s)
    \/ \E u \in Users : FoundByGoogle(s, u) \/ SaveAccount(s, u)
    \/ Defaults(s)
    \/ CheckAdminEmail(s)
    \/ \E e \in Enterprises, u \in Users : Transaction(s, e, u)
    \/ EditSelect(s)
    \/ EditWrite(s)
    \/ AuthFails(s)

SessionStep ==
    \/ \E token \in Tokens, e \in Enterprises \cup {NULL} : ActivateAccount(token, e)
    \/ \E email \in Emails, subdomain \in Subdomains \cup {NULL}, u \in Users,
          e \in Enterprises \cup {NULL} : Login(email, subdomain, u, e)
    \/ \E token \in Tokens : Expire(token)

RegCrash ==
    /\ prefTask' = [s \in PrefSlots |-> IdlePref]
    /\ authTask' = [s \in AuthSlots |-> IdleAuth]
    /\ <<prefTask, authTask>>' # <<prefTask, authTask>>
    /\ UNCHANGED <<pref, enterprise, account, superAdmin, tokens, sessions>>

RegInit == PrefInit /\ AuthInit

RegNext ==
    \/ \E s \in AuthSlots : AuthStep(s)
    \/ SessionStep
    \/ /\ \E s \in PrefSlots :
             PreferencesController(s, {u \in Users : account[u] # NULL}) \/ PrefGoesOn(s)
       /\ UNCHANGED authVars
    \/ RegCrash

RegSpec == RegInit /\ [][RegNext]_regVars

-----------------------------------------------------------------------------

RegTypeOK ==
    /\ PrefTypeOK
    /\ enterprise \in [Enterprises -> EnterpriseRows \cup {NULL}]
    /\ account \in [Users -> Accounts \cup {NULL}]
    /\ superAdmin \in [Enterprises -> Users \cup {NULL}]
    /\ authTask \in [AuthSlots -> AuthTasks]
    /\ tokens \subseteq Tokens
    /\ sessions \subseteq Sessions

SuperAdmins ==
    {u \in Users : FirstAccounts[u] # NULL /\ FirstAccounts[u].userType = "SUPER_ADMIN"}

\* Whoever has a session for an enterprise's subdomain, by registering, by
\* Google, by activating or by logging in, is and stays an account of that
\* enterprise, although subdomains are changed and given to others; nobody has
\* a session for no enterprise.  The only exception is a super admin that the
\* seed made: any subdomain or none will do, and such an account stays without
\* an enterprise.  Holds if no edit of an enterprise overlaps the making of an
\* account in it.
SessionsApart ==
    \A x \in sessions :
        /\ account[x.user] # NULL
        /\ \/ x.enterprise # NULL /\ account[x.user].enterprise = x.enterprise
           \/ x.user \in SuperAdmins /\ account[x.user].enterprise = NULL

\* An enterprise that registered has its administrator, who is still one of
\* its accounts and holds its first role, whatever failed on the way
\* (registerEnterprise); the same condition on edits.
EnterpriseHasAdmin ==
    \A e \in Enterprises :
        enterprise[e] # NULL /\ FirstEnterprises[e] = NULL =>
            /\ superAdmin[e] # NULL
            /\ account[superAdmin[e]] # NULL
            /\ account[superAdmin[e]].enterprise = e
            /\ account[superAdmin[e]].userType = "ENTERPRISE_ADMIN"
=============================================================================
