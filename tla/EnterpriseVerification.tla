----------------------- MODULE EnterpriseVerification -----------------------
(***************************************************************************)
(* How an enterprise proves who it is: one-time codes that verify the      *)
(* e-mail address of its administrators, the documents it uploads and the  *)
(* decision of a super admin (enterprise-config.service.ts,                *)
(* enterprise-document.service.ts).                                        *)
(*                                                                         *)
(* There is one code per enterprise, in redis, whoever asked for it.  The  *)
(* configuration is created by the first handler that finds none.  Saving  *)
(* an entity does not write the fields that are undefined, so what a       *)
(* decision clears stays in the row.                                       *)
(* The files in the object store, the look of the enterprise and all of a  *)
(* user but isEmailVerified are left out.                                  *)
(***************************************************************************)
EXTENDS Naturals, Sequences, TypeOrm, Null

CONSTANTS
    Enterprises,
    Emails,
    Users,           \* administrators, each of one enterprise with one address
    EnterpriseOf, EmailOf,
    Codes,           \* the six digits
    SuperAdmins,
    Looks,           \* values of the columns that only edits write
    ConfigSlots,     \* handlers that may be in flight at once
    ConfigWorkload,  \* the handlers each slot may run (environment)
    MaxDocuments,    \* documents that may be inserted (bound)
    MaxRequests,     \* requests that may be started (bound)
    UNDEFINED  \* a field without value

ConfigOps == {"send", "verify", "decide", "edit", "upload", "delete"}

VerificationStatus == {"pending", "in_progress", "verified", "rejected"}

\* The files of one upload, in the order in which they are recorded.
DocumentTypes == <<"tax_id", "chamber_commerce", "legal_rep_id">>

Columns == {"isVerified", "verificationStatus", "rejectionReason", "verifiedBy", "look"}

\* A configuration; verificationDate is set and kept together with verifiedBy.
Configs ==
    [isVerified : BOOLEAN, verificationStatus : VerificationStatus,
     rejectionReason : {"reason", NULL}, verifiedBy : SuperAdmins \cup {NULL},
     look : Looks \cup {NULL}]

DefaultConfig ==
    [isVerified |-> FALSE, verificationStatus |-> "pending", rejectionReason |-> NULL,
     verifiedBy |-> NULL, look |-> NULL]

Documents ==
    [enterprise : Enterprises, type : {DocumentTypes[i] : i \in 1..3},
     version : Nat, isActive : BOOLEAN]

\* A code in redis.
StoredCodes == [email : Emails, code : Codes]

ASSUME VerificationAssumption ==
    /\ EnterpriseOf \in [Users -> Enterprises]
    /\ EmailOf \in [Users -> Emails]
    /\ \A u, v \in Users : EnterpriseOf[u] = EnterpriseOf[v] /\ EmailOf[u] = EmailOf[v] => u = v
    /\ ConfigWorkload \in [ConfigSlots -> SUBSET ConfigOps]
    /\ MaxDocuments \in Nat /\ MaxRequests \in Nat
    /\ NULL \notin Configs \cup StoredCodes \cup Users \cup Enterprises
                \cup Emails \cup Codes \cup SuperAdmins
    /\ UNDEFINED \notin BOOLEAN
    /\ UNDEFINED \notin VerificationStatus \cup {"reason", NULL} \cup SuperAdmins

VARIABLES
    config,    \* the table enterprise_config
    stored,    \* redis, key email_verification:<enterprise>
    verified,  \* isEmailVerified of each user
    document,  \* the table enterprise_documents, in the order of insertion
    requests,  \* requests started so far
    task,      \* what each slot is doing
    issued,    \* history: the codes made for each user, and
    entered    \* history: those the users sent back

vars == <<config, stored, verified, document, requests, task, issued, entered>>

\* The fields a decision assigns.
Decisions ==
    [verificationStatus : VerificationStatus, isVerified : BOOLEAN \cup {UNDEFINED},
     rejectionReason : {"reason", NULL, UNDEFINED},
     verifiedBy : SuperAdmins \cup {UNDEFINED}]

\* A handler in flight: who called it for which enterprise, the code of the
\* request, the fields the request assigns, the entity with the columns that
\* the save found changed, the file of the upload that is next and its
\* version, or the document to delete.
Tasks ==
    [op : ConfigOps \cup {"none"},
     at : {"idle", "set", "get", "del", "user", "config", "create", "assign",
           "select", "write", "find", "insert", "delete"},
     enterprise : Enterprises \cup {NULL}, user : Users \cup {NULL}, code : Codes \cup {NULL},
     asked : Decisions \cup [look : Looks] \cup {NULL},
     entity : Configs \cup {NULL}, cols : SUBSET Columns,
     next : 1..3, version : Nat, document : 0..MaxDocuments]

IdleTask ==
    [op |-> "none", at |-> "idle", enterprise |-> NULL, user |-> NULL, code |-> NULL,
     asked |-> NULL, entity |-> NULL, cols |-> {}, next |-> 1, version |-> 0, document |-> 0]

Init ==
    /\ config = [e \in Enterprises |-> NULL]
    /\ stored = [e \in Enterprises |-> NULL]
    /\ verified = [u \in Users |-> FALSE]
    /\ document = <<>>
    /\ requests = 0
    /\ task = [s \in ConfigSlots |-> IdleTask]
    /\ issued = {} /\ entered = {}

Becomes(s, t) == task' = [task EXCEPT ![s] = t]

Goes(s, step) == Becomes(s, [task[s] EXCEPT !.at = step])

Start(s, t) ==
    /\ task[s].at = "idle"
    /\ t.op \in ConfigWorkload[s]
    /\ requests < MaxRequests  \* bound
    /\ requests' = requests + 1
    /\ Becomes(s, t)
    /\ UNCHANGED <<config, stored, verified, document, issued>>

-----------------------------------------------------------------------------
(* Codes *)

SendEmailVerification(s, u, c) ==
    /\ Start(s, [IdleTask EXCEPT !.op = "send", !.at = "set",
           !.enterprise = EnterpriseOf[u], !.user = u, !.code = c])
    /\ UNCHANGED entered

\* The message with the code follows, and may fail.
SetCode(s) ==
    LET t == task[s] IN
    /\ t.at = "set"
    /\ stored' = [stored EXCEPT ![t.enterprise] = [email |-> EmailOf[t.user], code |-> t.code]]
    /\ issued' = issued \cup {[user |-> t.user, code |-> t.code]}
    /\ Becomes(s, IdleTask)
    /\ UNCHANGED <<config, verified, document, requests, entered>>

VerifyEmailCode(s, u, c) ==
    /\ Start(s, [IdleTask EXCEPT !.op = "verify", !.at = "get",
           !.enterprise = EnterpriseOf[u], !.user = u, !.code = c])
    /\ entered' = entered \cup {[user |-> u, code |-> c]}

\* Mutated form: the address is not compared.
GetCode_AnyAddress(s) ==
    LET t == task[s] IN
    /\ t.at = "get"
    /\ stored[t.enterprise] # NULL
    /\ stored[t.enterprise].code = t.code
    /\ Goes(s, "del")
    /\ UNCHANGED <<config, stored, verified, document, requests, issued, entered>>

GetCode(s) ==
    LET t == task[s] IN
    /\ t.at = "get"
    /\ stored[t.enterprise] = [email |-> EmailOf[t.user], code |-> t.code]
    /\ Goes(s, "del")
    /\ UNCHANGED <<config, stored, verified, document, requests, issued, entered>>

\* Whatever is stored by now is deleted.
DelCode(s) ==
    LET t == task[s] IN
    /\ t.at = "del"
    /\ stored' = [stored EXCEPT ![t.enterprise] = NULL]
    /\ Goes(s, "user")
    /\ UNCHANGED <<config, verified, document, requests, issued, entered>>

\* The user of that address in the enterprise is found and saved; then the
\* configuration is read for the welcome message.
VerifyUser(s) ==
    /\ task[s].at = "user"
    /\ verified' = [verified EXCEPT ![task[s].user] = TRUE]
    /\ Goes(s, "config")
    /\ UNCHANGED <<config, stored, document, requests, issued, entered>>

\* Ten minutes after it was stored.
ExpireCode(e) ==
    /\ stored[e] # NULL
    /\ stored' = [stored EXCEPT ![e] = NULL]
    /\ UNCHANGED <<config, verified, document, requests, task, issued, entered>>

-----------------------------------------------------------------------------
(* The configuration *)

\* Mutated form: the flag is only set, never cleared.
Decided_Flag(status, reason, admin) ==
    [verificationStatus |-> status,
     isVerified |-> IF status = "verified" THEN TRUE ELSE UNDEFINED,
     rejectionReason |-> IF status = "rejected" THEN reason ELSE UNDEFINED,
     verifiedBy |-> IF status = "verified" THEN admin ELSE UNDEFINED]

Decided(status, reason, admin) ==
    [verificationStatus |-> status,
     isVerified |-> status = "verified",
     rejectionReason |-> IF status = "rejected" THEN reason ELSE UNDEFINED,
     verifiedBy |-> IF status = "verified" THEN admin ELSE UNDEFINED]

UpdateVerificationStatus(s, e, status, reason, admin) ==
    /\ Start(s, [IdleTask EXCEPT !.op = "decide", !.at = "config", !.enterprise = e,
           !.asked = Decided(status, reason, admin)])
    /\ UNCHANGED entered

\* updateConfig, updateBranding and updateEmailDomains.
EditConfig(s, e, look) ==
    /\ Start(s, [IdleTask EXCEPT !.op = "edit", !.at = "config", !.enterprise = e,
           !.asked = [look |-> look]])
    /\ UNCHANGED entered

\* The handler has its configuration: a verification is over.
Continue(s, row) ==
    Becomes(s, IF task[s].op = "verify" THEN IdleTask
               ELSE [task[s] EXCEPT !.at = "assign", !.entity = row])

\* getOrCreateConfig: the first one creates it, unless another did meanwhile.
FindConfig(s) ==
    LET t == task[s] IN
    /\ t.at = "config"
    /\ IF config[t.enterprise] = NULL THEN Goes(s, "create")
       ELSE Continue(s, config[t.enterprise])
    /\ UNCHANGED <<config, stored, verified, document, requests, issued, entered>>

CreateConfig(s) ==
    LET t == task[s] IN
    /\ t.at = "create"
    /\ config[t.enterprise] = NULL  \* enterpriseId is unique
    /\ config' = [config EXCEPT ![t.enterprise] = DefaultConfig]
    /\ Continue(s, DefaultConfig)
    /\ UNCHANGED <<stored, verified, document, requests, issued, entered>>

\* The row's values with those the request assigns, the undefined ones left.
Merged(row, asked) ==
    [c \in Columns |->
        IF c \in DOMAIN asked /\ asked[c] # UNDEFINED THEN asked[c] ELSE row[c]]

\* A rejection without a reason is refused.  repository.save(config) SELECTs.
SelectConfig(s) ==
    LET t == task[s]
        entity == Merged(t.entity, t.asked) IN
    /\ t.at = "assign"
    /\ t.op = "decide" => t.asked.rejectionReason # NULL
    /\ Becomes(s, [t EXCEPT !.at = "write", !.entity = entity,
           !.cols = Changed(entity, config[t.enterprise])])
    /\ UNCHANGED <<config, stored, verified, document, requests, issued, entered>>

WriteConfig(s) ==
    LET t == task[s] IN
    /\ t.at = "write"
    /\ config' = [config EXCEPT ![t.enterprise] = Written(@, t.entity, t.cols)]
    /\ Becomes(s, IdleTask)
    /\ UNCHANGED <<stored, verified, document, requests, issued, entered>>

-----------------------------------------------------------------------------
(* Documents *)

Active(e, type) ==
    {d \in DOMAIN document : /\ document[d].enterprise = e
                             /\ document[d].type = type
                             /\ document[d].isActive}

\* Mutated form: the version after that of the oldest active document.
Latest_Oldest(V) == CHOOSE v \in V : \A w \in V : v <= w

\* The latest of a set of versions.
Latest(V) == CHOOSE v \in V : \A w \in V : v >= w

UploadDocuments(s, e) ==
    /\ Start(s, [IdleTask EXCEPT !.op = "upload", !.at = "find", !.enterprise = e])
    /\ UNCHANGED entered

\* createDocument, once for each file: the version after the latest active one.
FindLatest(s) ==
    LET t == task[s]
        versions == {document[d].version : d \in Active(t.enterprise, DocumentTypes[t.next])} IN
    /\ t.at = "find"
    /\ Becomes(s, [t EXCEPT !.at = "insert",
           !.version = IF versions = {} THEN 1 ELSE Latest(versions) + 1])
    /\ UNCHANGED <<config, stored, verified, document, requests, issued, entered>>

InsertDocument(s) ==
    LET t == task[s] IN
    /\ t.at = "insert"
    /\ Len(document) < MaxDocuments  \* bound
    /\ document' = Append(document, [enterprise |-> t.enterprise, type |-> DocumentTypes[t.next],
                                     version |-> t.version, isActive |-> TRUE])
    /\ Becomes(s, IF t.next = 3 THEN IdleTask ELSE [t EXCEPT !.at = "find", !.next = @ + 1])
    /\ UNCHANGED <<config, stored, verified, requests, issued, entered>>

\* The document is found, deleted before or not.
DeleteDocument(s, d, e) ==
    /\ document[d].enterprise = e
    /\ Start(s, [IdleTask EXCEPT !.op = "delete", !.at = "delete", !.enterprise = e,
           !.document = d])
    /\ UNCHANGED entered

DeleteWrite(s) ==
    /\ task[s].at = "delete"
    /\ document' = [document EXCEPT ![task[s].document].isActive = FALSE]
    /\ Becomes(s, IdleTask)
    /\ UNCHANGED <<config, stored, verified, requests, issued, entered>>

-----------------------------------------------------------------------------

\* A refused request or a failing statement; what was written stays.
Fails(s) ==
    /\ task[s].at # "idle"
    /\ Becomes(s, IdleTask)
    /\ UNCHANGED <<config, stored, verified, document, requests, issued, entered>>

\* The process stops and starts again; redis keeps the codes.
Crash ==
    /\ \E s \in ConfigSlots : task[s].at # "idle"
    /\ task' = [s \in ConfigSlots |-> IdleTask]
    /\ UNCHANGED <<config, stored, verified, document, requests, issued, entered>>

\* The routes of the administrators' pages, branding and e-mail domains.  What a
\* route uploads to the object store before it asks the service is not kept.
BrandingRoutes(s) ==
    \E e \in Enterprises, look \in Looks : EditConfig(s, e, look)

\* The routes that write (enterprise-config.controller.ts).
ConfigController(s) ==
    \/ BrandingRoutes(s)
    \/ \E u \in Users, c \in Codes : SendEmailVerification(s, u, c) \/ VerifyEmailCode(s, u, c)
    \/ \E e \in Enterprises :
          \/ \E status \in VerificationStatus, reason \in {"reason", NULL}, a \in SuperAdmins :
                UpdateVerificationStatus(s, e, status, reason, a)
          \/ UploadDocuments(s, e)
          \/ \E d \in DOMAIN document : DeleteDocument(s, d, e)

Step(s) ==
    \/ ConfigController(s)
    \/ SetCode(s)
    \/ GetCode(s) \/ DelCode(s) \/ VerifyUser(s)
    \/ FindConfig(s) \/ CreateConfig(s) \/ SelectConfig(s) \/ WriteConfig(s)
    \/ FindLatest(s) \/ InsertDocument(s)
    \/ DeleteWrite(s)
    \/ Fails(s)

Next ==
    \/ \E s \in ConfigSlots : Step(s)
    \/ \E e \in Enterprises : ExpireCode(e)
    \/ Crash

Spec == Init /\ [][Next]_vars

-----------------------------------------------------------------------------

TypeOK ==
    /\ config \in [Enterprises -> Configs \cup {NULL}]
    /\ stored \in [Enterprises -> StoredCodes \cup {NULL}]
    /\ verified \in [Users -> BOOLEAN]
    /\ document \in Seq(Documents)
    /\ Len(document) <= MaxDocuments
    /\ requests \in 0..MaxRequests
    /\ task \in [ConfigSlots -> Tasks]
    /\ issued \subseteq [user : Users, code : Codes]
    /\ entered \subseteq [user : Users, code : Codes]

\* A user's address is only ever verified by that user sending back a code that
\* was made for that address: not the code of another administrator with whom
\* the enterprise's one key is shared, nor that of the same address in another
\* enterprise (verifyEmailCode).
VerifiedOwnsAddress ==
    \A u \in Users : verified[u] =>
        \E c \in Codes : [user |-> u, code |-> c] \in entered \cap issued

\* After any sequence of decisions the row agrees with the last one: it is
\* flagged as verified exactly when the status is, it then names who verified
\* it, and a rejection has its reason (updateVerificationStatus).  Holds if
\* decisions overlap neither each other nor an edit.
DecisionIsRecorded ==
    \A e \in Enterprises : config[e] # NULL =>
        /\ config[e].isVerified <=> config[e].verificationStatus = "verified"
        /\ config[e].isVerified => config[e].verifiedBy # NULL
        /\ config[e].verificationStatus = "rejected" => config[e].rejectionReason # NULL

\* Of the active documents of one type the one uploaded later has the higher
\* version, although uploads fail in the middle and documents are deleted while
\* the next version is computed (createDocument).  Holds if uploads do not
\* overlap.
VersionsFollowUploads ==
    \A c, d \in DOMAIN document :
        /\ c < d
        /\ document[c].enterprise = document[d].enterprise
        /\ document[c].type = document[d].type
        /\ document[c].isActive /\ document[d].isActive
        => document[c].version < document[d].version
=============================================================================
