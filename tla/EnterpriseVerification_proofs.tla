-------------------- MODULE EnterpriseVerification_proofs --------------------
(***************************************************************************)
(* Theorems about EnterpriseVerification, for any enterprises, users,      *)
(* codes, slots and workload, and any number of documents and requests.    *)
(***************************************************************************)
EXTENDS EnterpriseVerification, FiniteSetTheorems, SequenceTheorems, TLAPS

-----------------------------------------------------------------------------
(* Lemmas on the values the handlers are built from *)

LEMMA IdleType == IdleTask \in Tasks /\ IdleTask.at = "idle" /\ IdleTask.op = "none"
  <1>1. IdleTask \in Tasks
    BY VerificationAssumption DEF VerificationAssumption, IdleTask, Tasks
  <1>2. QED
    BY <1>1 DEF IdleTask

LEMMA DefaultType == DefaultConfig \in Configs
  BY DEF DefaultConfig, Configs, VerificationStatus

LEMMA DecidedType ==
    ASSUME NEW status \in VerificationStatus, NEW reason \in {"reason", NULL},
           NEW a \in SuperAdmins
    PROVE  Decided(status, reason, a) \in Decisions
  BY DEF Decided, Decisions

\* Whatever a request assigns to a configuration, it stays one.
LEMMA MergedType ==
    ASSUME NEW row \in Configs, NEW asked \in Decisions \cup [look : Looks]
    PROVE  Merged(row, asked) \in Configs
  <1>1. CASE asked \in Decisions
    BY <1>1 DEF Merged, Configs, Columns, Decisions
  <1>2. CASE asked \in [look : Looks]
    BY <1>2 DEF Merged, Configs, Columns
  <1>3. QED
    BY <1>1, <1>2

LEMMA WrittenType ==
    ASSUME NEW row \in Configs, NEW entity \in Configs, NEW cols
    PROVE  Written(row, entity, cols) \in Configs
  BY DEF Written, Configs

LEMMA ChangedType ==
    ASSUME NEW row \in Configs, NEW entity
    PROVE  Changed(entity, row) \in SUBSET Columns
  BY DEF Changed, Configs, Columns

\* A finite set of numbers has a greatest one: it is Latest.
LEMMA LatestIsGreatest ==
    ASSUME NEW V \in SUBSET Nat, IsFiniteSet(V), V # {}
    PROVE  Latest(V) \in V /\ \A w \in V : Latest(V) >= w
<1> DEFINE Above(v) == {w \in V : w > v}
           Sets == {Above(v) : v \in V}
<1>1. Sets \subseteq FiniteSubsetsOf(V) /\ Sets # {}
  <2>1. \A v \in V : Above(v) \subseteq V /\ IsFiniteSet(Above(v))
    BY FS_Subset
  <2>2. QED
    BY <2>1 DEF FiniteSubsetsOf
<1>2. PICK A \in Sets : \A B \in Sets : ~ (<<B, A>> \in StrictSubsetOrdering(V))
  BY <1>1, FS_StrictSubsetOrderingWellFounded, WFMin
<1>3. PICK v \in V : A = Above(v)
  OBVIOUS
<1>4. ASSUME NEW w \in V, w > v
      PROVE  FALSE
  <2>1. Above(w) \in Sets /\ Above(w) \in SUBSET V /\ Above(v) \in SUBSET V
    OBVIOUS
  <2>2. ~ (Above(w) \subseteq Above(v) /\ Above(w) # Above(v))
    BY <1>2, <1>3, <2>1 DEF StrictSubsetOrdering
  <2>3. w \in Above(v) /\ w \notin Above(w)
    BY <1>4
  <2>4. \A x \in V : x > w => x > v
    <3>1. v \in Nat /\ w \in Nat /\ \A x \in V : x \in Nat
      OBVIOUS
    <3>2. QED
      BY <3>1, <1>4
  <2>5. QED
    BY <2>2, <2>3, <2>4
<1>5. \A w \in V : v >= w
  <2>1. v \in Nat /\ \A w \in V : w \in Nat
    OBVIOUS
  <2>2. QED
    BY <1>4, <2>1
<1>6. QED
  BY <1>5 DEF Latest

-----------------------------------------------------------------------------
(* What the routes start, and types *)

\* The handlers that may have been started, and how the history goes on.
Begun(t) ==
    /\ t \in Tasks
    /\ t.enterprise \in Enterprises
    /\ \/ /\ t.op \in {"send", "verify"}
          /\ t.at = IF t.op = "send" THEN "set" ELSE "get"
          /\ t.user \in Users
          /\ t.code \in Codes
          /\ t.enterprise = EnterpriseOf[t.user]
       \/ /\ t.op = "decide"
          /\ t.at = "config"
          /\ \E status \in VerificationStatus, reason \in {"reason", NULL}, a \in SuperAdmins :
                t.asked = Decided(status, reason, a)
       \/ t.op = "edit" /\ t.at = "config" /\ t.asked \in [look : Looks]
       \/ t.op = "upload" /\ t.at = "find" /\ t.next = 1
       \/ t.op = "delete" /\ t.at = "delete" /\ t.document \in DOMAIN document

Entered(t) ==
    entered' = entered \cup
        IF t.op = "verify" THEN {[user |-> t.user, code |-> t.code]} ELSE {}

LEMMA RouteStarts ==
    ASSUME TypeOK, NEW s \in ConfigSlots, ConfigController(s)
    PROVE  \E t : Begun(t) /\ Start(s, t) /\ Entered(t)
<1> USE IdleType, VerificationAssumption DEF VerificationAssumption
<1>1. ASSUME NEW e \in Enterprises, NEW look \in Looks, EditConfig(s, e, look)
      PROVE  \E t : Begun(t) /\ Start(s, t) /\ Entered(t)
  <2> DEFINE t == [IdleTask EXCEPT !.op = "edit", !.at = "config", !.enterprise = e,
                                   !.asked = [look |-> look]]
  <2>1. t \in Tasks
    BY DEF IdleTask, Tasks, ConfigOps
  <2>2. t.op = "edit" /\ t.at = "config" /\ t.enterprise = e /\ t.asked = [look |-> look]
    BY DEF IdleTask
  <2>3. Start(s, t) /\ Entered(t)
    BY <1>1, <2>2 DEF EditConfig, Entered
  <2> HIDE DEF t
  <2>4. Begun(t)
    BY <2>1, <2>2 DEF Begun
  <2>5. QED
    BY <2>3, <2>4
<1>2. ASSUME NEW u \in Users, NEW c \in Codes, SendEmailVerification(s, u, c)
      PROVE  \E t : Begun(t) /\ Start(s, t) /\ Entered(t)
  <2> DEFINE t == [IdleTask EXCEPT !.op = "send", !.at = "set",
                       !.enterprise = EnterpriseOf[u], !.user = u, !.code = c]
  <2>1. t \in Tasks
    BY DEF IdleTask, Tasks, ConfigOps
  <2>2. /\ t.op = "send" /\ t.at = "set" /\ t.enterprise = EnterpriseOf[u]
        /\ t.user = u /\ t.code = c
    BY DEF IdleTask
  <2>3. Start(s, t) /\ Entered(t)
    BY <1>2, <2>2 DEF SendEmailVerification, Entered
  <2> HIDE DEF t
  <2>4. Begun(t)
    BY <2>1, <2>2 DEF Begun
  <2>5. QED
    BY <2>3, <2>4
<1>3. ASSUME NEW u \in Users, NEW c \in Codes, VerifyEmailCode(s, u, c)
      PROVE  \E t : Begun(t) /\ Start(s, t) /\ Entered(t)
  <2> DEFINE t == [IdleTask EXCEPT !.op = "verify", !.at = "get",
                       !.enterprise = EnterpriseOf[u], !.user = u, !.code = c]
  <2>1. t \in Tasks
    BY DEF IdleTask, Tasks, ConfigOps
  <2>2. /\ t.op = "verify" /\ t.at = "get" /\ t.enterprise = EnterpriseOf[u]
        /\ t.user = u /\ t.code = c
    BY DEF IdleTask
  <2>3. Start(s, t) /\ Entered(t)
    BY <1>3, <2>2 DEF VerifyEmailCode, Entered
  <2> HIDE DEF t
  <2>4. Begun(t)
    BY <2>1, <2>2 DEF Begun
  <2>5. QED
    BY <2>3, <2>4
<1>4. ASSUME NEW e \in Enterprises, NEW status \in VerificationStatus,
             NEW reason \in {"reason", NULL}, NEW a \in SuperAdmins,
             UpdateVerificationStatus(s, e, status, reason, a)
      PROVE  \E t : Begun(t) /\ Start(s, t) /\ Entered(t)
  <2> DEFINE t == [IdleTask EXCEPT !.op = "decide", !.at = "config", !.enterprise = e,
                                   !.asked = Decided(status, reason, a)]
  <2>1. t \in Tasks
    BY DecidedType DEF IdleTask, Tasks, ConfigOps
  <2>2. t.op = "decide" /\ t.at = "config" /\ t.enterprise = e
        /\ t.asked = Decided(status, reason, a)
    BY DEF IdleTask
  <2>3. Start(s, t) /\ Entered(t)
    BY <1>4, <2>2 DEF UpdateVerificationStatus, Entered
  <2> HIDE DEF t
  <2>4. Begun(t)
    BY <2>1, <2>2 DEF Begun
  <2>5. QED
    BY <2>3, <2>4
<1>5. ASSUME NEW e \in Enterprises, UploadDocuments(s, e)
      PROVE  \E t : Begun(t) /\ Start(s, t) /\ Entered(t)
  <2> DEFINE t == [IdleTask EXCEPT !.op = "upload", !.at = "find", !.enterprise = e]
  <2>1. t \in Tasks
    BY DEF IdleTask, Tasks, ConfigOps
  <2>2. t.op = "upload" /\ t.at = "find" /\ t.enterprise = e /\ t.next = 1
    BY DEF IdleTask
  <2>3. Start(s, t) /\ Entered(t)
    BY <1>5, <2>2 DEF UploadDocuments, Entered
  <2> HIDE DEF t
  <2>4. Begun(t)
    BY <2>1, <2>2 DEF Begun
  <2>5. QED
    BY <2>3, <2>4
<1>6. ASSUME NEW e \in Enterprises, NEW d \in DOMAIN document, DeleteDocument(s, d, e)
      PROVE  \E t : Begun(t) /\ Start(s, t) /\ Entered(t)
  <2> DEFINE t == [IdleTask EXCEPT !.op = "delete", !.at = "delete", !.enterprise = e,
                                   !.document = d]
  <2>1. d \in 0..MaxDocuments
    BY LenProperties DEF TypeOK
  <2>2. t \in Tasks
    BY <2>1 DEF IdleTask, Tasks, ConfigOps
  <2>3. t.op = "delete" /\ t.at = "delete" /\ t.enterprise = e /\ t.document = d
    BY DEF IdleTask
  <2>4. Start(s, t) /\ Entered(t)
    BY <1>6, <2>3 DEF DeleteDocument, Entered
  <2> HIDE DEF t
  <2>5. Begun(t)
    BY <2>2, <2>3 DEF Begun
  <2>6. QED
    BY <2>4, <2>5
<1>7. QED
  BY <1>1, <1>2, <1>3, <1>4, <1>5, <1>6 DEF ConfigController, BrandingRoutes

\* What is known of a handler in flight, given the configurations and the places
\* of documents: its type, and at each point the values it goes on with.
Sound(t, configs, places) ==
    /\ t \in Tasks
    /\ t.at # "idle" => t.enterprise \in Enterprises
    /\ t.at = "set" => t.op = "send"
    /\ t.at \in {"get", "del", "user"} => t.op = "verify"
    /\ t.op \in {"send", "verify"} =>
          t.user \in Users /\ t.code \in Codes /\ t.enterprise = EnterpriseOf[t.user]
    /\ t.at \in {"config", "create"} => t.op \in {"verify", "decide", "edit"}
    /\ t.at \in {"find", "insert"} => t.op = "upload"
    /\ t.op = "decide" =>
          \E status \in VerificationStatus, reason \in {"reason", NULL}, a \in SuperAdmins :
              t.asked = Decided(status, reason, a)
    /\ t.op = "edit" => t.asked \in [look : Looks]
    /\ t.at \in {"assign", "write"} =>
          /\ t.op \in {"decide", "edit"}
          /\ t.entity \in Configs
          /\ configs[t.enterprise] \in Configs
    /\ t.at = "delete" => t.document \in places

Inv == TypeOK /\ \A s \in ConfigSlots : Sound(task[s], config, DOMAIN document)

\* The versions among which the next one is found are finitely many.
LEMMA VersionsAreFinite ==
    ASSUME document \in Seq(Documents), NEW D \in SUBSET DOMAIN document
    PROVE  LET versions == {document[d].version : d \in D}
           IN  versions \in SUBSET Nat /\ IsFiniteSet(versions)
<1> DEFINE versions == {document[d].version : d \in D}
           f == [d \in D |-> document[d].version]
<1>1. versions \in SUBSET Nat
  <2>1. ASSUME NEW d \in D
        PROVE  document[d].version \in Nat
    <3>1. document[d] \in Documents
      BY ElementOfSeq, LenProperties
    <3>2. QED
      BY <3>1 DEF Documents
  <2>2. QED
    BY <2>1
<1>2. IsFiniteSet(D)
  <2>1. Len(document) \in Nat /\ DOMAIN document = 1..Len(document)
    BY LenProperties
  <2>2. IsFiniteSet(1..Len(document))
    BY <2>1, FS_Interval
  <2>3. QED
    BY <2>1, <2>2, FS_Subset
<1>3. f \in Surjection(D, versions)
  BY DEF Surjection
<1>4. QED
  BY <1>1, <1>2, <1>3, FS_Surjection

\* What FindLatest finds: a version above those of all active documents.
LEMMA FoundVersion ==
    ASSUME document \in Seq(Documents), NEW D \in SUBSET DOMAIN document
    PROVE  LET versions == {document[d].version : d \in D}
               next == IF versions = {} THEN 1 ELSE Latest(versions) + 1
           IN  next \in Nat /\ \A d \in D : document[d].version < next
<1> DEFINE versions == {document[d].version : d \in D}
<1>1. versions \in SUBSET Nat /\ IsFiniteSet(versions)
  BY VersionsAreFinite
<1>2. CASE versions = {}
  BY <1>2
<1>3. CASE versions # {}
  <2>1. Latest(versions) \in versions /\ \A w \in versions : Latest(versions) >= w
    BY <1>1, <1>3, LatestIsGreatest
  <2>2. Latest(versions) \in Nat /\ \A d \in D : /\ document[d].version \in Nat
                                                /\ Latest(versions) >= document[d].version
    BY <1>1, <2>1
  <2> HIDE DEF versions
  <2>3. \A d \in D : document[d].version < Latest(versions) + 1
    BY <2>2
  <2>4. Latest(versions) + 1 \in Nat
    BY <2>2
  <2>5. QED
    BY <1>3, <2>3, <2>4 DEF versions
<1>4. QED
  BY <1>2, <1>3

LEMMA IdleIsSound == \A configs, places : Sound(IdleTask, configs, places)
  BY IdleType DEF Sound

\* A handler goes on after it has written the tables or not.
LEMMA MoveKeepsInv ==
    ASSUME Inv, NEW s \in ConfigSlots, NEW n, Becomes(s, n),
           Sound(n, config', DOMAIN document'),
           config' \in [Enterprises -> Configs \cup {NULL}],
           \A e \in Enterprises : config[e] \in Configs => config'[e] \in Configs,
           stored' \in [Enterprises -> StoredCodes \cup {NULL}],
           verified' \in [Users -> BOOLEAN],
           document' \in Seq(Documents),
           Len(document') \in Len(document)..MaxDocuments,
           requests' \in 0..MaxRequests,
           issued' \subseteq [user : Users, code : Codes],
           entered' \subseteq [user : Users, code : Codes]
    PROVE  Inv'
  <1>1. TypeOK'
    BY DEF Inv, TypeOK, Becomes, Sound
  <1>2. DOMAIN document \subseteq DOMAIN document'
    <2>1. /\ Len(document) \in Nat /\ Len(document') \in Nat
          /\ DOMAIN document = 1..Len(document) /\ DOMAIN document' = 1..Len(document')
      BY LenProperties DEF Inv, TypeOK
    <2>2. QED
      BY <2>1
  <1>3. \A u \in ConfigSlots : Sound(task[u], config', DOMAIN document')
    BY <1>2 DEF Inv, Sound
  <1>4. \A u \in ConfigSlots : Sound(task'[u], config', DOMAIN document')
    BY <1>3 DEF Inv, TypeOK, Becomes
  <1>5. QED
    BY <1>1, <1>4 DEF Inv

\* It writes nothing.
LEMMA QuietKeepsInv ==
    ASSUME Inv, NEW s \in ConfigSlots, NEW n, Becomes(s, n),
           Sound(n, config, DOMAIN document),
           UNCHANGED <<config, stored, verified, document, requests, issued, entered>>
    PROVE  Inv'
  <1>1. Len(document') \in Len(document)..MaxDocuments
    BY LenProperties, VerificationAssumption DEF VerificationAssumption, Inv, TypeOK
  <1>2. QED
    BY <1>1, MoveKeepsInv DEF Inv, TypeOK

LEMMA StartKeepsInv ==
    ASSUME Inv, NEW s \in ConfigSlots, NEW t, Begun(t), Start(s, t), Entered(t)
    PROVE  Inv'
  <1>1. Sound(t, config, DOMAIN document)
    BY DEF Begun, Sound
  <1>2. /\ Becomes(s, t)
        /\ UNCHANGED <<config, stored, verified, document, issued>>
        /\ requests' \in 0..MaxRequests
    BY VerificationAssumption DEF VerificationAssumption, Inv, TypeOK, Start
  <1>3. entered' \subseteq [user : Users, code : Codes]
    BY DEF Begun, Entered, Inv, TypeOK
  <1>4. Len(document') \in Len(document)..MaxDocuments
    BY <1>2, LenProperties, VerificationAssumption DEF VerificationAssumption, Inv, TypeOK
  <1>5. QED
    BY <1>1, <1>2, <1>3, <1>4, MoveKeepsInv DEF Inv, TypeOK

\* The configuration is there when the handler that asked for it goes on.
LEMMA ContinueIsSound ==
    ASSUME NEW t, NEW configs, NEW places, Sound(t, configs, places), t.at \in {"config", "create"},
           NEW row \in Configs, configs[t.enterprise] \in Configs
    PROVE  Sound(IF t.op = "verify" THEN IdleTask
                 ELSE [t EXCEPT !.at = "assign", !.entity = row], configs, places)
<1>1. CASE t.op = "verify"
  BY <1>1, IdleType DEF Sound
<1>2. CASE t.op # "verify"
  <2> DEFINE n == [t EXCEPT !.at = "assign", !.entity = row]
  <2>1. n \in Tasks
    BY DEF Sound, Tasks
  <2>2. /\ n.at = "assign" /\ n.entity = row /\ n.op = t.op /\ n.asked = t.asked
        /\ n.user = t.user /\ n.code = t.code /\ n.enterprise = t.enterprise
    BY DEF Sound, Tasks
  <2> HIDE DEF n
  <2>3. Sound(n, configs, places)
    BY <1>2, <2>1, <2>2 DEF Sound
  <2>4. QED
    BY <1>2, <2>3 DEF n
<1>3. QED
  BY <1>1, <1>2

LEMMA SelectIsSound ==
    ASSUME NEW t, NEW places, Sound(t, config, places), t.at = "assign"
    PROVE  LET entity == Merged(t.entity, t.asked)
           IN  Sound([t EXCEPT !.at = "write", !.entity = entity,
                         !.cols = Changed(entity, config[t.enterprise])], config, places)
<1> DEFINE entity == Merged(t.entity, t.asked)
           cols == Changed(entity, config[t.enterprise])
           n == [t EXCEPT !.at = "write", !.entity = entity, !.cols = cols]
<1>1. t.asked \in Decisions \cup [look : Looks]
  BY DecidedType DEF Sound
<1>2. entity \in Configs /\ cols \in SUBSET Columns
  BY <1>1, MergedType, ChangedType DEF Sound
<1> HIDE DEF entity, cols
<1>3. n \in Tasks
  BY <1>2 DEF Sound, Tasks
<1>4. /\ n.at = "write" /\ n.entity = entity /\ n.op = t.op /\ n.asked = t.asked
      /\ n.user = t.user /\ n.code = t.code /\ n.enterprise = t.enterprise
  BY DEF Sound, Tasks
<1> HIDE DEF n
<1>5. Sound(n, config, places)
  BY <1>2, <1>3, <1>4 DEF Sound
<1>6. QED
  BY <1>5 DEF n, cols, entity

LEMMA StepKeepsInv ==
    ASSUME Inv, NEW s \in ConfigSlots, Step(s)
    PROVE  Inv'
<1> DEFINE t == task[s]
<1> USE IdleType, IdleIsSound
<1>0. /\ Sound(t, config, DOMAIN document)
      /\ TypeOK
      /\ t.at # "idle" => t.enterprise \in Enterprises
      /\ Len(document) \in Len(document)..MaxDocuments
  BY LenProperties, VerificationAssumption
     DEF VerificationAssumption, Inv, Sound, TypeOK
<1>1. CASE ConfigController(s)
  BY <1>1, <1>0, RouteStarts, StartKeepsInv
<1>2. CASE SetCode(s)
  <2>1. t.op = "send" /\ t.user \in Users /\ t.code \in Codes
    BY <1>0, <1>2 DEF SetCode, Sound
  <2>2. [email |-> EmailOf[t.user], code |-> t.code] \in StoredCodes
    BY <2>1, VerificationAssumption DEF VerificationAssumption, StoredCodes
  <2>3. stored' \in [Enterprises -> StoredCodes \cup {NULL}]
    BY <1>2, <2>2 DEF SetCode, Inv, TypeOK
  <2>4. issued' \subseteq [user : Users, code : Codes]
    BY <1>2, <2>1 DEF SetCode, Inv, TypeOK
  <2>5. QED
    BY <1>0, <1>2, <2>3, <2>4, MoveKeepsInv DEF SetCode, TypeOK
<1>3. ASSUME NEW p \in {"del", "user", "config", "create"},
             NEW n, n = [t EXCEPT !.at = p],
             t.at # "idle", t.op \in {"verify", "decide", "edit"},
             p \in {"del", "user"} => t.op = "verify"
      PROVE  Sound(n, config, DOMAIN document)
  <2>1. n \in Tasks
    BY <1>0, <1>3 DEF Sound, Tasks
  <2>2. /\ n.at = p /\ n.op = t.op /\ n.user = t.user /\ n.code = t.code
        /\ n.enterprise = t.enterprise /\ n.asked = t.asked
    BY <1>0, <1>3 DEF Sound, Tasks
  <2>3. QED
    BY <1>0, <1>3, <2>1, <2>2 DEF Sound
<1>4. CASE GetCode(s)
  <2>1. t.at = "get" /\ t.op = "verify"
    BY <1>0, <1>4 DEF GetCode, Sound
  <2>2. Sound([t EXCEPT !.at = "del"], config, DOMAIN document)
    BY <1>3, <2>1
  <2>3. QED
    BY <1>4, <2>2, QuietKeepsInv DEF GetCode, Goes
<1>5. CASE DelCode(s)
  <2>1. t.at = "del" /\ t.op = "verify"
    BY <1>0, <1>5 DEF DelCode, Sound
  <2>2. Sound([t EXCEPT !.at = "user"], config, DOMAIN document)
    BY <1>3, <2>1
  <2>3. stored' \in [Enterprises -> StoredCodes \cup {NULL}]
    BY <1>5 DEF DelCode, Inv, TypeOK
  <2>4. QED
    BY <1>0, <1>5, <2>2, <2>3, MoveKeepsInv DEF DelCode, Goes, TypeOK
<1>6. CASE VerifyUser(s)
  <2>1. t.at = "user" /\ t.op = "verify"
    BY <1>0, <1>6 DEF VerifyUser, Sound
  <2>2. Sound([t EXCEPT !.at = "config"], config, DOMAIN document)
    BY <1>3, <2>1
  <2>3. verified' \in [Users -> BOOLEAN]
    BY <1>6 DEF VerifyUser, Inv, TypeOK
  <2>4. QED
    BY <1>0, <1>6, <2>2, <2>3, MoveKeepsInv DEF VerifyUser, Goes, TypeOK
<1>7. CASE FindConfig(s)
  <2>1. t.at = "config" /\ t.op \in {"verify", "decide", "edit"}
    BY <1>0, <1>7 DEF FindConfig, Sound
  <2>2. CASE config[t.enterprise] = NULL
    <3>1. Sound([t EXCEPT !.at = "create"], config, DOMAIN document)
      BY <1>3, <2>1
    <3>2. QED
      BY <1>7, <2>2, <3>1, QuietKeepsInv DEF FindConfig, Goes
  <2>3. CASE config[t.enterprise] # NULL
    <3>1. config[t.enterprise] \in Configs
      BY <1>0, <2>1, <2>3 DEF TypeOK
    <3>2. QED
      BY <1>0, <1>7, <2>1, <2>3, <3>1, ContinueIsSound, QuietKeepsInv DEF FindConfig, Continue
  <2>4. QED
    BY <2>2, <2>3
<1>8. CASE CreateConfig(s)
  <2> DEFINE n == IF t.op = "verify" THEN IdleTask
                  ELSE [t EXCEPT !.at = "assign", !.entity = DefaultConfig]
  <2>1. t.at = "create" /\ t.enterprise \in Enterprises
    BY <1>0, <1>8 DEF CreateConfig
  <2>2. config' = [config EXCEPT ![t.enterprise] = DefaultConfig] /\ Becomes(s, n)
    BY <1>8 DEF CreateConfig, Continue
  <2> HIDE DEF n
  <2>3. /\ config' \in [Enterprises -> Configs \cup {NULL}]
        /\ config'[t.enterprise] \in Configs
        /\ \A e \in Enterprises : config[e] \in Configs => config'[e] \in Configs
    BY <1>0, <2>1, <2>2, DefaultType DEF TypeOK
  <2>4. Sound(t, config', DOMAIN document)
    BY <1>0, <2>1 DEF Sound
  <2>5. Sound(n, config', DOMAIN document)
    BY <2>1, <2>3, <2>4, DefaultType, ContinueIsSound DEF n
  <2>6. QED
    BY <1>0, <1>8, <2>2, <2>3, <2>5, MoveKeepsInv DEF CreateConfig, TypeOK
<1>9. CASE SelectConfig(s)
  BY <1>0, <1>9, SelectIsSound, QuietKeepsInv DEF SelectConfig
<1>10. CASE WriteConfig(s)
  <2>1. t.at = "write" /\ t.enterprise \in Enterprises /\ t.entity \in Configs
        /\ config[t.enterprise] \in Configs
    BY <1>0, <1>10 DEF WriteConfig, Sound
  <2>2. Written(config[t.enterprise], t.entity, t.cols) \in Configs
    BY <2>1, WrittenType
  <2>3. config' = [config EXCEPT ![t.enterprise] =
                       Written(config[t.enterprise], t.entity, t.cols)]
    BY <1>10 DEF WriteConfig
  <2>4. /\ config' \in [Enterprises -> Configs \cup {NULL}]
        /\ \A e \in Enterprises : config[e] \in Configs => config'[e] \in Configs
    BY <1>0, <2>1, <2>2, <2>3 DEF TypeOK
  <2>5. QED
    BY <1>0, <1>10, <2>4, MoveKeepsInv DEF WriteConfig, TypeOK
<1>11. CASE FindLatest(s)
  <2> DEFINE type == DocumentTypes[t.next]
             D == Active(t.enterprise, type)
             versions == {document[d].version : d \in D}
             next == IF versions = {} THEN 1 ELSE Latest(versions) + 1
             n == [t EXCEPT !.at = "insert", !.version = next]
  <2>1. t.at = "find" /\ t.op = "upload" /\ Becomes(s, n)
        /\ UNCHANGED <<config, stored, verified, document, requests, issued, entered>>
    BY <1>0, <1>11 DEF FindLatest, Sound
  <2>2. D \in SUBSET DOMAIN document
    BY DEF Active
  <2>3. next \in Nat
    BY <1>0, <2>2, FoundVersion DEF TypeOK
  <2> HIDE DEF next
  <2>4. n \in Tasks
    BY <1>0, <2>3 DEF Sound, Tasks
  <2>5. n.at = "insert" /\ n.op = t.op /\ n.enterprise = t.enterprise
    BY <1>0 DEF Sound, Tasks
  <2> HIDE DEF n
  <2>6. Sound(n, config, DOMAIN document)
    BY <1>0, <2>1, <2>4, <2>5 DEF Sound
  <2>7. QED
    BY <2>1, <2>6, QuietKeepsInv
<1>12. CASE InsertDocument(s)
  <2> DEFINE new == [enterprise |-> t.enterprise, type |-> DocumentTypes[t.next],
                     version |-> t.version, isActive |-> TRUE]
             n == IF t.next = 3 THEN IdleTask ELSE [t EXCEPT !.at = "find", !.next = t.next + 1]
  <2>1. t.at = "insert" /\ t.op = "upload" /\ t.enterprise \in Enterprises
        /\ Len(document) < MaxDocuments
    BY <1>0, <1>12 DEF InsertDocument, Sound
  <2>2. document' = Append(document, new) /\ Becomes(s, n)
        /\ UNCHANGED <<config, stored, verified, requests, issued, entered>>
    BY <1>12 DEF InsertDocument
  <2>3. t.next \in 1..3 /\ t.version \in Nat
    BY <1>0 DEF Sound, Tasks
  <2>4. new \in Documents
    BY <2>1, <2>3 DEF Documents
  <2> HIDE DEF new
  <2>5. document' \in Seq(Documents) /\ Len(document') = Len(document) + 1
    BY <1>0, <2>2, <2>4, AppendProperties DEF TypeOK
  <2>6. Len(document') \in Len(document)..MaxDocuments
    BY <1>0, <2>1, <2>5, LenProperties, VerificationAssumption
       DEF VerificationAssumption, TypeOK
  <2>7. Sound(n, config, DOMAIN document')
    <3>1. CASE t.next = 3
      BY <3>1
    <3>2. CASE t.next # 3
      <4> DEFINE m == [t EXCEPT !.at = "find", !.next = t.next + 1]
      <4>1. m \in Tasks
        <5>1. t.next + 1 \in 1..3
          BY <2>3, <3>2
        <5>2. QED
          BY <1>0, <5>1 DEF Sound, Tasks
      <4>2. m.at = "find" /\ m.op = t.op /\ m.enterprise = t.enterprise
        BY <1>0 DEF Sound, Tasks
      <4> HIDE DEF m
      <4>3. Sound(m, config, DOMAIN document')
        BY <2>1, <4>1, <4>2 DEF Sound
      <4>4. QED
        BY <3>2, <4>3 DEF m
    <3>3. QED
      BY <3>1, <3>2
  <2> HIDE DEF n
  <2>8. QED
    BY <1>0, <2>2, <2>5, <2>6, <2>7, MoveKeepsInv DEF TypeOK
<1>13. CASE DeleteWrite(s)
  <2> DEFINE d == t.document
             row == [document[d] EXCEPT !.isActive = FALSE]
  <2>1. d \in DOMAIN document
    BY <1>0, <1>13 DEF DeleteWrite, Sound
  <2>2. d \in 1..Len(document)
    BY <1>0, <2>1, LenProperties DEF TypeOK
  <2>3. row \in Documents
    <3>1. document[d] \in Documents
      BY <1>0, <2>2, ElementOfSeq DEF TypeOK
    <3>2. QED
      BY <3>1 DEF Documents
  <2>4. document' = [document EXCEPT ![d] = row]
    BY <1>13 DEF DeleteWrite
  <2> HIDE DEF row, d
  <2>5. document' \in Seq(Documents) /\ Len(document') = Len(document)
    BY <1>0, <2>2, <2>3, <2>4, ExceptSeq DEF TypeOK
  <2>6. QED
    BY <1>0, <1>13, <2>5, MoveKeepsInv DEF DeleteWrite, TypeOK
<1>14. CASE Fails(s)
  BY <1>0, <1>14, QuietKeepsInv DEF Fails
<1>15. QED
  BY <1>1, <1>2, <1>4, <1>5, <1>6, <1>7, <1>8, <1>9, <1>10, <1>11, <1>12, <1>13, <1>14
     DEF Step

LEMMA InvHolds == Spec => []Inv
<1>1. Init => Inv
  <2> SUFFICES ASSUME Init PROVE Inv
    OBVIOUS
  <2>1. document \in Seq(Documents) /\ Len(document) = 0
    BY EmptySeq DEF Init
  <2>2. TypeOK
    BY <2>1, IdleType, VerificationAssumption DEF VerificationAssumption, Init, TypeOK
  <2>3. QED
    BY <2>2, IdleIsSound DEF Inv, Init
<1>2. Inv /\ [Next]_vars => Inv'
  <2> SUFFICES ASSUME Inv, [Next]_vars PROVE Inv'
    OBVIOUS
  <2>1. ASSUME NEW s \in ConfigSlots, Step(s) PROVE Inv'
    BY <2>1, StepKeepsInv
  <2>2. ASSUME NEW e \in Enterprises, ExpireCode(e) PROVE Inv'
    BY <2>2 DEF ExpireCode, Inv, TypeOK
  <2>3. CASE Crash
    BY <2>3, IdleType, IdleIsSound DEF Crash, Inv, TypeOK
  <2>4. CASE UNCHANGED vars
    BY <2>4 DEF vars, Inv, TypeOK
  <2>5. QED
    BY <2>1, <2>2, <2>3, <2>4 DEF Next
<1>3. QED
  BY <1>1, <1>2, PTL DEF Spec

\* Every variable keeps its type, however handlers overlap, fail and crash.
THEOREM VerificationTypeCorrect == Spec => []TypeOK
  BY InvHolds, PTL DEF Inv

-----------------------------------------------------------------------------
(* Who verifies an address owns it *)

Code(u, c) == [user |-> u, code |-> c]

\* What a handler in flight knows of the code it was sent.
Proven(t, made, sent) ==
    /\ t.at = "get" => Code(t.user, t.code) \in sent
    /\ t.at \in {"del", "user"} => Code(t.user, t.code) \in sent \cap made

\* A stored code was made for a user of that enterprise and address.
Made(e, made) ==
    stored[e] # NULL =>
        \E u \in Users : /\ EnterpriseOf[u] = e
                         /\ EmailOf[u] = stored[e].email
                         /\ Code(u, stored[e].code) \in made

OwnInv ==
    /\ Inv
    /\ VerifiedOwnsAddress
    /\ \A e \in Enterprises : Made(e, issued)
    /\ \A s \in ConfigSlots : Proven(task[s], issued, entered)

\* A handler that goes on, whatever it did to the configurations and documents.
LEMMA MoveKeepsOwn ==
    ASSUME OwnInv, Inv', NEW s \in ConfigSlots, NEW n, Becomes(s, n),
           Proven(n, issued', entered'),
           \A e \in Enterprises : Made(e, issued)',
           issued \subseteq issued', entered \subseteq entered', verified' = verified
    PROVE  OwnInv'
  <1>1. \A u \in ConfigSlots : Proven(task[u], issued', entered')
    BY DEF OwnInv, Proven
  <1>2. \A u \in ConfigSlots : Proven(task'[u], issued', entered')
    BY <1>1 DEF OwnInv, Inv, TypeOK, Becomes
  <1>3. VerifiedOwnsAddress'
    BY DEF OwnInv, VerifiedOwnsAddress
  <1>4. QED
    BY <1>2, <1>3 DEF OwnInv

\* One that goes on to where nothing of a code is known, and stores none.
LEMMA QuietKeepsOwn ==
    ASSUME OwnInv, Inv', NEW s \in ConfigSlots, NEW n, Becomes(s, n),
           n.at \notin {"get", "del", "user"},
           UNCHANGED <<stored, verified, issued, entered>>
    PROVE  OwnInv'
  <1>1. Proven(n, issued', entered')
    BY DEF Proven
  <1>2. \A e \in Enterprises : Made(e, issued)'
    BY DEF OwnInv, Made
  <1>3. QED
    BY <1>1, <1>2, MoveKeepsOwn

LEMMA StepKeepsOwn ==
    ASSUME OwnInv, Inv', NEW s \in ConfigSlots, Step(s)
    PROVE  OwnInv'
<1> DEFINE t == task[s]
<1>0. Inv /\ t \in Tasks /\ Sound(t, config, DOMAIN document) /\ Proven(t, issued, entered)
  BY DEF OwnInv, Inv, TypeOK
<1>1. CASE ConfigController(s)
  <2>1. PICK n : Begun(n) /\ Start(s, n) /\ Entered(n)
    BY <1>0, <1>1, RouteStarts DEF Inv
  <2>2. Becomes(s, n) /\ UNCHANGED <<stored, verified, issued>> /\ entered \subseteq entered'
    BY <2>1 DEF Start, Entered
  <2>3. Proven(n, issued', entered')
    BY <2>1 DEF Begun, Entered, Proven, Code
  <2>4. \A e \in Enterprises : Made(e, issued)'
    BY <2>2 DEF OwnInv, Made
  <2>5. QED
    BY <2>2, <2>3, <2>4, MoveKeepsOwn
<1>2. CASE SetCode(s)
  <2>1. t.op = "send" /\ t.user \in Users /\ t.enterprise = EnterpriseOf[t.user]
    BY <1>0, <1>2 DEF SetCode, Sound
  <2>2. /\ stored' = [stored EXCEPT ![t.enterprise] =
                          [email |-> EmailOf[t.user], code |-> t.code]]
        /\ issued' = issued \cup {Code(t.user, t.code)}
        /\ UNCHANGED <<verified, entered>>
        /\ Becomes(s, IdleTask)
    BY <1>2 DEF SetCode, Code
  <2>3. ASSUME NEW e \in Enterprises
        PROVE  Made(e, issued)'
    <3>1. CASE e = t.enterprise
      <4>1. stored'[e] = [email |-> EmailOf[t.user], code |-> t.code]
        BY <2>2, <3>1 DEF OwnInv, Inv, TypeOK
      <4>2. QED
        BY <2>1, <2>2, <3>1, <4>1 DEF Made
    <3>2. CASE e # t.enterprise
      <4>1. stored'[e] = stored[e]
        BY <2>2, <3>2 DEF OwnInv, Inv, TypeOK
      <4>2. QED
        BY <2>2, <4>1 DEF Made, OwnInv
    <3>3. QED
      BY <3>1, <3>2
  <2>4. Proven(IdleTask, issued', entered')
    BY IdleType DEF Proven
  <2>5. QED
    BY <2>2, <2>3, <2>4, MoveKeepsOwn
<1>3. CASE GetCode(s)
  <2> DEFINE n == [t EXCEPT !.at = "del"]
  <2>1. /\ t.at = "get" /\ t.user \in Users /\ t.code \in Codes
        /\ t.enterprise = EnterpriseOf[t.user] /\ t.enterprise \in Enterprises
        /\ stored[t.enterprise] = [email |-> EmailOf[t.user], code |-> t.code]
    BY <1>0, <1>3 DEF GetCode, Sound
  <2>2. stored[t.enterprise] # NULL
    <3>1. [email |-> EmailOf[t.user], code |-> t.code] \in StoredCodes
      BY <2>1, VerificationAssumption DEF VerificationAssumption, StoredCodes
    <3>2. QED
      BY <2>1, <3>1, VerificationAssumption DEF VerificationAssumption
  <2>3. PICK u \in Users : /\ EnterpriseOf[u] = t.enterprise
                           /\ EmailOf[u] = EmailOf[t.user]
                           /\ Code(u, t.code) \in issued
    BY <2>1, <2>2 DEF OwnInv, Made
  <2>4. u = t.user
    BY <2>1, <2>3, VerificationAssumption DEF VerificationAssumption
  <2>5. Becomes(s, n) /\ UNCHANGED <<stored, verified, issued, entered>>
    BY <1>3 DEF GetCode, Goes
  <2>6. n.at = "del" /\ n.user = t.user /\ n.code = t.code
    BY <1>0 DEF Tasks
  <2>7. Proven(n, issued', entered')
    BY <1>0, <2>1, <2>3, <2>4, <2>5, <2>6 DEF Proven
  <2>8. \A e \in Enterprises : Made(e, issued)'
    BY <2>5 DEF OwnInv, Made
  <2>9. QED
    BY <2>5, <2>7, <2>8, MoveKeepsOwn
<1>4. CASE DelCode(s)
  <2> DEFINE n == [t EXCEPT !.at = "user"]
  <2>1. t.at = "del" /\ Becomes(s, n) /\ UNCHANGED <<verified, issued, entered>>
        /\ stored' = [stored EXCEPT ![t.enterprise] = NULL]
    BY <1>4 DEF DelCode, Goes
  <2>2. n.at = "user" /\ n.user = t.user /\ n.code = t.code
    BY <1>0 DEF Tasks
  <2>3. Proven(n, issued', entered')
    BY <1>0, <2>1, <2>2 DEF Proven
  <2>4. \A e \in Enterprises : Made(e, issued)'
    <3>1. \A e \in Enterprises : stored'[e] = NULL \/ stored'[e] = stored[e]
      BY <2>1 DEF OwnInv, Inv, TypeOK
    <3>2. QED
      BY <2>1, <3>1 DEF OwnInv, Made
  <2>5. QED
    BY <2>1, <2>3, <2>4, MoveKeepsOwn
<1>5. CASE VerifyUser(s)
  <2> DEFINE n == [t EXCEPT !.at = "config"]
  <2>1. t.at = "user" /\ Becomes(s, n) /\ UNCHANGED <<stored, issued, entered>>
        /\ verified' = [verified EXCEPT ![t.user] = TRUE]
    BY <1>5 DEF VerifyUser, Goes
  <2>2. n.at = "config"
    BY <1>0 DEF Tasks
  <2>3. t.user \in Users /\ t.code \in Codes /\ Code(t.user, t.code) \in entered \cap issued
    BY <1>0, <2>1 DEF Sound, Proven
  <2>4. VerifiedOwnsAddress'
    BY <2>1, <2>3 DEF OwnInv, Inv, TypeOK, VerifiedOwnsAddress, Code
  <2>5. \A u \in ConfigSlots : Proven(task'[u], issued', entered')
    BY <2>1, <2>2 DEF OwnInv, Inv, TypeOK, Becomes, Proven
  <2>6. \A e \in Enterprises : Made(e, issued)'
    BY <2>1 DEF OwnInv, Made
  <2>7. QED
    BY <2>4, <2>5, <2>6 DEF OwnInv
<1>6. CASE FindConfig(s)
  BY <1>0, <1>6, IdleType, QuietKeepsOwn DEF FindConfig, Goes, Continue, Tasks
<1>7. CASE CreateConfig(s)
  BY <1>0, <1>7, IdleType, QuietKeepsOwn DEF CreateConfig, Continue, Tasks
<1>8. CASE SelectConfig(s)
  BY <1>0, <1>8, QuietKeepsOwn DEF SelectConfig, Tasks
<1>9. CASE FindLatest(s)
  BY <1>0, <1>9, QuietKeepsOwn DEF FindLatest, Tasks
<1>10. CASE InsertDocument(s)
  BY <1>0, <1>10, IdleType, QuietKeepsOwn DEF InsertDocument, Tasks
<1>11. CASE WriteConfig(s) \/ DeleteWrite(s) \/ Fails(s)
  BY <1>11, IdleType, QuietKeepsOwn DEF WriteConfig, DeleteWrite, Fails
<1>12. QED
  BY <1>1, <1>2, <1>3, <1>4, <1>5, <1>6, <1>7, <1>8, <1>9, <1>10, <1>11 DEF Step

\* A user's address is only verified by that user sending back a code made for
\* that address, whatever the users who share the enterprise's one key do
\* meanwhile (verifyEmailCode).
THEOREM OnlyOwnersVerify == Spec => []VerifiedOwnsAddress
<1>1. Inv /\ Init => OwnInv
  BY IdleType DEF Init, OwnInv, VerifiedOwnsAddress, Made, Proven
<1>2. Inv' /\ OwnInv /\ [Next]_vars => OwnInv'
  <2> SUFFICES ASSUME Inv', OwnInv, [Next]_vars PROVE OwnInv'
    OBVIOUS
  <2>1. ASSUME NEW s \in ConfigSlots, Step(s) PROVE OwnInv'
    BY <2>1, StepKeepsOwn
  <2>2. ASSUME NEW e \in Enterprises, ExpireCode(e) PROVE OwnInv'
    <3>1. \A f \in Enterprises : stored'[f] = NULL \/ stored'[f] = stored[f]
      BY <2>2 DEF ExpireCode, OwnInv, Inv, TypeOK
    <3>2. \A f \in Enterprises : Made(f, issued)'
      BY <2>2, <3>1 DEF ExpireCode, OwnInv, Made
    <3>3. QED
      BY <2>2, <3>2 DEF ExpireCode, OwnInv, VerifiedOwnsAddress
  <2>3. CASE Crash
    BY <2>3, IdleType DEF Crash, OwnInv, VerifiedOwnsAddress, Made, Proven
  <2>4. CASE UNCHANGED vars
    BY <2>4 DEF vars, OwnInv, VerifiedOwnsAddress, Made
  <2>5. QED
    BY <2>1, <2>2, <2>3, <2>4 DEF Next
<1>3. OwnInv => VerifiedOwnsAddress
  BY DEF OwnInv
<1>4. QED
  BY <1>1, <1>2, <1>3, InvHolds, PTL DEF Spec

-----------------------------------------------------------------------------
(* Handlers that do not overlap *)

\* At most one slot runs handlers of the first kind, and none runs one of the
\* second kind beside it.
Apart(first, second) ==
    \A s, u \in ConfigSlots :
        /\ ConfigWorkload[s] \cap first # {}
        /\ ConfigWorkload[u] \cap (first \cup second) # {}
        => s = u

Working == \A s \in ConfigSlots : task[s].op \in ConfigWorkload[s] \cup {"none"}

\* A step of a slot is one of no other, and only a route gives it a new handler.
LEMMA StepIsOfOneSlot ==
    ASSUME Inv, NEW s \in ConfigSlots, Step(s)
    PROVE  /\ \A u \in ConfigSlots \ {s} : task'[u] = task[u]
           /\ \/ /\ task'[s].op \in ConfigWorkload[s]
                 /\ Begun(task'[s])
                 /\ UNCHANGED <<config, document>>
              \/ task'[s].op = task[s].op
              \/ task'[s] = IdleTask
<1> DEFINE t == task[s]
<1>0. t \in Tasks /\ TypeOK
  BY DEF Inv, TypeOK
<1>1. CASE ConfigController(s)
  <2>1. PICK n : Begun(n) /\ Start(s, n)
    BY <1>0, <1>1, RouteStarts
  <2>2. task' = [task EXCEPT ![s] = n] /\ n.op \in ConfigWorkload[s]
        /\ UNCHANGED <<config, document>>
    BY <2>1 DEF Start, Becomes
  <2>3. QED
    BY <1>0, <2>1, <2>2 DEF TypeOK
<1>2. ASSUME NEW n, Becomes(s, n), n = IdleTask \/ n.op = t.op
      PROVE  /\ \A u \in ConfigSlots \ {s} : task'[u] = task[u]
             /\ task'[s].op = t.op \/ task'[s] = IdleTask
  BY <1>0, <1>2 DEF TypeOK, Becomes
<1>3. CASE SetCode(s) \/ WriteConfig(s) \/ DeleteWrite(s) \/ Fails(s)
  BY <1>2, <1>3 DEF SetCode, WriteConfig, DeleteWrite, Fails
<1>4. CASE GetCode(s)
  BY <1>0, <1>2, <1>4 DEF GetCode, Goes, Tasks
<1>5. CASE DelCode(s)
  BY <1>0, <1>2, <1>5 DEF DelCode, Goes, Tasks
<1>6. CASE VerifyUser(s)
  BY <1>0, <1>2, <1>6 DEF VerifyUser, Goes, Tasks
<1>7. CASE FindConfig(s)
  BY <1>0, <1>2, <1>7 DEF FindConfig, Continue, Goes, Tasks
<1>8. CASE CreateConfig(s)
  BY <1>0, <1>2, <1>8 DEF CreateConfig, Continue, Tasks
<1>9. CASE SelectConfig(s)
  BY <1>0, <1>2, <1>9 DEF SelectConfig, Tasks
<1>10. CASE FindLatest(s)
  BY <1>0, <1>2, <1>10 DEF FindLatest, Tasks
<1>11. CASE InsertDocument(s)
  BY <1>0, <1>2, <1>11 DEF InsertDocument, Tasks
<1>12. QED
  BY <1>1, <1>3, <1>4, <1>5, <1>6, <1>7, <1>8, <1>9, <1>10, <1>11 DEF Step

LEMMA StepKeepsWorking ==
    ASSUME Inv, Working, NEW s \in ConfigSlots, Step(s)
    PROVE  Working'
  BY StepIsOfOneSlot, IdleType DEF Working

LEMMA WorkingHolds == Spec => []Working
<1>1. Init => Working
  BY IdleType DEF Init, Working
<1>2. Inv /\ Working /\ [Next]_vars => Working'
  BY StepKeepsWorking, IdleType DEF Next, ExpireCode, Crash, vars, Working
<1>3. QED
  BY <1>1, <1>2, InvHolds, PTL DEF Spec

-----------------------------------------------------------------------------
(* The row agrees with the last decision *)

DecisionColumns == Columns \ {"look"}

\* What DecisionIsRecorded says of a configuration.
Consistent(row) ==
    /\ row.isVerified <=> row.verificationStatus = "verified"
    /\ row.isVerified => row.verifiedBy # NULL
    /\ row.verificationStatus = "rejected" => row.rejectionReason # NULL

Agree(row, other) == \A c \in DecisionColumns : row[c] = other[c]

\* A handler that has loaded the row still has its decision; one that is about
\* to write leaves it alone, or writes all of its own.
UpToDate(t, configs) ==
    /\ t.at = "assign" => Agree(t.entity, configs[t.enterprise])
    /\ t.at = "write" /\ t.op = "edit" => t.cols \cap DecisionColumns = {}
    /\ t.at = "write" /\ t.op = "decide" =>
          /\ Consistent(t.entity)
          /\ \A c \in DecisionColumns \ t.cols : t.entity[c] = configs[t.enterprise][c]

DecidedInv ==
    /\ DecisionIsRecorded
    /\ \A s \in ConfigSlots : UpToDate(task[s], config)

\* What a decision makes of a row, its refusals aside.
LEMMA DecisionIsConsistent ==
    ASSUME NEW row \in Configs, NEW status \in VerificationStatus,
           NEW reason \in {"reason", NULL}, NEW a \in SuperAdmins,
           Decided(status, reason, a).rejectionReason # NULL
    PROVE  Consistent(Merged(row, Decided(status, reason, a)))
<1> DEFINE asked == Decided(status, reason, a)
           row2 == Merged(row, asked)
<1>1. /\ asked.verificationStatus = status
      /\ asked.isVerified = (status = "verified")
      /\ status = "rejected" => asked.rejectionReason = "reason" /\ "reason" # NULL
      /\ status = "verified" => asked.verifiedBy = a
  BY DEF Decided
<1>2. /\ row2.verificationStatus = status
      /\ row2.isVerified = (status = "verified")
      /\ status = "rejected" => row2.rejectionReason = "reason"
      /\ status = "verified" => row2.verifiedBy = a
  BY <1>1, VerificationAssumption
     DEF VerificationAssumption, Merged, Columns, Decided
<1>3. QED
  BY <1>1, <1>2, VerificationAssumption DEF VerificationAssumption, Consistent

LEMMA UpToDateElsewhere ==
    ASSUME NEW t, NEW configs, t.at \notin {"assign", "write"}
    PROVE  UpToDate(t, configs)
  BY DEF UpToDate

\* A step that keeps what is decided, taken by a handler that is up to date after it.
LEMMA MoveKeepsDecided ==
    ASSUME Inv, DecidedInv, NEW s \in ConfigSlots, Step(s), UpToDate(task'[s], config'),
           UNCHANGED config
    PROVE  DecidedInv'
  BY StepIsOfOneSlot DEF DecidedInv, DecisionIsRecorded

\* Equal decisions are consistent together.
LEMMA ConsistentTogether ==
    ASSUME NEW row, NEW other, Agree(row, other), Consistent(row)
    PROVE  Consistent(other)
  BY DEF Agree, Consistent, DecisionColumns, Columns

LEMMA CreateKeepsDecided ==
    ASSUME Inv, DecidedInv, NEW s \in ConfigSlots, CreateConfig(s)
    PROVE  DecidedInv'
<1> DEFINE t == task[s]
           e == t.enterprise
           n == IF t.op = "verify" THEN IdleTask
                ELSE [t EXCEPT !.at = "assign", !.entity = DefaultConfig]
<1>1. /\ t \in Tasks /\ t.at = "create" /\ e \in Enterprises /\ config[e] = NULL
      /\ config' = [config EXCEPT ![e] = DefaultConfig]
      /\ task' = [task EXCEPT ![s] = n]
  BY DEF CreateConfig, Continue, Becomes, Inv, Sound
<1>2. n = IdleTask \/ /\ n.at = "assign" /\ n.entity = DefaultConfig
                      /\ n.enterprise = e
  BY <1>1 DEF Tasks
<1> HIDE DEF n
<1>3. config'[e] = DefaultConfig /\ \A f \in Enterprises \ {e} : config'[f] = config[f]
  BY <1>1 DEF Inv, TypeOK
<1>4. DecisionIsRecorded'
  <2>1. Consistent(DefaultConfig)
    BY DEF Consistent, DefaultConfig
  <2>2. QED
    BY <1>3, <2>1 DEF DecidedInv, DecisionIsRecorded, Consistent
<1>5. UpToDate(n, config')
  BY <1>2, <1>3, IdleType DEF UpToDate, Agree
<1>6. ASSUME NEW u \in ConfigSlots
      PROVE  UpToDate(task[u], config')
  <2>1. CASE task[u].at \notin {"assign", "write"}
    BY <2>1, UpToDateElsewhere
  <2>2. CASE task[u].at \in {"assign", "write"}
    <3>1. task[u].enterprise \in Enterprises /\ config[task[u].enterprise] \in Configs
      BY <2>2 DEF Inv, Sound
    <3>2. task[u].enterprise # e
      BY <1>1, <3>1, VerificationAssumption DEF VerificationAssumption
    <3>3. QED
      BY <1>3, <3>1, <3>2 DEF DecidedInv, UpToDate
  <2>3. QED
    BY <2>1, <2>2
<1>7. \A u \in ConfigSlots : UpToDate(task'[u], config')
  BY <1>1, <1>5, <1>6 DEF Inv, TypeOK
<1>8. QED
  BY <1>4, <1>7 DEF DecidedInv

LEMMA SelectKeepsDecided ==
    ASSUME Inv, DecidedInv, NEW s \in ConfigSlots, SelectConfig(s)
    PROVE  DecidedInv'
<1> DEFINE t == task[s]
           row == config[t.enterprise]
           entity == Merged(t.entity, t.asked)
           cols == Changed(entity, row)
           n == [t EXCEPT !.at = "write", !.entity = entity, !.cols = cols]
<1>1. /\ t \in Tasks /\ t.at = "assign" /\ t.entity \in Configs /\ row \in Configs
      /\ t.op \in {"decide", "edit"}
      /\ t.op = "decide" => t.asked.rejectionReason # NULL
      /\ Becomes(s, n) /\ UNCHANGED config
      /\ Agree(t.entity, row)
  BY DEF SelectConfig, Inv, Sound, DecidedInv, UpToDate
<1>2. cols = {c \in Columns : entity[c] # row[c]}
  BY <1>1 DEF Changed, Configs, Columns
<1>3. /\ n.at = "write" /\ n.op = t.op /\ n.enterprise = t.enterprise
      /\ n.entity = entity /\ n.cols = cols
  BY <1>1 DEF Tasks
<1> HIDE DEF n, cols
<1>4. ASSUME t.op = "edit"
      PROVE  UpToDate(n, config)
  <2>1. t.asked \in [look : Looks]
    BY <1>4 DEF Inv, Sound
  <2>2. \A c \in DecisionColumns : entity[c] = t.entity[c]
    BY <2>1 DEF Merged, DecisionColumns, Columns
  <2>3. cols \cap DecisionColumns = {}
    BY <1>1, <1>2, <2>2 DEF Agree
  <2>4. QED
    BY <1>3, <1>4, <2>3 DEF UpToDate
<1>5. ASSUME t.op = "decide"
      PROVE  UpToDate(n, config)
  <2>1. PICK status \in VerificationStatus, reason \in {"reason", NULL}, a \in SuperAdmins :
           t.asked = Decided(status, reason, a)
    BY <1>5 DEF Inv, Sound
  <2>2. Consistent(entity)
    BY <1>1, <1>5, <2>1, DecisionIsConsistent
  <2> HIDE DEF entity
  <2>3. \A c \in DecisionColumns \ cols : entity[c] = row[c]
    BY <1>2 DEF DecisionColumns
  <2>4. QED
    BY <1>3, <1>5, <2>2, <2>3 DEF UpToDate
<1>6. UpToDate(n, config)
  BY <1>1, <1>4, <1>5
<1>7. \A u \in ConfigSlots : UpToDate(task'[u], config')
  BY <1>1, <1>6 DEF DecidedInv, Inv, TypeOK, Becomes
<1>8. QED
  BY <1>1, <1>7 DEF DecidedInv, DecisionIsRecorded

LEMMA WriteKeepsDecided ==
    ASSUME Apart({"decide"}, {"edit"}), Inv, Working, DecidedInv,
           NEW s \in ConfigSlots, WriteConfig(s)
    PROVE  DecidedInv'
<1> DEFINE t == task[s]
           e == t.enterprise
           row == config[e]
           new == Written(row, t.entity, t.cols)
<1>1. /\ t \in Tasks /\ t.at = "write" /\ t.entity \in Configs /\ row \in Configs
      /\ e \in Enterprises /\ t.op \in {"decide", "edit"}
      /\ task' = [task EXCEPT ![s] = IdleTask]
      /\ config' = [config EXCEPT ![e] = new]
      /\ UpToDate(t, config)
  BY DEF WriteConfig, Becomes, Inv, Sound, DecidedInv
<1>2. \A c \in DecisionColumns : new[c] = IF c \in t.cols THEN t.entity[c] ELSE row[c]
  BY <1>1 DEF Written, Configs, DecisionColumns, Columns
<1> HIDE DEF new
<1>3. config'[e] = new /\ \A f \in Enterprises \ {e} : config'[f] = config[f]
  BY <1>1 DEF Inv, TypeOK
<1>4. row # NULL
  BY <1>1, VerificationAssumption DEF VerificationAssumption
<1>5. Consistent(row)
  BY <1>1, <1>4 DEF DecidedInv, DecisionIsRecorded, Consistent
<1>6. ASSUME t.op = "edit"
      PROVE  Agree(row, new)
  BY <1>1, <1>2, <1>6 DEF UpToDate, Agree
<1>7. ASSUME t.op = "decide"
      PROVE  Agree(t.entity, new) /\ Consistent(t.entity)
  BY <1>1, <1>2, <1>7 DEF UpToDate, Agree
<1>8. Consistent(new)
  BY <1>1, <1>5, <1>6, <1>7, ConsistentTogether
<1>9. DecisionIsRecorded'
  BY <1>3, <1>8 DEF DecidedInv, DecisionIsRecorded, Consistent
<1>10. ASSUME NEW u \in ConfigSlots \ {s}
       PROVE  UpToDate(task[u], config')
  <2>1. CASE task[u].at \notin {"assign", "write"}
    BY <2>1, UpToDateElsewhere
  <2>2. CASE task[u].at \in {"assign", "write"}
    <3>1. /\ task[u].enterprise \in Enterprises
          /\ task[u].op \in {"decide", "edit"} \cap ConfigWorkload[u]
          /\ UpToDate(task[u], config)
      BY <2>2 DEF Inv, Sound, Working, DecidedInv
    <3>2. t.op = "edit"
      BY <1>1, <3>1 DEF Working, Apart
    <3>3. \A c \in DecisionColumns :
             config'[task[u].enterprise][c] = config[task[u].enterprise][c]
      BY <1>3, <1>6, <3>1, <3>2 DEF Agree
    <3>4. QED
      BY <3>1, <3>3 DEF UpToDate, Agree
  <2>3. QED
    BY <2>1, <2>2
<1>11. UpToDate(IdleTask, config')
  BY IdleType, UpToDateElsewhere
<1>12. \A u \in ConfigSlots : UpToDate(task'[u], config')
  BY <1>1, <1>10, <1>11 DEF Inv, TypeOK
<1>13. QED
  BY <1>9, <1>12 DEF DecidedInv

\* If decisions overlap neither each other nor an edit, every configuration
\* agrees with the last decision, its flag, status, reason and author together
\* (updateVerificationStatus), though the save writes no undefined field.
THEOREM DecisionsAreRecorded ==
    ASSUME Apart({"decide"}, {"edit"})
    PROVE  Spec => []DecisionIsRecorded
<1>1. Init => DecidedInv
  BY IdleType, UpToDateElsewhere DEF Init, DecidedInv, DecisionIsRecorded
<1>2. Inv /\ Working /\ DecidedInv /\ [Next]_vars => DecidedInv'
  <2> SUFFICES ASSUME Inv, Working, DecidedInv, [Next]_vars PROVE DecidedInv'
    OBVIOUS
  <2>1. ASSUME NEW s \in ConfigSlots, Step(s) PROVE DecidedInv'
    <3> DEFINE t == task[s]
    <3>0. t \in Tasks /\ Sound(t, config, DOMAIN document)
      BY DEF Inv, TypeOK
    <3>1. CASE CreateConfig(s)
      BY <3>1, CreateKeepsDecided
    <3>2. CASE SelectConfig(s)
      BY <3>2, SelectKeepsDecided
    <3>3. CASE WriteConfig(s)
      BY <3>3, WriteKeepsDecided
    <3>4. CASE FindConfig(s)
      <4>1. CASE task'[s].at \notin {"assign", "write"}
        BY <2>1, <3>4, <4>1, UpToDateElsewhere, MoveKeepsDecided DEF FindConfig
      <4>2. CASE task'[s].at \in {"assign", "write"}
        <5>1. task'[s] = [t EXCEPT !.at = "assign", !.entity = config[t.enterprise]]
          BY <3>0, <3>4, <4>2, IdleType
             DEF FindConfig, Continue, Goes, Becomes, Inv, TypeOK, Tasks
        <5>2. /\ task'[s].at = "assign" /\ task'[s].enterprise = t.enterprise
              /\ task'[s].entity = config[t.enterprise]
          BY <3>0, <5>1 DEF Tasks
        <5>3. UpToDate(task'[s], config)
          BY <5>2 DEF UpToDate, Agree
        <5>4. QED
          BY <2>1, <3>4, <5>3, MoveKeepsDecided DEF FindConfig
      <4>3. QED
        BY <4>1, <4>2
    <3>5. ASSUME UNCHANGED config, task'[s].at \notin {"assign", "write"}
          PROVE  DecidedInv'
      BY <2>1, <3>5, UpToDateElsewhere, MoveKeepsDecided
    <3>6. CASE ConfigController(s)
      <4>1. PICK n : Begun(n) /\ Start(s, n)
        BY <3>6, RouteStarts DEF Inv
      <4>2. task'[s] = n /\ UNCHANGED config /\ n.at \notin {"assign", "write"}
        BY <4>1 DEF Begun, Start, Becomes, Inv, TypeOK
      <4>3. QED
        BY <3>5, <4>2
    <3>7. CASE SetCode(s) \/ DeleteWrite(s) \/ Fails(s)
      BY <3>5, <3>7, IdleType DEF SetCode, DeleteWrite, Fails, Becomes, Inv, TypeOK
    <3>8. CASE GetCode(s) \/ DelCode(s) \/ VerifyUser(s)
      BY <3>0, <3>5, <3>8 DEF GetCode, DelCode, VerifyUser, Goes, Becomes, Inv, TypeOK, Tasks
    <3>9. CASE FindLatest(s)
      BY <3>0, <3>5, <3>9 DEF FindLatest, Becomes, Inv, TypeOK, Tasks
    <3>10. CASE InsertDocument(s)
      BY <3>0, <3>5, <3>10, IdleType DEF InsertDocument, Becomes, Inv, TypeOK, Tasks
    <3>11. QED
      BY <2>1, <3>1, <3>2, <3>3, <3>4, <3>6, <3>7, <3>8, <3>9, <3>10 DEF Step
  <2>2. ASSUME NEW e \in Enterprises, ExpireCode(e) PROVE DecidedInv'
    BY <2>2 DEF ExpireCode, DecidedInv, DecisionIsRecorded
  <2>3. CASE Crash
    BY <2>3, IdleType, UpToDateElsewhere DEF Crash, DecidedInv, DecisionIsRecorded
  <2>4. CASE UNCHANGED vars
    BY <2>4 DEF vars, DecidedInv, DecisionIsRecorded
  <2>5. QED
    BY <2>1, <2>2, <2>3, <2>4 DEF Next
<1>3. DecidedInv => DecisionIsRecorded
  BY DEF DecidedInv
<1>4. QED
  BY <1>1, <1>2, <1>3, InvHolds, WorkingHolds, PTL DEF Spec

-----------------------------------------------------------------------------
(* Versions follow uploads *)

\* An upload that has computed a version is above all documents it looked at.
Above(t, docs) ==
    t.at = "insert" =>
        \A d \in DOMAIN docs :
            /\ docs[d].enterprise = t.enterprise
            /\ docs[d].type = DocumentTypes[t.next]
            /\ docs[d].isActive
            => docs[d].version < t.version

VersionInv == VersionsFollowUploads /\ \A s \in ConfigSlots : Above(task[s], document)

LEMMA AboveElsewhere ==
    ASSUME NEW t, NEW docs, t.at # "insert"
    PROVE  Above(t, docs)
  BY DEF Above

\* A step that keeps the documents.
LEMMA MoveKeepsVersions ==
    ASSUME Inv, VersionInv, NEW s \in ConfigSlots, Step(s), Above(task'[s], document),
           UNCHANGED document
    PROVE  VersionInv'
  BY StepIsOfOneSlot DEF VersionInv, VersionsFollowUploads

LEMMA InsertKeepsVersions ==
    ASSUME Apart({"upload"}, {}), Inv, Working, VersionInv,
           NEW s \in ConfigSlots, InsertDocument(s)
    PROVE  VersionInv'
<1> DEFINE t == task[s]
           new == [enterprise |-> t.enterprise, type |-> DocumentTypes[t.next],
                   version |-> t.version, isActive |-> TRUE]
           last == Len(document) + 1
<1>1. /\ t \in Tasks /\ t.at = "insert" /\ t.op = "upload" /\ Above(t, document)
      /\ t.enterprise \in Enterprises
      /\ document \in Seq(Documents) /\ document' = Append(document, new)
      /\ Step(s)
  BY DEF InsertDocument, Inv, TypeOK, Sound, VersionInv, Step
<1>2. new \in Documents
  BY <1>1 DEF Documents, Tasks
<1>3. /\ new.enterprise = t.enterprise /\ new.type = DocumentTypes[t.next]
      /\ new.version = t.version /\ new.isActive
  OBVIOUS
<1> HIDE DEF new
<1>4. /\ document' \in Seq(Documents) /\ Len(document') = last /\ document'[last] = new
      /\ \A d \in 1..Len(document) : document'[d] = document[d]
      /\ Len(document) \in Nat
      /\ DOMAIN document = 1..Len(document) /\ DOMAIN document' = 1..last
  BY <1>1, <1>2, AppendProperties, LenProperties
<1>5. VersionsFollowUploads'
  <2> SUFFICES ASSUME NEW c \in DOMAIN document', NEW d \in DOMAIN document', c < d,
                      document'[c].enterprise = document'[d].enterprise,
                      document'[c].type = document'[d].type,
                      document'[c].isActive, document'[d].isActive
               PROVE  document'[c].version < document'[d].version
    BY DEF VersionsFollowUploads
  <2>1. c \in DOMAIN document /\ document'[c] = document[c]
    BY <1>4
  <2>2. CASE d = last
    BY <1>1, <1>3, <1>4, <2>1, <2>2 DEF Above
  <2>3. CASE d # last
    <3>1. d \in DOMAIN document /\ document'[d] = document[d]
      BY <1>4, <2>3
    <3>2. QED
      BY <2>1, <3>1 DEF VersionInv, VersionsFollowUploads
  <2>4. QED
    BY <2>2, <2>3
<1>6. ASSUME NEW u \in ConfigSlots \ {s}
      PROVE  Above(task'[u], document')
  <2>1. task'[u] = task[u]
    BY <1>1, StepIsOfOneSlot
  <2>2. task[u].at = "insert" => task[u].op \in ConfigWorkload[u] \cap {"upload"}
    BY DEF Inv, Sound, Working
  <2>3. task[u].at # "insert"
    BY <1>1, <2>2 DEF Apart, Working
  <2>4. QED
    BY <2>1, <2>3, AboveElsewhere
<1>7. Above(task'[s], document')
  <2>1. task'[s] = IdleTask \/ task'[s] = [t EXCEPT !.at = "find", !.next = @ + 1]
    BY DEF InsertDocument, Becomes, Inv, TypeOK
  <2>2. task'[s].at # "insert"
    BY <1>1, <2>1, IdleType DEF Tasks
  <2>3. QED
    BY <2>2, AboveElsewhere
<1>8. QED
  BY <1>5, <1>6, <1>7 DEF VersionInv

LEMMA DeleteKeepsVersions ==
    ASSUME Inv, VersionInv, NEW s \in ConfigSlots, DeleteWrite(s)
    PROVE  VersionInv'
<1> DEFINE d == task[s].document
<1>1. /\ document' = [document EXCEPT ![d] = [document[d] EXCEPT !.isActive = FALSE]]
      /\ task' = [task EXCEPT ![s] = IdleTask]
      /\ d \in DOMAIN document
      /\ document \in Seq(Documents)
  BY DEF DeleteWrite, Becomes, Inv, TypeOK, Sound
<1>2. document[d] \in Documents
  BY <1>1, ElementOfSeq, LenProperties
<1>3. /\ DOMAIN document' = DOMAIN document
      /\ \A c \in DOMAIN document \ {d} : document'[c] = document[c]
      /\ ~ document'[d].isActive
  BY <1>1, <1>2 DEF Documents
<1>4. VersionsFollowUploads'
  BY <1>3 DEF VersionInv, VersionsFollowUploads
<1>5. \A u \in ConfigSlots : Above(task[u], document')
  BY <1>3 DEF VersionInv, Above
<1>6. Above(IdleTask, document')
  BY IdleType, AboveElsewhere
<1>7. \A u \in ConfigSlots : Above(task'[u], document')
  BY <1>1, <1>5, <1>6 DEF Inv, TypeOK
<1>8. QED
  BY <1>4, <1>7 DEF VersionInv

\* If uploads do not overlap, of two active documents of one type the one
\* uploaded later has the higher version, whatever is deleted and fails
\* meanwhile (createDocument).
THEOREM LaterVersionsAreHigher ==
    ASSUME Apart({"upload"}, {})
    PROVE  Spec => []VersionsFollowUploads
<1>1. Init => VersionInv
  BY IdleType, AboveElsewhere DEF Init, VersionInv, VersionsFollowUploads
<1>2. Inv /\ Working /\ VersionInv /\ [Next]_vars => VersionInv'
  <2> SUFFICES ASSUME Inv, Working, VersionInv, [Next]_vars PROVE VersionInv'
    OBVIOUS
  <2>1. ASSUME NEW s \in ConfigSlots, Step(s) PROVE VersionInv'
    <3> DEFINE t == task[s]
    <3>0. t \in Tasks /\ TypeOK
      BY DEF Inv, TypeOK
    <3>1. CASE InsertDocument(s)
      BY <3>1, InsertKeepsVersions
    <3>2. CASE DeleteWrite(s)
      BY <3>2, DeleteKeepsVersions
    <3>3. CASE FindLatest(s)
      <4> DEFINE D == Active(t.enterprise, DocumentTypes[t.next])
                 versions == {document[d].version : d \in D}
                 next == IF versions = {} THEN 1 ELSE Latest(versions) + 1
      <4>1. task'[s] = [t EXCEPT !.at = "insert", !.version = next] /\ UNCHANGED document
        BY <3>0, <3>3 DEF FindLatest, Becomes, TypeOK
      <4>2. \A d \in D : document[d].version < next
        BY <3>0, FoundVersion DEF Active, TypeOK
      <4> HIDE DEF next
      <4>3. /\ task'[s].enterprise = t.enterprise /\ task'[s].next = t.next
            /\ task'[s].version = next
        BY <3>0, <4>1 DEF Tasks
      <4>4. Above(task'[s], document)
        BY <4>2, <4>3 DEF Above, Active
      <4>5. QED
        BY <2>1, <4>1, <4>4, MoveKeepsVersions
    <3>4. ASSUME UNCHANGED document, task'[s].at # "insert"
          PROVE  VersionInv'
      BY <2>1, <3>4, AboveElsewhere, MoveKeepsVersions
    <3>5. CASE ConfigController(s)
      <4>1. PICK n : Begun(n) /\ Start(s, n)
        BY <3>5, RouteStarts DEF Inv
      <4>2. task'[s] = n /\ UNCHANGED document /\ n.at # "insert"
        BY <4>1 DEF Begun, Start, Becomes, Inv, TypeOK
      <4>3. QED
        BY <3>4, <4>2
    <3>6. CASE SetCode(s) \/ WriteConfig(s) \/ Fails(s)
      BY <3>4, <3>6, IdleType DEF SetCode, WriteConfig, Fails, Becomes, Inv, TypeOK
    <3>7. CASE GetCode(s) \/ DelCode(s) \/ VerifyUser(s)
      BY <3>0, <3>4, <3>7 DEF GetCode, DelCode, VerifyUser, Goes, Becomes, Inv, TypeOK, Tasks
    <3>8. CASE FindConfig(s)
      <4>1. /\ UNCHANGED document
            /\ \/ task'[s] = [t EXCEPT !.at = "create"]
               \/ task'[s] = IdleTask
               \/ task'[s] = [t EXCEPT !.at = "assign", !.entity = config[t.enterprise]]
        BY <3>0, <3>8 DEF FindConfig, Continue, Goes, Becomes, TypeOK
      <4>2. task'[s].at # "insert"
        BY <3>0, <4>1, IdleType DEF Tasks
      <4>3. QED
        BY <3>4, <4>1, <4>2
    <3>9. CASE CreateConfig(s)
      BY <3>0, <3>4, <3>9, IdleType DEF CreateConfig, Continue, Becomes, TypeOK, Tasks
    <3>10. CASE SelectConfig(s)
      BY <3>0, <3>4, <3>10 DEF SelectConfig, Becomes, TypeOK, Tasks
    <3>11. QED
      BY <2>1, <3>1, <3>2, <3>3, <3>5, <3>6, <3>7, <3>8, <3>9, <3>10 DEF Step
  <2>2. ASSUME NEW e \in Enterprises, ExpireCode(e) PROVE VersionInv'
    BY <2>2 DEF ExpireCode, VersionInv, VersionsFollowUploads
  <2>3. CASE Crash
    BY <2>3, IdleType, AboveElsewhere DEF Crash, VersionInv, VersionsFollowUploads
  <2>4. CASE UNCHANGED vars
    BY <2>4 DEF vars, VersionInv, VersionsFollowUploads
  <2>5. QED
    BY <2>1, <2>2, <2>3, <2>4 DEF Next
<1>3. VersionInv => VersionsFollowUploads
  BY DEF VersionInv
<1>4. QED
  BY <1>1, <1>2, <1>3, InvHolds, WorkingHolds, PTL DEF Spec
=============================================================================
