----------------------- MODULE UserPreferences_proofs -----------------------
(***************************************************************************)
(* Proofs about the preferences of the users and about the two modules     *)
(* that work on them, Notifications and Registration.                      *)
(***************************************************************************)
EXTENDS Notifications, Registration, TLAPS

-----------------------------------------------------------------------------
(* Preferences *)

\* The handlers that save a preference.
Writers == {"status", "config", "remove"}

\* What a handler of slot s in flight knows: rows appear and never go away.
SoundPref(s, t) ==
    /\ t.at # "idle" => t.op \in PrefWorkload[s] /\ t.user \in Users
    /\ t.at \in {"create", "select", "write"} => t.provider \in ProviderType
    /\ t.at = "create" => t.op \in {"get", "status", "config"}
    /\ t.at \in {"select", "write"} => t.op \in Writers /\ pref[t.user][t.provider] # NULL

PrefInv == PrefTypeOK /\ \A s \in PrefSlots : SoundPref(s, prefTask[s])

\* Every row there was is still there.
RowsStay ==
    \A u \in Users, p \in ProviderType : pref[u][p] # NULL => pref'[u][p] # NULL

LEMMA IdlePrefType ==
    /\ IdlePref \in PrefTasks
    /\ Disabled \in Preferences
    /\ IdlePref.at = "idle" /\ IdlePref.entity = Disabled /\ IdlePref.cols = {}
    /\ ~ Disabled.isEnabled
BY DEF IdlePref, PrefTasks, Disabled, Preferences

LEMMA NoRowIsNull == NULL \notin Preferences
BY PreferencesAssumption DEF PreferencesAssumption

LEMMA PrefTaskType ==
    ASSUME NEW t \in PrefTasks
    PROVE  t.at \in {"idle", "defaults", "create", "select", "write"}
BY DEF PrefTasks

LEMMA PrefMoves ==
    ASSUME PrefInv, NEW s \in PrefSlots, NEW t \in PrefTasks, PrefBecomes(s, t),
           pref' \in [Users -> [ProviderType -> Preferences \cup {NULL}]], RowsStay,
           t.at = "idle" \/ SoundPref(s, t) \/ SoundPref(s, t)'
    PROVE  PrefInv'
<1>1. prefTask \in [PrefSlots -> PrefTasks]
  BY DEF PrefInv, PrefTypeOK
<1>2. /\ prefTask' \in [PrefSlots -> PrefTasks]
      /\ prefTask'[s] = t
      /\ \A r \in PrefSlots \ {s} : prefTask'[r] = prefTask[r]
  BY <1>1 DEF PrefBecomes
<1>3. SoundPref(s, t)'
  BY PrefTaskType DEF SoundPref, RowsStay
<1>4. ASSUME NEW r \in PrefSlots, r # s
      PROVE  SoundPref(r, prefTask[r])'
  <2>1. SoundPref(r, prefTask[r])
    BY DEF PrefInv
  <2>2. QED
    BY <1>2, <1>4, <2>1 DEF SoundPref, RowsStay
<1>5. QED
  BY <1>2, <1>3, <1>4 DEF PrefInv, PrefTypeOK, SoundPref

\* What a handler that has its row goes on with: the row changed, or nothing.
Saved(t, row, n) ==
    /\ n.at = "select" /\ n.op \in Writers
    /\ n.op = t.op /\ n.user = t.user /\ n.provider = t.provider
    /\ (row.isEnabled => IsProviderConfigured(t.provider, row))
       => (n.entity.isEnabled => IsProviderConfigured(t.provider, n.entity))

LEMMA ProceedSaves ==
    ASSUME NEW s \in PrefSlots, NEW t \in PrefTasks, NEW row \in Preferences, Proceed(s, t, row),
           t.provider \in ProviderType
    PROVE  \E n \in PrefTasks : PrefBecomes(s, n) /\ (n = IdlePref \/ Saved(t, row, n))
<1> DEFINE n1 == [t EXCEPT !.at = "select", !.entity = [row EXCEPT !.isEnabled = t.enable]]
           n2 == [t EXCEPT !.at = "select", !.entity = [row EXCEPT !.config = @ \cup t.keys]]
<1>1. CASE t.op = "status" /\ MayEnable(t, row)
  <2>1. PrefBecomes(s, n1)
    BY <1>1 DEF Proceed
  <2>2. /\ n1 \in PrefTasks
        /\ n1.at = "select" /\ n1.op = t.op /\ n1.user = t.user /\ n1.provider = t.provider
        /\ n1.entity = [row EXCEPT !.isEnabled = t.enable]
    BY DEF PrefTasks, Preferences
  <2>3. n1.entity.isEnabled = t.enable /\ n1.entity.config = row.config
    BY <2>2 DEF Preferences
  <2>4. n1.entity.isEnabled => IsProviderConfigured(t.provider, n1.entity)
    BY <1>1, <2>3 DEF MayEnable, IsProviderConfigured, ProviderType
  <2>5. Saved(t, row, n1)
    BY <1>1, <2>2, <2>4 DEF Saved, Writers
  <2>6. QED
    BY <2>1, <2>2, <2>5
<1>2. CASE t.op = "config" /\ ValidateProviderConfig(t.provider, t.keys)
  <2>1. PrefBecomes(s, n2)
    BY <1>2 DEF Proceed
  <2>2. /\ n2 \in PrefTasks
        /\ n2.at = "select" /\ n2.op = t.op /\ n2.user = t.user /\ n2.provider = t.provider
        /\ n2.entity = [row EXCEPT !.config = @ \cup t.keys]
    BY DEF PrefTasks, Preferences
  <2>3. n2.entity.isEnabled = row.isEnabled /\ n2.entity.config = row.config \cup t.keys
    BY <2>2 DEF Preferences
  <2>4. IsProviderConfigured(t.provider, row) => IsProviderConfigured(t.provider, n2.entity)
    BY <2>3 DEF IsProviderConfigured, ProviderType
  <2>5. Saved(t, row, n2)
    BY <1>2, <2>2, <2>3, <2>4 DEF Saved, Writers
  <2>6. QED
    BY <2>1, <2>2, <2>5
<1>3. CASE /\ ~ (t.op = "status" /\ MayEnable(t, row))
           /\ ~ (t.op = "config" /\ ValidateProviderConfig(t.provider, t.keys))
  BY <1>3, IdlePrefType DEF Proceed
<1>4. QED
  BY <1>1, <1>2, <1>3

\* A handler that names a provider, before it has looked for the row.
Asked(s, t) ==
    /\ t \in PrefTasks
    /\ t.op \in PrefWorkload[s] /\ t.op \in {"get", "status", "config"}
    /\ t.user \in Users /\ t.provider \in ProviderType

LEMMA FindKeepsSound ==
    ASSUME PrefInv, NEW s \in PrefSlots, NEW t, Asked(s, t), FindOrCreateProvider(s, t)
    PROVE  PrefInv'
<1>1. pref \in [Users -> [ProviderType -> Preferences \cup {NULL}]] /\ pref' = pref
  BY DEF PrefInv, PrefTypeOK, FindOrCreateProvider
<1>2. RowsStay
  BY <1>1 DEF RowsStay
<1>3. CASE pref[t.user][t.provider] = NULL
  <2> DEFINE n == [t EXCEPT !.at = "create"]
  <2>1. PrefBecomes(s, n)
    BY <1>3 DEF FindOrCreateProvider
  <2>2. n \in PrefTasks /\ SoundPref(s, n)
    BY DEF Asked, PrefTasks, SoundPref
  <2>3. QED
    BY <1>1, <1>2, <2>1, <2>2, PrefMoves
<1>4. CASE pref[t.user][t.provider] # NULL
  <2>1. pref[t.user][t.provider] \in Preferences
    BY <1>1, <1>4 DEF Asked
  <2>2. Proceed(s, t, pref[t.user][t.provider])
    BY <1>4 DEF FindOrCreateProvider
  <2>3. PICK n \in PrefTasks :
             PrefBecomes(s, n) /\ (n = IdlePref \/ Saved(t, pref[t.user][t.provider], n))
    BY <2>1, <2>2, ProceedSaves DEF Asked
  <2>4. n.at = "idle" \/ SoundPref(s, n)
    BY <1>4, <2>3, IdlePrefType DEF Saved, SoundPref, Asked
  <2>5. QED
    BY <1>1, <1>2, <2>3, <2>4, PrefMoves
<1>5. QED
  BY <1>3, <1>4

LEMMA CreateKeepsSound ==
    ASSUME PrefInv, NEW s \in PrefSlots, CreateProvider(s)
    PROVE  PrefInv'
<1> DEFINE t == prefTask[s]
<1>1. /\ pref \in [Users -> [ProviderType -> Preferences \cup {NULL}]]
      /\ t \in PrefTasks /\ t.at = "create" /\ SoundPref(s, t)
  BY DEF PrefInv, PrefTypeOK, CreateProvider
<1>2. t.user \in Users /\ t.provider \in ProviderType
  BY <1>1 DEF SoundPref
<1>3. /\ pref' = [pref EXCEPT ![t.user][t.provider] = Disabled]
      /\ pref[t.user][t.provider] = NULL /\ Proceed(s, t, Disabled)
  BY DEF CreateProvider
<1>4. /\ pref' \in [Users -> [ProviderType -> Preferences \cup {NULL}]]
      /\ pref'[t.user][t.provider] = Disabled /\ RowsStay
  BY <1>1, <1>2, <1>3, IdlePrefType, NoRowIsNull DEF RowsStay
<1>5. PICK n \in PrefTasks : PrefBecomes(s, n) /\ (n = IdlePref \/ Saved(t, Disabled, n))
  BY <1>1, <1>2, <1>3, IdlePrefType, ProceedSaves
<1>6. CASE n = IdlePref
  BY <1>4, <1>5, <1>6, IdlePrefType, PrefMoves
<1>7. CASE Saved(t, Disabled, n)
  <2>1. SoundPref(s, n)'
    BY <1>1, <1>2, <1>4, <1>7, IdlePrefType, NoRowIsNull DEF Saved, SoundPref
  <2>2. QED
    BY <1>1, <1>4, <1>5, <2>1, PrefMoves
<1>8. QED
  BY <1>5, <1>6, <1>7

LEMMA DefaultsKeepRows ==
    ASSUME PrefTypeOK, NEW u \in Users, InsertDefaults(u)
    PROVE  pref' \in [Users -> [ProviderType -> Preferences \cup {NULL}]] /\ RowsStay
<1>1. DefaultProviders \in [ProviderType -> Preferences]
  <2>1. \A b \in BOOLEAN : [Disabled EXCEPT !.isEnabled = b] \in Preferences
    BY DEF Disabled, Preferences
  <2>2. \A p \in ProviderType : (p \in {"EMAIL", "WEBSOCKET"}) \in BOOLEAN
    OBVIOUS
  <2>3. QED
    BY <2>1, <2>2 DEF DefaultProviders
<1>2. \A p \in ProviderType : pref[u][p] = NULL
  BY DEF InsertDefaults, NoPreferences
<1>3. QED
  BY <1>1, <1>2 DEF PrefTypeOK, InsertDefaults, RowsStay

LEMMA WriteKeepsSound ==
    ASSUME PrefInv, NEW s \in PrefSlots, PrefSelect(s) \/ PrefWrite(s)
    PROVE  PrefInv'
<1> DEFINE t == prefTask[s]
           row == pref[t.user][t.provider]
<1>1. /\ pref \in [Users -> [ProviderType -> Preferences \cup {NULL}]]
      /\ t \in PrefTasks /\ SoundPref(s, t) /\ t.at \in {"select", "write"}
  BY DEF PrefInv, PrefTypeOK, PrefSelect, PrefWrite
<1>2. t.user \in Users /\ t.provider \in ProviderType /\ row \in Preferences
  BY <1>1 DEF SoundPref
<1>3. CASE PrefSelect(s)
  <2> DEFINE n == [t EXCEPT !.at = "write", !.cols = Changed(t.entity, row)]
  <2>1. PrefBecomes(s, n) /\ pref' = pref
    BY <1>3 DEF PrefSelect
  <2>2. Changed(t.entity, row) \in SUBSET {"isEnabled", "config"}
    BY <1>2 DEF Changed, Preferences
  <2>3. n \in PrefTasks /\ SoundPref(s, n)
    BY <1>1, <2>2 DEF PrefTasks, SoundPref
  <2>4. RowsStay
    BY <2>1 DEF RowsStay
  <2>5. QED
    BY <1>1, <2>1, <2>3, <2>4, PrefMoves
<1>4. CASE PrefWrite(s)
  <2>1. PrefBecomes(s, IdlePref)
        /\ pref' = [pref EXCEPT ![t.user][t.provider] = Written(row, t.entity, t.cols)]
    BY <1>1, <1>2, <1>4 DEF PrefWrite
  <2>2. t.entity \in Preferences
    BY <1>1 DEF PrefTasks
  <2>3. Written(row, t.entity, t.cols) \in Preferences
    BY <1>2, <2>2 DEF Written, Preferences
  <2>4. pref' \in [Users -> [ProviderType -> Preferences \cup {NULL}]] /\ RowsStay
    BY <1>1, <1>2, <2>1, <2>3, NoRowIsNull DEF RowsStay
  <2>5. QED
    BY <2>1, <2>4, IdlePrefType, PrefMoves
<1>5. QED
  BY <1>3, <1>4

LEMMA PrefGoesOnSoundly ==
    ASSUME PrefInv, NEW s \in PrefSlots, PrefGoesOn(s)
    PROVE  PrefInv'
<1>1. CASE ListDefaults(s)
  <2>1. prefTask[s].at = "defaults" /\ SoundPref(s, prefTask[s])
    BY <1>1 DEF ListDefaults, PrefInv
  <2>2. InsertDefaults(prefTask[s].user) /\ PrefBecomes(s, IdlePref)
        /\ prefTask[s].user \in Users
    BY <1>1, <2>1 DEF ListDefaults, SoundPref
  <2>3. QED
    BY <2>2, DefaultsKeepRows, IdlePrefType, PrefMoves DEF PrefInv
<1>2. CASE PrefFails(s)
  <2>1. PrefBecomes(s, IdlePref) /\ pref' = pref
    BY <1>2 DEF PrefFails
  <2>2. pref' \in [Users -> [ProviderType -> Preferences \cup {NULL}]] /\ RowsStay
    BY <2>1 DEF PrefInv, PrefTypeOK, RowsStay
  <2>3. QED
    BY <2>1, <2>2, IdlePrefType, PrefMoves
<1>3. QED
  BY <1>1, <1>2, CreateKeepsSound, WriteKeepsSound DEF PrefGoesOn

LEMMA KeysType ==
    ASSUME NEW p \in ProviderType
    PROVE  UpdateProviderConfigDto(p) \subseteq SUBSET ConfigKeys
BY DEF UpdateProviderConfigDto, ConfigKeys, ProviderType

\* The requests a user's routes make.
LEMMA RequestsAreAsked ==
    ASSUME NEW s \in PrefSlots, NEW u \in Users, NEW p \in ProviderType, NEW enable \in BOOLEAN,
           NEW keys \in SUBSET ConfigKeys, NEW op \in {"get", "status", "config"},
           op \in PrefWorkload[s]
    PROVE  /\ Asked(s, [IdlePref EXCEPT !.op = op, !.user = u, !.provider = p])
           /\ Asked(s, [IdlePref EXCEPT !.op = op, !.user = u, !.provider = p,
                                        !.enable = enable])
           /\ Asked(s, [IdlePref EXCEPT !.op = op, !.user = u, !.provider = p, !.keys = keys])
BY IdlePrefType DEF Asked, PrefTasks, PrefOps

\* Every route but the list and the removal looks for the row, or makes it.
LEMMA RoutesFind ==
    ASSUME NEW s \in PrefSlots, NEW U \in SUBSET Users, PreferencesController(s, U)
    PROVE  \/ \E t : Asked(s, t) /\ t.at = "idle" /\ FindOrCreateProvider(s, t)
           \/ \E u \in Users : \/ GetNotificationProviders(s, u)
                               \/ \E p \in ProviderType : RemoveProvider(s, u, p)
<1>1. PICK u \in U :
        \/ GetNotificationProviders(s, u)
        \/ \E p \in Named :
              \/ GetProvider(s, u, p)
              \/ \E enable \in BOOLEAN : UpdateProviderStatus(s, u, p, enable)
              \/ \E keys \in UpdateProviderConfigDto(p) : UpdateProviderConfig(s, u, p, keys)
              \/ RemoveProvider(s, u, p)
  BY DEF PreferencesController
<1>2. u \in Users /\ Named \subseteq ProviderType
  BY PreferencesAssumption DEF PreferencesAssumption
<1>3. ASSUME NEW p \in Named, GetProvider(s, u, p)
      PROVE  \E t : Asked(s, t) /\ t.at = "idle" /\ FindOrCreateProvider(s, t)
  <2> DEFINE t == [IdlePref EXCEPT !.op = "get", !.user = u, !.provider = p]
  <2>1. FindOrCreateProvider(s, t)
    BY <1>3 DEF GetProvider
  <2>2. t.op = "get" /\ t.at = "idle"
    BY DEF IdlePref
  <2>3. "get" \in PrefWorkload[s]
    BY <2>1, <2>2 DEF FindOrCreateProvider, MayStart
  <2>4. Asked(s, t)
    BY <1>2, <2>3, RequestsAreAsked
  <2>5. QED
    BY <2>1, <2>2, <2>4
<1>4. ASSUME NEW p \in Named, NEW enable \in BOOLEAN, UpdateProviderStatus(s, u, p, enable)
      PROVE  \E t : Asked(s, t) /\ t.at = "idle" /\ FindOrCreateProvider(s, t)
  <2> DEFINE t == [IdlePref EXCEPT !.op = "status", !.user = u, !.provider = p,
                                   !.enable = enable]
  <2>1. FindOrCreateProvider(s, t)
    BY <1>4 DEF UpdateProviderStatus
  <2>2. t.op = "status" /\ t.at = "idle"
    BY DEF IdlePref
  <2>3. "status" \in PrefWorkload[s]
    BY <2>1, <2>2 DEF FindOrCreateProvider, MayStart
  <2>4. Asked(s, t)
    BY <1>2, <2>3, RequestsAreAsked
  <2>5. QED
    BY <2>1, <2>2, <2>4
<1>5. ASSUME NEW p \in Named, NEW keys \in UpdateProviderConfigDto(p),
             UpdateProviderConfig(s, u, p, keys)
      PROVE  \E t : Asked(s, t) /\ t.at = "idle" /\ FindOrCreateProvider(s, t)
  <2> DEFINE t == [IdlePref EXCEPT !.op = "config", !.user = u, !.provider = p, !.keys = keys]
  <2>1. FindOrCreateProvider(s, t)
    BY <1>5 DEF UpdateProviderConfig
  <2>2. t.op = "config" /\ t.at = "idle"
    BY DEF IdlePref
  <2>3. "config" \in PrefWorkload[s]
    BY <2>1, <2>2 DEF FindOrCreateProvider, MayStart
  <2>4. keys \in SUBSET ConfigKeys
    BY <1>2, KeysType
  <2>5. Asked(s, t)
    BY <1>2, <2>3, <2>4, RequestsAreAsked
  <2>6. QED
    BY <2>1, <2>2, <2>5
<1>6. QED
  BY <1>1, <1>2, <1>3, <1>4, <1>5

LEMMA RoutesKeepSound ==
    ASSUME PrefInv, NEW s \in PrefSlots, NEW U \in SUBSET Users, PreferencesController(s, U)
    PROVE  PrefInv'
<1>0. pref' = pref => pref' \in [Users -> [ProviderType -> Preferences \cup {NULL}]] /\ RowsStay
  BY DEF PrefInv, PrefTypeOK, RowsStay
<1>1. ASSUME NEW u \in Users, GetNotificationProviders(s, u)
      PROVE  PrefInv'
  <2> DEFINE n == [IdlePref EXCEPT !.op = "list", !.at = "defaults", !.user = u]
  <2>1. PrefBecomes(s, n) /\ pref' = pref /\ "list" \in PrefWorkload[s]
    BY <1>1 DEF GetNotificationProviders, MayStart
  <2>2. n.op = "list" /\ n.at = "defaults" /\ n.user = u /\ n \in PrefTasks
    BY IdlePrefType DEF PrefTasks, PrefOps
  <2>3. SoundPref(s, n)
    BY <2>1, <2>2 DEF SoundPref
  <2>4. QED
    BY <1>0, <2>1, <2>2, <2>3, PrefMoves
<1>2. ASSUME NEW u \in Users, NEW p \in ProviderType, RemoveProvider(s, u, p)
      PROVE  PrefInv'
  <2> DEFINE n == [IdlePref EXCEPT !.op = "remove", !.at = "select", !.user = u,
                                   !.provider = p]
  <2>1. /\ PrefBecomes(s, n) /\ pref' = pref /\ "remove" \in PrefWorkload[s]
        /\ pref[u][p] # NULL
    BY <1>2 DEF RemoveProvider, MayStart
  <2>2. /\ n.op = "remove" /\ n.at = "select" /\ n.user = u /\ n.provider = p
        /\ n \in PrefTasks
    BY IdlePrefType DEF PrefTasks, PrefOps
  <2>3. SoundPref(s, n)
    BY <2>1, <2>2 DEF SoundPref, Writers
  <2>4. QED
    BY <1>0, <2>1, <2>2, <2>3, PrefMoves
<1>3. QED
  BY <1>1, <1>2, RoutesFind, FindKeepsSound

LEMMA PrefInitSound == PrefInit => PrefInv
BY IdlePrefType DEF PrefInit, PrefInv, PrefTypeOK, SoundPref, NoPreferences

LEMMA PrefFrameSound ==
    ASSUME PrefInv, UNCHANGED pref,
           prefTask' = [s \in PrefSlots |-> IdlePref] \/ UNCHANGED prefTask
    PROVE  PrefInv'
BY IdlePrefType DEF PrefInv, PrefTypeOK, SoundPref

-----------------------------------------------------------------------------
(* What is enabled is configured *)

\* The condition: all the saves of preferences are made in one slot.
OneWriter ==
    \A s, r \in PrefSlots :
        s # r /\ PrefWorkload[s] \cap Writers # {} => PrefWorkload[r] \cap Writers = {}

\* A handler that saves would leave the row as its entity is, and that entity
\* is enabled only with its configuration.
Ready(t) ==
    /\ t.at \in {"select", "write"} =>
          (t.entity.isEnabled => IsProviderConfigured(t.provider, t.entity))
    /\ t.at = "write" => t.cols = Changed(t.entity, pref[t.user][t.provider])

Configured == EnabledIsConfigured /\ \A s \in PrefSlots : Ready(prefTask[s])

\* No row there was is changed.
RowsKeep ==
    \A u \in Users, p \in ProviderType : pref[u][p] # NULL => pref'[u][p] = pref[u][p]

LEMMA ConfiguredMoves ==
    ASSUME PrefInv, Configured, NEW s \in PrefSlots, NEW t, PrefBecomes(s, t), RowsKeep,
           EnabledIsConfigured', Ready(t)'
    PROVE  Configured'
<1>1. prefTask'[s] = t /\ \A r \in PrefSlots \ {s} : prefTask'[r] = prefTask[r]
  BY DEF PrefInv, PrefTypeOK, PrefBecomes
<1>2. ASSUME NEW r \in PrefSlots, r # s
      PROVE  Ready(prefTask[r])'
  <2>1. SoundPref(r, prefTask[r]) /\ Ready(prefTask[r])
    BY DEF PrefInv, Configured
  <2>2. prefTask[r].at = "write" =>
            pref'[prefTask[r].user][prefTask[r].provider]
            = pref[prefTask[r].user][prefTask[r].provider]
    BY <2>1 DEF SoundPref, RowsKeep
  <2>3. QED
    BY <1>1, <1>2, <2>1, <2>2 DEF Ready
<1>3. Ready(prefTask[s])'
  BY <1>1 DEF Ready
<1>4. QED
  BY <1>2, <1>3 DEF Configured

LEMMA IdleIsReady == Ready(IdlePref) /\ Ready(IdlePref)'
BY IdlePrefType DEF Ready

\* A handler that has read row goes on soundly.
LEMMA SavedIsReady ==
    ASSUME NEW t, NEW row, NEW n, n = IdlePref \/ Saved(t, row, n),
           row.isEnabled => IsProviderConfigured(t.provider, row)
    PROVE  Ready(n)'
BY IdleIsReady DEF Saved, Ready

LEMMA FindKeepsConfigured ==
    ASSUME PrefInv, Configured, NEW s \in PrefSlots, NEW t, Asked(s, t), t.at = "idle",
           FindOrCreateProvider(s, t)
    PROVE  Configured'
<1> DEFINE row == pref[t.user][t.provider]
<1>1. pref' = pref
  BY DEF FindOrCreateProvider
<1>2. RowsKeep /\ EnabledIsConfigured'
  BY <1>1 DEF RowsKeep, Configured, EnabledIsConfigured
<1>3. CASE row = NULL
  <2> DEFINE n == [t EXCEPT !.at = "create"]
  <2>1. PrefBecomes(s, n)
    BY <1>3 DEF FindOrCreateProvider
  <2>2. n.at = "create"
    BY DEF Asked, PrefTasks
  <2> HIDE DEF n
  <2>3. Ready(n)'
    BY <2>2 DEF Ready
  <2>4. QED
    BY <1>2, <2>1, <2>3, ConfiguredMoves
<1>4. CASE row # NULL
  <2>1. row \in Preferences
    BY <1>4 DEF Asked, PrefInv, PrefTypeOK
  <2>2. Proceed(s, t, row)
    BY <1>4 DEF FindOrCreateProvider
  <2>3. PICK n \in PrefTasks : PrefBecomes(s, n) /\ (n = IdlePref \/ Saved(t, row, n))
    BY <2>1, <2>2, ProceedSaves DEF Asked
  <2>4. row.isEnabled => IsProviderConfigured(t.provider, row)
    BY <1>4 DEF Configured, EnabledIsConfigured, Asked
  <2>5. Ready(n)'
    BY <2>3, <2>4, SavedIsReady
  <2>6. QED
    BY <1>2, <2>3, <2>5, ConfiguredMoves
<1>5. QED
  BY <1>3, <1>4

LEMMA CreateKeepsConfigured ==
    ASSUME PrefInv, Configured, NEW s \in PrefSlots, CreateProvider(s)
    PROVE  Configured'
<1> DEFINE t == prefTask[s]
<1>1. /\ pref \in [Users -> [ProviderType -> Preferences \cup {NULL}]]
      /\ t \in PrefTasks /\ t.at = "create" /\ SoundPref(s, t)
  BY DEF PrefInv, PrefTypeOK, CreateProvider
<1>2. t.user \in Users /\ t.provider \in ProviderType
  BY <1>1 DEF SoundPref
<1>3. /\ pref' = [pref EXCEPT ![t.user][t.provider] = Disabled]
      /\ pref[t.user][t.provider] = NULL /\ Proceed(s, t, Disabled)
  BY DEF CreateProvider
<1>4. \A u \in Users, p \in ProviderType :
          pref'[u][p] = IF u = t.user /\ p = t.provider THEN Disabled ELSE pref[u][p]
  BY <1>1, <1>2, <1>3
<1>5. RowsKeep /\ EnabledIsConfigured'
  BY <1>3, <1>4, IdlePrefType DEF RowsKeep, Configured, EnabledIsConfigured
<1>6. PICK n \in PrefTasks : PrefBecomes(s, n) /\ (n = IdlePref \/ Saved(t, Disabled, n))
  BY <1>1, <1>2, <1>3, IdlePrefType, ProceedSaves
<1>7. Ready(n)'
  BY <1>6, IdlePrefType, SavedIsReady
<1>8. QED
  BY <1>5, <1>6, <1>7, ConfiguredMoves

LEMMA DefaultsKeepConfigured ==
    ASSUME PrefInv, EnabledIsConfigured, NEW u \in Users, InsertDefaults(u)
    PROVE  RowsKeep /\ EnabledIsConfigured'
<1>1. \A p \in ProviderType : pref[u][p] = NULL
  BY DEF InsertDefaults, NoPreferences
<1>2. \A v \in Users, p \in ProviderType :
          pref'[v][p] = IF v = u THEN DefaultProviders[p] ELSE pref[v][p]
  BY DEF InsertDefaults, PrefInv, PrefTypeOK
<1>3. \A p \in ProviderType :
          DefaultProviders[p].isEnabled => IsProviderConfigured(p, DefaultProviders[p])
  <2> SUFFICES ASSUME NEW p \in ProviderType, DefaultProviders[p].isEnabled
               PROVE  IsProviderConfigured(p, DefaultProviders[p])
    OBVIOUS
  <2>1. p \in {"EMAIL", "WEBSOCKET"}
    BY DEF DefaultProviders, Disabled
  <2>2. QED
    BY <2>1 DEF IsProviderConfigured
<1>4. QED
  BY <1>1, <1>2, <1>3 DEF RowsKeep, EnabledIsConfigured

LEMMA SelectKeepsConfigured ==
    ASSUME PrefInv, Configured, NEW s \in PrefSlots, PrefSelect(s)
    PROVE  Configured'
<1> DEFINE t == prefTask[s]
           row == pref[t.user][t.provider]
<1>1. t \in PrefTasks /\ t.at = "select" /\ Ready(t)
  BY DEF PrefInv, PrefTypeOK, PrefSelect, Configured
<1>2. pref' = pref /\ PrefBecomes(s, [t EXCEPT !.at = "write", !.cols = Changed(t.entity, row)])
  BY DEF PrefSelect
<1>3. PICK n : /\ PrefBecomes(s, n)
               /\ n.at = "write" /\ n.entity = t.entity
               /\ n.user = t.user /\ n.provider = t.provider
               /\ n.cols = Changed(t.entity, row)
  <2> DEFINE n == [t EXCEPT !.at = "write", !.cols = Changed(t.entity, row)]
  <2>1. /\ n.at = "write" /\ n.entity = t.entity /\ n.cols = Changed(t.entity, row)
        /\ n.user = t.user /\ n.provider = t.provider
    BY <1>1 DEF PrefTasks
  <2>2. QED
    BY <1>2, <2>1
<1>4. t.entity.isEnabled => IsProviderConfigured(t.provider, t.entity)
  BY <1>1 DEF Ready
<1>5. Ready(n)'
  BY <1>2, <1>3, <1>4 DEF Ready
<1>6. RowsKeep /\ EnabledIsConfigured'
  BY <1>2 DEF RowsKeep, Configured, EnabledIsConfigured
<1>7. QED
  BY <1>3, <1>5, <1>6, ConfiguredMoves

\* A save that nobody overtook makes the row its entity.
LEMMA WrittenIsEntity ==
    ASSUME NEW row \in Preferences, NEW entity \in Preferences
    PROVE  Written(row, entity, Changed(entity, row)) = entity
BY DEF Written, Changed, Preferences

LEMMA WriteKeepsConfigured ==
    ASSUME OneWriter, PrefInv, Configured, NEW s \in PrefSlots, PrefWrite(s)
    PROVE  Configured'
<1> DEFINE t == prefTask[s]
           row == pref[t.user][t.provider]
<1>1. /\ pref \in [Users -> [ProviderType -> Preferences \cup {NULL}]]
      /\ t \in PrefTasks /\ t.at = "write" /\ SoundPref(s, t) /\ Ready(t)
  BY DEF PrefInv, PrefTypeOK, PrefWrite, Configured
<1>2. /\ t.user \in Users /\ t.provider \in ProviderType /\ row \in Preferences
      /\ t.entity \in Preferences /\ t.op \in PrefWorkload[s] \cap Writers
  BY <1>1 DEF SoundPref, PrefTasks
<1>3. /\ pref' = [pref EXCEPT ![t.user][t.provider] = t.entity]
      /\ prefTask' = [prefTask EXCEPT ![s] = IdlePref]
  BY <1>1, <1>2, WrittenIsEntity DEF PrefWrite, PrefBecomes, Ready
<1>4. EnabledIsConfigured'
  <2>1. \A u \in Users, p \in ProviderType :
            pref'[u][p] = IF u = t.user /\ p = t.provider THEN t.entity ELSE pref[u][p]
    BY <1>1, <1>2, <1>3
  <2>2. QED
    BY <1>1, <2>1 DEF Configured, EnabledIsConfigured, Ready
<1>5. ASSUME NEW r \in PrefSlots
      PROVE  Ready(prefTask[r])'
  <2>1. CASE r = s
    <3>1. prefTask'[r] = IdlePref
      BY <1>3, <2>1 DEF PrefInv, PrefTypeOK
    <3>2. QED
      BY <3>1, IdlePrefType DEF Ready
  <2>2. CASE r # s
    <3>1. prefTask'[r] = prefTask[r] /\ SoundPref(r, prefTask[r])
      BY <1>3, <2>2 DEF PrefInv, PrefTypeOK
    <3>2. PrefWorkload[r] \cap Writers = {}
      BY <1>2, <2>2 DEF OneWriter
    <3>3. prefTask[r].at \notin {"select", "write"}
      BY <3>1, <3>2 DEF SoundPref
    <3>4. QED
      BY <3>1, <3>3 DEF Ready
  <2>3. QED
    BY <2>1, <2>2
<1>6. QED
  BY <1>4, <1>5 DEF Configured

LEMMA PreferencesStayConfigured ==
    ASSUME OneWriter, PrefInv, Configured, NEW s \in PrefSlots, NEW U \in SUBSET Users,
           PreferencesController(s, U) \/ PrefGoesOn(s)
    PROVE  Configured'
<1>0. pref' = pref => RowsKeep /\ EnabledIsConfigured'
  BY DEF RowsKeep, Configured, EnabledIsConfigured
<1>1. ASSUME NEW u \in Users, GetNotificationProviders(s, u)
      PROVE  Configured'
  <2> DEFINE n == [IdlePref EXCEPT !.op = "list", !.at = "defaults", !.user = u]
  <2>1. PrefBecomes(s, n) /\ pref' = pref
    BY <1>1 DEF GetNotificationProviders
  <2>2. n.at = "defaults"
    BY DEF IdlePref
  <2> HIDE DEF n
  <2>3. Ready(n)'
    BY <2>2 DEF Ready
  <2>4. QED
    BY <1>0, <2>1, <2>3, ConfiguredMoves
<1>2. ASSUME NEW u \in Users, NEW p \in ProviderType, RemoveProvider(s, u, p)
      PROVE  Configured'
  <2> DEFINE n == [IdlePref EXCEPT !.op = "remove", !.at = "select", !.user = u,
                                   !.provider = p]
  <2>1. PrefBecomes(s, n) /\ pref' = pref
    BY <1>2 DEF RemoveProvider
  <2>2. n.at = "select" /\ n.entity = Disabled
    BY DEF IdlePref
  <2> HIDE DEF n
  <2>3. Ready(n)'
    BY <2>2, IdlePrefType DEF Ready
  <2>4. QED
    BY <1>0, <2>1, <2>3, ConfiguredMoves
<1>3. CASE ListDefaults(s)
  <2>1. SoundPref(s, prefTask[s]) /\ prefTask[s].at = "defaults"
    BY <1>3 DEF ListDefaults, PrefInv
  <2>2. InsertDefaults(prefTask[s].user) /\ PrefBecomes(s, IdlePref)
        /\ prefTask[s].user \in Users
    BY <1>3, <2>1 DEF ListDefaults, SoundPref
  <2>3. QED
    BY <2>2, DefaultsKeepConfigured, IdleIsReady, ConfiguredMoves DEF Configured
<1>4. CASE PrefFails(s)
  <2>1. PrefBecomes(s, IdlePref) /\ pref' = pref
    BY <1>4 DEF PrefFails
  <2>2. QED
    BY <1>0, <2>1, IdleIsReady, ConfiguredMoves
<1>5. CASE \E t : Asked(s, t) /\ t.at = "idle" /\ FindOrCreateProvider(s, t)
  BY <1>5, FindKeepsConfigured
<1>6. QED
  BY <1>1, <1>2, <1>3, <1>4, <1>5, RoutesFind, CreateKeepsConfigured, SelectKeepsConfigured,
     WriteKeepsConfigured DEF PrefGoesOn

-----------------------------------------------------------------------------
(* Notifications *)

\* A call of sendToUser in flight is about a notification it stored, and its
\* channels wait until the list of active ones was read.
SoundSend(t) ==
    /\ t.at # "idle" => /\ t.user \in Users /\ t.notice \in Notices
                        /\ [notice |-> t.notice, user |-> t.user] \in sent
    /\ t.at # "sending" => \A p \in ProviderType : t.channel[p] = "inactive"

SendInv ==
    /\ sent \subseteq [notice : Notices, user : Users]
    /\ sendTask \in [SendSlots -> SendTasks]
    /\ delivered \subseteq Sendings
    /\ lost \subseteq Sendings
    /\ \A x, y \in sent : x.notice = y.notice => x = y
    /\ \A s \in SendSlots : SoundSend(sendTask[s])

\* What a request marks as read is marked in its entity.
SoundBox(t) ==
    /\ t.at # "idle" => t.notice \in Notices
    /\ t.at \in {"select", "write", "insert"} => t.entity \in Notifications /\ t.entity.isRead

BoxInv ==
    /\ notification \in [Notices -> Notifications \cup {NULL}]
    /\ boxTask \in [BoxSlots -> BoxTasks]
    /\ \A s \in BoxSlots : SoundBox(boxTask[s])

ConnInv ==
    /\ conn \in [Sockets -> Connections]
    /\ userSockets \in [Users -> SUBSET Sockets]
    /\ \A k \in Sockets : /\ conn[k].life = "new" => conn[k].handler = "none"
                          /\ conn[k].handler # "none" => conn[k].user \in Users
    /\ ListenersAreKnown

NoticeInv == PrefInv /\ SendInv /\ BoxInv /\ ConnInv /\ requests \in 0..MaxRequests

LEMMA IdleTypes ==
    /\ IdleSend \in SendTasks /\ SoundSend(IdleSend) /\ IdleSend.at = "idle"
    /\ IdleBox \in BoxTasks /\ SoundBox(IdleBox) /\ IdleBox.at = "idle"
BY DEF IdleSend, SendTasks, SoundSend, IdleBox, BoxTasks, SoundBox

LEMMA SendMoves ==
    ASSUME SendInv, NEW s \in SendSlots, NEW t \in SendTasks, SendBecomes(s, t), SoundSend(t),
           UNCHANGED sent, delivered' \subseteq Sendings, lost' \subseteq Sendings
    PROVE  SendInv'
<1>1. /\ sendTask' \in [SendSlots -> SendTasks]
      /\ sendTask'[s] = t
      /\ \A r \in SendSlots \ {s} : sendTask'[r] = sendTask[r]
  BY DEF SendInv, SendBecomes
<1>2. \A r \in SendSlots : SoundSend(sendTask'[r])
  BY <1>1 DEF SendInv
<1>3. QED
  BY <1>1, <1>2 DEF SendInv, SoundSend

LEMMA StoringKeepsSend ==
    ASSUME SendInv, NEW s \in SendSlots, NEW u \in Users, NEW n \in Notices, SendToUser(s, u, n)
    PROVE  SendInv'
<1> DEFINE t == [IdleSend EXCEPT !.at = "providers", !.user = u, !.notice = n]
<1>1. /\ t \in SendTasks /\ t.at = "providers" /\ t.user = u /\ t.notice = n
      /\ t.channel = IdleSend.channel
  BY IdleTypes DEF SendTasks
<1>2. \A p \in ProviderType : t.channel[p] = "inactive"
  BY <1>1 DEF IdleSend
<1>3. sendTask' = [sendTask EXCEPT ![s] = t] /\ UNCHANGED <<delivered, lost>>
  BY DEF SendToUser, SendBecomes, outcomes
<1> HIDE DEF t
<1>4. sent' = sent \cup {[notice |-> n, user |-> u]} /\ n \notin {x.notice : x \in sent}
  BY DEF SendToUser
<1>5. /\ sendTask' \in [SendSlots -> SendTasks]
      /\ sendTask'[s] = t
      /\ \A r \in SendSlots \ {s} : sendTask'[r] = sendTask[r]
  BY <1>1, <1>3 DEF SendInv
<1>6. SoundSend(t)'
  BY <1>1, <1>2, <1>4 DEF SoundSend
<1>7. ASSUME NEW r \in SendSlots, r # s
      PROVE  SoundSend(sendTask[r])'
  BY <1>4, <1>5, <1>7 DEF SendInv, SoundSend
<1>8. \A r \in SendSlots : SoundSend(sendTask[r])'
  BY <1>5, <1>6, <1>7 DEF SoundSend
<1>9. \A x, y \in sent' : x.notice = y.notice => x = y
  BY <1>4 DEF SendInv
<1>10. sent' \subseteq [notice : Notices, user : Users]
  BY <1>4 DEF SendInv
<1>11. QED
  BY <1>3, <1>5, <1>8, <1>9, <1>10 DEF SendInv

LEMMA ProvidersKeepSend ==
    ASSUME SendInv, NEW s \in SendSlots, GetActiveProviders(s)
    PROVE  SendInv'
<1> DEFINE t == sendTask[s]
           channels == [p \in ProviderType |-> IF Enabled(t.user, p) THEN "check" ELSE "inactive"]
           n == [t EXCEPT !.at = "sending", !.channel = channels]
<1>1. t \in SendTasks /\ SoundSend(t) /\ t.at = "providers"
  BY DEF SendInv, GetActiveProviders
<1>2. SendBecomes(s, n) /\ UNCHANGED <<sent, delivered, lost>>
  BY DEF GetActiveProviders, outcomes
<1>3. channels \in [ProviderType -> {"inactive", "check", "address", "settled"}]
  OBVIOUS
<1> HIDE DEF channels
<1>4. n \in SendTasks /\ n.at = "sending" /\ n.user = t.user /\ n.notice = t.notice
  BY <1>1, <1>3 DEF SendTasks
<1> HIDE DEF n
<1>5. SoundSend(n)
  BY <1>1, <1>4 DEF SoundSend
<1>6. delivered' \subseteq Sendings /\ lost' \subseteq Sendings
  BY <1>2 DEF SendInv
<1>7. QED
  BY <1>2, <1>4, <1>5, <1>6, SendMoves

\* A channel that is not inactive belongs to a call that is sending.
LEMMA ChannelSends ==
    ASSUME SendInv, NEW s \in SendSlots, NEW p \in ProviderType,
           sendTask[s].channel[p] # "inactive"
    PROVE  /\ sendTask[s] \in SendTasks /\ sendTask[s].at = "sending"
           /\ SoundSend(sendTask[s])
           /\ [notice |-> sendTask[s].notice, user |-> sendTask[s].user] \in sent
           /\ [notice |-> sendTask[s].notice, provider |-> p] \in Sendings
BY DEF SendInv, SoundSend, SendTasks, Sendings

LEMMA ChannelMoves ==
    ASSUME SendInv, NEW s \in SendSlots, NEW p \in ProviderType,
           sendTask[s].channel[p] # "inactive", NEW c \in {"address", "settled"},
           SendBecomes(s, [sendTask[s] EXCEPT !.channel[p] = c]),
           UNCHANGED sent, delivered' \subseteq Sendings, lost' \subseteq Sendings
    PROVE  SendInv'
<1> DEFINE t == sendTask[s]
           n == [t EXCEPT !.channel[p] = c]
<1>1. t \in SendTasks /\ t.at = "sending" /\ SoundSend(t)
  BY ChannelSends
<1>2. n \in SendTasks /\ n.at = t.at /\ n.user = t.user /\ n.notice = t.notice
  BY <1>1 DEF SendTasks
<1>3. SendBecomes(s, n)
  OBVIOUS
<1> HIDE DEF n
<1>4. SoundSend(n)
  BY <1>1, <1>2 DEF SoundSend
<1>5. QED
  BY <1>2, <1>3, <1>4, SendMoves

LEMMA SendingKeepsSend ==
    ASSUME SendInv, NEW s \in SendSlots, NEW p \in ProviderType,
           Check(s, p) \/ Deliver(s, p) \/ ProviderFails(s, p)
    PROVE  SendInv'
<1>1. sendTask[s].channel[p] # "inactive"
  BY DEF Check, Deliver, ProviderFails
<1>2. [notice |-> sendTask[s].notice, provider |-> p] \in Sendings
  BY <1>1, ChannelSends
<1>3. delivered' \subseteq Sendings /\ lost' \subseteq Sendings /\ UNCHANGED sent
  BY <1>2 DEF Check, Deliver, ProviderFails, Leaves, SendInv
<1>4. \E c \in {"address", "settled"} : SendBecomes(s, [sendTask[s] EXCEPT !.channel[p] = c])
  BY DEF Check, Deliver, ProviderFails, Settled
<1>5. QED
  BY <1>1, <1>3, <1>4, ChannelMoves

LEMMA EndingKeepsSend ==
    ASSUME SendInv, NEW s \in SendSlots, SendFails(s) \/ AllSettled(s)
    PROVE  SendInv'
<1>1. SendBecomes(s, IdleSend) /\ UNCHANGED <<sent, delivered>>
  BY DEF SendFails, AllSettled, outcomes
<1>2. lost' \subseteq Sendings
  <2>1. CASE SendFails(s)
    <3>1. sendTask[s].notice \in Notices
      BY <2>1 DEF SendFails, SendInv, SoundSend
    <3>2. QED
      BY <2>1, <3>1 DEF SendFails, SendInv, Sendings
  <2>2. CASE AllSettled(s)
    BY <2>2 DEF AllSettled, SendInv, outcomes
  <2>3. QED
    BY <2>1, <2>2
<1>3. QED
  BY <1>1, <1>2, IdleTypes, SendMoves DEF SendInv

LEMMA MarkedType ==
    ASSUME NEW row \in Notifications
    PROVE  Marked(row) \in Notifications /\ Marked(row).isRead /\ NULL \notin Notifications
BY NotificationsAssumption DEF Marked, Notifications, NotificationsAssumption

\* A save of a read notification leaves the row's columns, or reads it.
LEMMA WrittenNotice ==
    ASSUME NEW row \in Notifications, NEW entity \in Notifications, NEW cols, entity.isRead
    PROVE  /\ Written(row, entity, cols) \in Notifications
           /\ row.isRead => Written(row, entity, cols).isRead
BY DEF Written, Notifications

LEMMA BoxMoves ==
    ASSUME BoxInv, NEW s \in BoxSlots, NEW t \in BoxTasks, BoxBecomes(s, t), SoundBox(t),
           notification' \in [Notices -> Notifications \cup {NULL}]
    PROVE  BoxInv'
<1>1. /\ boxTask' \in [BoxSlots -> BoxTasks]
      /\ boxTask'[s] = t
      /\ \A r \in BoxSlots \ {s} : boxTask'[r] = boxTask[r]
  BY DEF BoxInv, BoxBecomes
<1>2. \A r \in BoxSlots : SoundBox(boxTask'[r])
  BY <1>1 DEF BoxInv
<1>3. QED
  BY <1>1, <1>2 DEF BoxInv, SoundBox

\* What each step about stored notifications does to them: none that was read
\* or removed is unread after it.
Unreturned ==
    \A n \in Notices :
        notification[n] = NULL \/ notification[n].isRead =>
            notification'[n] = NULL \/ notification'[n].isRead

LEMMA RoutesKeepBox ==
    ASSUME BoxInv, NEW s \in BoxSlots, NotificationController(s)
    PROVE  BoxInv' /\ Unreturned
<1>1. ASSUME NEW n \in Notices, MarkAsRead(s, n) \/ Remove(s, n)
      PROVE  BoxInv' /\ Unreturned
  <2>1. notification[n] \in Notifications /\ UNCHANGED notification
    BY <1>1 DEF MarkAsRead, Remove, BoxInv
  <2>2. \E t \in BoxTasks : SoundBox(t) /\ BoxBecomes(s, t)
    <3> DEFINE m == [IdleBox EXCEPT !.at = "select", !.notice = n,
                                    !.entity = Marked(notification[n])]
               r == [IdleBox EXCEPT !.at = "remove", !.notice = n]
    <3>1. /\ m \in BoxTasks /\ m.at = "select" /\ m.notice = n
          /\ m.entity = Marked(notification[n])
      BY <2>1, MarkedType DEF BoxTasks, IdleBox
    <3>2. r \in BoxTasks /\ r.at = "remove" /\ r.notice = n
      BY DEF BoxTasks, IdleBox
    <3>3. SoundBox(m) /\ SoundBox(r)
      BY <2>1, <3>1, <3>2, MarkedType DEF SoundBox
    <3>4. QED
      BY <1>1, <3>1, <3>2, <3>3 DEF MarkAsRead, Remove
  <2>3. QED
    BY <2>1, <2>2, BoxMoves DEF BoxInv, Unreturned
<1>2. ASSUME NEW u \in Users, MarkAllAsRead(u) \/ RemoveAllRead(u)
      PROVE  BoxInv' /\ Unreturned
  <2>1. ASSUME NEW n \in Notices, BelongsTo(n, u)
        PROVE  Marked(notification[n]) \in Notifications /\ Marked(notification[n]).isRead
    BY <2>1, MarkedType DEF BelongsTo, BoxInv
  <2>2. notification' \in [Notices -> Notifications \cup {NULL}] /\ UNCHANGED boxTask
    BY <1>2, <2>1 DEF MarkAllAsRead, RemoveAllRead, BoxInv
  <2>3. Unreturned
    BY <1>2, <2>1 DEF MarkAllAsRead, RemoveAllRead, Unreturned
  <2>4. QED
    BY <2>2, <2>3 DEF BoxInv, SoundBox
<1>3. QED
  BY <1>1, <1>2 DEF NotificationController

LEMMA SelectKeepsBox ==
    ASSUME BoxInv, NEW s \in BoxSlots, MarkSelect(s)
    PROVE  BoxInv' /\ Unreturned
<1> DEFINE t == boxTask[s]
           row == notification[t.notice]
           n1 == [t EXCEPT !.at = "insert"]
           n2 == [t EXCEPT !.at = "write", !.cols = Changed(t.entity, row)]
<1>1. t \in BoxTasks /\ t.at = "select" /\ SoundBox(t) /\ UNCHANGED notification
  BY DEF BoxInv, MarkSelect
<1>2. row \in Notifications \cup {NULL}
  BY <1>1 DEF SoundBox, BoxInv
<1>3. CASE row = NULL
  <2>1. BoxBecomes(s, n1)
    BY <1>3 DEF MarkSelect
  <2>2. n1 \in BoxTasks /\ SoundBox(n1)
    BY <1>1 DEF BoxTasks, SoundBox
  <2>3. QED
    BY <1>1, <2>1, <2>2, BoxMoves DEF BoxInv, Unreturned
<1>4. CASE row # NULL
  <2>1. BoxBecomes(s, n2)
    BY <1>4 DEF MarkSelect
  <2>2. Changed(t.entity, row) \in SUBSET {"user", "isRead"}
    BY <1>2, <1>4 DEF Changed, Notifications
  <2>3. n2 \in BoxTasks /\ SoundBox(n2)
    BY <1>1, <2>2 DEF BoxTasks, SoundBox
  <2>4. QED
    BY <1>1, <2>1, <2>3, BoxMoves DEF BoxInv, Unreturned
<1>5. QED
  BY <1>3, <1>4

LEMMA GoesOnKeepsBox ==
    ASSUME BoxInv, NEW s \in BoxSlots, BoxGoesOn(s)
    PROVE  BoxInv' /\ Unreturned
<1> DEFINE t == boxTask[s]
           row == notification[t.notice]
<1>1. t \in BoxTasks /\ SoundBox(t)
  BY DEF BoxInv
<1>2. CASE MarkWrite(s)
  <2>1. t.notice \in Notices /\ t.entity \in Notifications /\ t.entity.isRead
        /\ row \in Notifications \cup {NULL}
    BY <1>1, <1>2 DEF MarkWrite, SoundBox, BoxInv
  <2>2. PICK new : /\ notification' = [notification EXCEPT ![t.notice] = new]
                   /\ \/ new = t.entity \/ new = NULL
                      \/ row # NULL /\ new = Written(row, t.entity, t.cols)
    BY <1>2 DEF MarkWrite
  <2>3. /\ new \in Notifications \cup {NULL}
        /\ row = NULL \/ row.isRead => new = NULL \/ new.isRead
    BY <2>1, <2>2, WrittenNotice
  <2>4. notification' \in [Notices -> Notifications \cup {NULL}] /\ Unreturned
    BY <2>1, <2>2, <2>3 DEF BoxInv, Unreturned
  <2>5. QED
    BY <1>2, <2>4, IdleTypes, BoxMoves DEF MarkWrite
<1>3. CASE RemoveWrite(s)
  <2>1. t.notice \in Notices /\ notification' = [notification EXCEPT ![t.notice] = NULL]
    BY <1>1, <1>3 DEF RemoveWrite, SoundBox
  <2>2. notification' \in [Notices -> Notifications \cup {NULL}] /\ Unreturned
    BY <2>1 DEF BoxInv, Unreturned
  <2>3. QED
    BY <1>3, <2>2, IdleTypes, BoxMoves DEF RemoveWrite
<1>4. CASE BoxFails(s)
  BY <1>4, IdleTypes, BoxMoves DEF BoxFails, BoxInv, Unreturned
<1>5. QED
  BY <1>2, <1>3, <1>4, SelectKeepsBox DEF BoxGoesOn

\* A new notification is unread, under an id that none had.
LEMMA StoringKeepsBox ==
    ASSUME BoxInv, NEW s \in SendSlots, NEW u \in Users, NEW n \in Notices, SendToUser(s, u, n)
    PROVE  BoxInv'
BY DEF BoxInv, SendToUser, SoundBox, Notifications

LEMMA GatewayKeepsConn ==
    ASSUME ConnInv, GatewayConnects \/ GatewayGoesOn
    PROVE  ConnInv'
<1>1. ASSUME NEW k \in Sockets, NEW u \in Users, HandleConnection(k, u)
      PROVE  ConnInv'
  BY <1>1 DEF HandleConnection, ConnInv, Connections, ListenersAreKnown
<1>2. ASSUME NEW k \in Sockets, Registered(k)
      PROVE  ConnInv'
  <2>1. conn[k].user \in Users /\ conn[k] \in Connections /\ conn[k].life # "new"
    BY <1>2 DEF ConnInv, Registered
  <2>2. conn' = [conn EXCEPT ![k].handler = "registered"]
        /\ userSockets' = [userSockets EXCEPT ![conn[k].user] = @ \cup {k}]
    BY <1>2 DEF Registered
  <2>3. conn' \in [Sockets -> Connections] /\ userSockets' \in [Users -> SUBSET Sockets]
    BY <2>1, <2>2 DEF ConnInv, Connections
  <2>4. /\ conn'[k].life = conn[k].life /\ conn'[k].user = conn[k].user
        /\ \A j \in Sockets \ {k} : conn'[j] = conn[j]
        /\ \A u \in Users : userSockets[u] \subseteq userSockets'[u]
        /\ k \in userSockets'[conn[k].user]
    BY <2>1, <2>2 DEF ConnInv, Connections
  <2>5. ListenersAreKnown'
    BY <2>1, <2>4 DEF ConnInv, ListenersAreKnown
  <2>6. QED
    BY <2>1, <2>3, <2>4, <2>5 DEF ConnInv
<1>3. ASSUME NEW k \in Sockets, Refused(k)
      PROVE  ConnInv'
  BY <1>3 DEF Refused, ConnInv, Connections, ListenersAreKnown
<1>4. ASSUME NEW k \in Sockets, HandleDisconnect(k)
      PROVE  ConnInv'
  <2>1. conn[k] \in Connections /\ conn' = [conn EXCEPT ![k].life = "closed"]
    BY <1>4 DEF ConnInv, HandleDisconnect
  <2>2. /\ conn' \in [Sockets -> Connections]
        /\ conn'[k].life = "closed"
        /\ conn'[k].handler = conn[k].handler /\ conn'[k].user = conn[k].user
        /\ \A j \in Sockets \ {k} : conn'[j] = conn[j]
    BY <2>1 DEF ConnInv, Connections
  <2>3. /\ userSockets' \in [Users -> SUBSET Sockets]
        /\ \A u \in Users : userSockets[u] \ {k} \subseteq userSockets'[u]
    BY <1>4, <2>1 DEF ConnInv, HandleDisconnect
  <2>4. ListenersAreKnown'
    BY <2>2, <2>3 DEF ConnInv, ListenersAreKnown
  <2>5. QED
    BY <2>2, <2>3, <2>4 DEF ConnInv
<1>5. QED
  BY <1>1, <1>2, <1>3, <1>4 DEF GatewayConnects, GatewayGoesOn

LEMMA NoticeInit == Init => NoticeInv
<1> SUFFICES ASSUME Init PROVE NoticeInv
  OBVIOUS
<1>1. NotificationInit /\ PrefInit
  BY DEF Init
<1>2. SendInv
  BY <1>1, IdleTypes DEF NotificationInit, SendInv
<1>3. BoxInv
  BY <1>1, IdleTypes DEF NotificationInit, BoxInv
<1>4. ConnInv
  BY <1>1 DEF NotificationInit, ConnInv, Connections, ListenersAreKnown
<1>5. QED
  BY <1>1, <1>2, <1>3, <1>4, PrefInitSound, NotificationsAssumption
     DEF NoticeInv, NotificationInit, NotificationsAssumption

LEMMA CrashKeepsNotices ==
    ASSUME NoticeInv, Crash
    PROVE  NoticeInv'
<1>1. PrefInv'
  BY PrefFrameSound DEF NoticeInv, Crash
<1>2. SendInv'
  <2>1. InFlight \subseteq Sendings
    BY DEF InFlight
  <2>2. QED
    BY <2>1, IdleTypes DEF NoticeInv, SendInv, Crash, SoundSend
<1>3. BoxInv'
  BY IdleTypes DEF NoticeInv, BoxInv, Crash, SoundBox
<1>4. ConnInv'
  <2>1. conn' = [k \in Sockets |->
            IF conn[k].life = "new" THEN conn[k]
            ELSE [life |-> "closed", handler |-> "none", user |-> NULL]]
    BY DEF Crash
  <2>2. \A k \in Sockets : conn'[k].handler = "none"
    BY <2>1 DEF NoticeInv, ConnInv
  <2>3. conn' \in [Sockets -> Connections]
    BY <2>1 DEF NoticeInv, ConnInv, Connections
  <2>4. userSockets' \in [Users -> SUBSET Sockets]
    BY DEF Crash
  <2>5. QED
    BY <2>2, <2>3, <2>4 DEF ConnInv, ListenersAreKnown
<1>5. QED
  BY <1>1, <1>2, <1>3, <1>4 DEF NoticeInv, Crash

\* Which parts of the state a step leaves alone.
LEMMA Frames ==
    /\ SendInv /\ UNCHANGED <<sent, sendTask, delivered, lost>> => SendInv'
    /\ BoxInv /\ UNCHANGED boxVars => BoxInv' /\ Unreturned
    /\ ConnInv /\ UNCHANGED gatewayVars => ConnInv'
    /\ PrefInv /\ UNCHANGED prefVars => PrefInv'
BY PrefFrameSound DEF SendInv, SoundSend, BoxInv, SoundBox, boxVars, Unreturned, ConnInv,
   ListenersAreKnown, gatewayVars, prefVars

\* The steps of the calls of sendToUser after the row is stored.
SendStep(s) ==
    \/ GetActiveProviders(s)
    \/ \E p \in ProviderType : Check(s, p) \/ Deliver(s, p) \/ ProviderFails(s, p)
    \/ SendFails(s)
    \/ AllSettled(s)

LEMMA SendStepKeeps ==
    ASSUME NoticeInv, NEW s \in SendSlots, SendStep(s)
    PROVE  SendInv' /\ UNCHANGED <<prefVars, boxVars, gatewayVars>> /\ UNCHANGED sent
<1>1. SendInv'
  BY ProvidersKeepSend, SendingKeepsSend, EndingKeepsSend DEF NoticeInv, SendStep
<1>2. UNCHANGED <<prefVars, boxVars, gatewayVars>> /\ UNCHANGED sent
  BY DEF SendStep, GetActiveProviders, Check, Deliver, ProviderFails, SendFails, AllSettled,
     boxVars
<1>3. QED
  BY <1>1, <1>2

\* The steps, by the part of the state they are about.
LEMMA StepsSorted ==
    ASSUME Next
    PROVE  \/ \E s \in SendSlots, u \in Users, n \in Notices :
                 SendToUser(s, u, n) /\ requests < MaxRequests /\ requests' = requests + 1
           \/ /\ \/ UNCHANGED requests
                 \/ requests < MaxRequests /\ requests' = requests + 1
              /\ \/ \E s \in SendSlots : SendStep(s)
                 \/ \E s \in BoxSlots : NotificationController(s) \/ BoxGoesOn(s)
                 \/ (GatewayConnects \/ GatewayGoesOn) /\ GatewayFrame
                 \/ /\ \E s \in PrefSlots : PreferencesController(s, Users) \/ PrefGoesOn(s)
                    /\ PrefFrame
           \/ Crash
<1>1. CASE Calls
  BY <1>1 DEF Calls
<1>2. CASE \E s \in SendSlots : SendGoesOn(s)
  BY <1>2 DEF SendGoesOn, SendStep
<1>3. CASE GoesOn
  BY <1>3 DEF GoesOn, SendStep
<1>4. QED
  BY <1>1, <1>2, <1>3 DEF Next

LEMMA BoxStepFrame ==
    ASSUME NEW s, NotificationController(s) \/ BoxGoesOn(s)
    PROVE  UNCHANGED <<prefVars, sent, sendTask, gatewayVars, outcomes>>
BY DEF NotificationController, MarkAsRead, Remove, MarkAllAsRead, RemoveAllRead, BoxGoesOn,
   MarkSelect, MarkWrite, RemoveWrite, BoxFails

LEMMA NoticeNext ==
    ASSUME NoticeInv, Next
    PROVE  NoticeInv'
<1>0. /\ requests \in 0..MaxRequests /\ MaxRequests \in Nat
      /\ PrefInv /\ SendInv /\ BoxInv /\ ConnInv
  BY NotificationsAssumption DEF NoticeInv, NotificationsAssumption
<1>1. requests < MaxRequests /\ requests' = requests + 1 => requests' \in 0..MaxRequests
  BY <1>0
<1>2. ASSUME NEW s \in SendSlots, NEW u \in Users, NEW n \in Notices, SendToUser(s, u, n)
      PROVE  PrefInv' /\ SendInv' /\ BoxInv' /\ ConnInv'
  <2>1. UNCHANGED <<prefVars, gatewayVars>>
    BY <1>2 DEF SendToUser
  <2>2. QED
    BY <1>0, <1>2, <2>1, StoringKeepsSend, StoringKeepsBox, Frames
<1>3. ASSUME NEW s \in SendSlots, SendStep(s)
      PROVE  PrefInv' /\ SendInv' /\ BoxInv' /\ ConnInv'
  BY <1>0, <1>3, SendStepKeeps, Frames
<1>4. ASSUME NEW s \in BoxSlots, NotificationController(s) \/ BoxGoesOn(s)
      PROVE  PrefInv' /\ SendInv' /\ BoxInv' /\ ConnInv'
  <2>1. UNCHANGED <<prefVars, sent, sendTask, gatewayVars, outcomes>>
    BY <1>4, BoxStepFrame
  <2>2. QED
    BY <1>0, <1>4, <2>1, RoutesKeepBox, GoesOnKeepsBox, Frames DEF outcomes
<1>5. ASSUME GatewayConnects \/ GatewayGoesOn, GatewayFrame
      PROVE  PrefInv' /\ SendInv' /\ BoxInv' /\ ConnInv'
  <2>1. ConnInv'
    BY <1>0, <1>5, GatewayKeepsConn
  <2>2. UNCHANGED prefVars /\ UNCHANGED <<sent, sendTask, delivered, lost>> /\ UNCHANGED boxVars
    BY <1>5 DEF GatewayFrame, boxVars, outcomes
  <2>3. QED
    BY <1>0, <2>1, <2>2, Frames
<1>6. ASSUME NEW s \in PrefSlots, PreferencesController(s, Users) \/ PrefGoesOn(s), PrefFrame
      PROVE  PrefInv' /\ SendInv' /\ BoxInv' /\ ConnInv'
  BY <1>0, <1>6, RoutesKeepSound, PrefGoesOnSoundly, Frames DEF PrefFrame, boxVars, outcomes
<1>7. CASE Crash
  BY <1>7, CrashKeepsNotices
<1>8. QED
  BY <1>0, <1>1, <1>2, <1>3, <1>4, <1>5, <1>6, <1>7, StepsSorted DEF NoticeInv

LEMMA NoticeStutter ==
    ASSUME NoticeInv, UNCHANGED vars
    PROVE  NoticeInv'
BY Frames DEF NoticeInv, vars, boxVars, gatewayVars, outcomes

LEMMA NoticeInvHolds == Spec => []NoticeInv
<1>1. NoticeInv /\ [Next]_vars => NoticeInv'
  BY NoticeNext, NoticeStutter
<1>2. QED
  BY <1>1, NoticeInit, PTL DEF Spec

\* The tables, the calls in flight and the gateway's map have their types.
THEOREM NotificationsTypeCorrect == Spec => []TypeOK
<1>1. NoticeInv => TypeOK
  BY DEF NoticeInv, PrefInv, SendInv, BoxInv, ConnInv, TypeOK
<1>2. QED
  BY <1>1, NoticeInvHolds, PTL

\* Every accepted socket that is open is in the gateway's map, in whatever
\* order the sockets of a user open, are accepted and close
\* (notification.gateway.ts).
THEOREM ListenersStayKnown == Spec => []ListenersAreKnown
<1>1. NoticeInv => ListenersAreKnown
  BY DEF NoticeInv, ConnInv
<1>2. QED
  BY <1>1, NoticeInvHolds, PTL

\* No step makes a notification unread that was read or removed, a save that
\* was overtaken by a removal included (notification.service.ts).
THEOREM ReadStaysRead == Spec => UnreadNeverReturns
<1> DEFINE Returned(x) == LET row == notification[x.notice] IN
                          row = NULL \/ row.isRead =>
                              notification'[x.notice] = NULL \/ notification'[x.notice].isRead
<1>1. NoticeInv /\ [Next]_vars => \A x \in sent : Returned(x)
  <2> SUFFICES ASSUME NoticeInv, [Next]_vars PROVE \A x \in sent : Returned(x)
    OBVIOUS
  <2>0. PrefInv /\ SendInv /\ BoxInv /\ ConnInv
    BY DEF NoticeInv
  <2>1. (\E s \in SendSlots, u \in Users, n \in Notices : SendToUser(s, u, n))
        => \A x \in sent : Returned(x)
    BY <2>0 DEF SendToUser, SendInv, BoxInv
  <2>2. Unreturned => \A x \in sent : Returned(x)
    BY <2>0 DEF Unreturned, SendInv
  <2>3. ASSUME NEW s \in SendSlots, SendStep(s) PROVE Unreturned
    BY <2>0, <2>3, SendStepKeeps, Frames
  <2>4. ASSUME NEW s \in BoxSlots, NotificationController(s) \/ BoxGoesOn(s) PROVE Unreturned
    BY <2>0, <2>4, RoutesKeepBox, GoesOnKeepsBox
  <2>5. UNCHANGED notification => Unreturned
    BY DEF Unreturned
  <2>6. CASE Next
    BY <2>1, <2>2, <2>3, <2>4, <2>5, <2>6, StepsSorted DEF GatewayFrame, PrefFrame, Crash
  <2>7. CASE UNCHANGED vars
    BY <2>2, <2>5, <2>7 DEF vars
  <2>8. QED
    BY <2>6, <2>7
<1>2. NoticeInv /\ [Next]_vars => [\A x \in sent : Returned(x)]_vars
  BY <1>1
<1>3. QED
  BY <1>2, NoticeInvHolds, PTL DEF Spec, UnreadNeverReturns

\* A step that makes something leave by a channel other than e-mail finds the
\* channel on, whenever the list of active channels was read
\* (the providers' isEnabled).
THEOREM ChannelsStayShut == Spec => NeverThroughAChannelOff
<1> DEFINE Open == \A x \in delivered' \ delivered, y \in sent :
                       x.provider # "EMAIL" /\ x.notice = y.notice => Enabled(y.user, x.provider)
<1>1. NoticeInv /\ [Next]_vars => Open
  <2> SUFFICES ASSUME NoticeInv, [Next]_vars PROVE Open
    OBVIOUS
  <2>1. UNCHANGED delivered => Open
    OBVIOUS
  <2>2. ASSUME NEW s \in SendSlots, NEW p \in ProviderType, Check(s, p) \/ Deliver(s, p)
        PROVE  Open
    <3> DEFINE t == sendTask[s]
    <3>1. [notice |-> t.notice, user |-> t.user] \in sent
      BY <2>2, ChannelSends DEF NoticeInv, Check, Deliver
    <3>2. \A y \in sent : y.notice = t.notice => y.user = t.user
      BY <3>1 DEF NoticeInv, SendInv
    <3>3. \A x \in delivered' \ delivered :
              /\ x.notice = t.notice /\ x.provider = p
              /\ p # "EMAIL" => IsEnabled(t.user, p)
      BY <2>2 DEF Check, Deliver, Leaves
    <3>4. QED
      BY <3>2, <3>3 DEF IsEnabled
  <2>3. CASE Next
    <3>1. CASE Calls
      BY <2>1, <3>1 DEF Calls, SendToUser, NotificationController, MarkAsRead, Remove,
         MarkAllAsRead, RemoveAllRead, GatewayFrame, PrefFrame, outcomes
    <3>2. CASE \E s \in SendSlots : SendGoesOn(s)
      BY <2>1, <2>2, <3>2 DEF SendGoesOn, GetActiveProviders, AllSettled, outcomes
    <3>3. CASE GoesOn
      BY <2>1, <3>3 DEF GoesOn, ProviderFails, SendFails, BoxGoesOn, MarkSelect, MarkWrite,
         RemoveWrite, BoxFails, GatewayFrame, PrefFrame, outcomes
    <3>4. QED
      BY <2>1, <2>3, <3>1, <3>2, <3>3 DEF Next, Crash
  <2>4. CASE UNCHANGED vars
    BY <2>1, <2>4 DEF vars
  <2>5. QED
    BY <2>3, <2>4
<1>2. NoticeInv /\ [Next]_vars => [Open]_vars
  BY <1>1
<1>3. QED
  BY <1>2, NoticeInvHolds, PTL DEF Spec, NeverThroughAChannelOff

\* A call of sendToUser that stored notification n for u has provider p still
\* to do.
Owed(s, n, u, p) ==
    /\ sendTask[s].notice = n
    /\ sendTask[s].user = u
    /\ \/ sendTask[s].at = "providers"
       \/ sendTask[s].channel[p] \in {"check", "address"}

Resolved(s, n, u, p) ==
    \/ Owed(s, n, u, p)'
    \/ [notice |-> n, provider |-> p] \in delivered' \cup lost'
    \/ ~ EnabledAndConfigured(u, p)'

\* A step never passes over a channel that is on and stays on: the sending
\* stays to be done until it leaves, or is among what a failure or a crash
\* lost.
NothingOwedIsDropped ==
    [][\A s \in SendSlots, n \in Notices, u \in Users, p \in ProviderType \ {"WEBSOCKET"} :
           Owed(s, n, u, p) /\ EnabledAndConfigured(u, p) => Resolved(s, n, u, p)]_vars

\* What the preferences show as on the provider finds on.
LEMMA ShownIsEnabled ==
    ASSUME NEW u, NEW p \in ProviderType, EnabledAndConfigured(u, p)
    PROVE  IsEnabled(u, p)
BY DEF EnabledAndConfigured, IsEnabled, IsProviderConfigured, ProviderType

LEMMA OwedSends ==
    ASSUME SendInv, NEW s \in SendSlots, NEW n \in Notices, NEW u, NEW p \in ProviderType,
           Owed(s, n, u, p)
    PROVE  /\ sendTask \in [SendSlots -> SendTasks]
           /\ sendTask[s] \in SendTasks
           /\ sendTask[s].at # "idle"
           /\ sendTask[s].at = "providers" => sendTask[s].channel[p] = "inactive"
           /\ sendTask[s].at # "sending" => \A q \in ProviderType :
                                                sendTask[s].channel[q] = "inactive"
<1>1. sendTask[s] \in SendTasks /\ SoundSend(sendTask[s])
  BY DEF SendInv
<1>2. sendTask[s].channel[p] # "inactive" => sendTask[s].at = "sending"
  BY <1>1 DEF SoundSend
<1>3. QED
  BY <1>1, <1>2 DEF SendInv, Owed, SoundSend

LEMMA OwedStays ==
    ASSUME NEW s, NEW n, NEW u, NEW p, Owed(s, n, u, p), sendTask'[s] = sendTask[s]
    PROVE  Resolved(s, n, u, p)
BY DEF Owed, Resolved

\* The steps of the call itself.
LEMMA SendStepResolves ==
    ASSUME SendInv, NEW s \in SendSlots, NEW n \in Notices, NEW u \in Users,
           NEW p \in ProviderType \ {"WEBSOCKET"},
           Owed(s, n, u, p), EnabledAndConfigured(u, p), SendStep(s)
    PROVE  Resolved(s, n, u, p)
<1> DEFINE t == sendTask[s]
<1>0. /\ t.notice = n /\ t.user = u
      /\ t.at = "providers" \/ t.channel[p] \in {"check", "address"}
  BY DEF Owed
<1>1. /\ sendTask \in [SendSlots -> SendTasks] /\ t \in SendTasks
      /\ t.at = "providers" => t.channel[p] = "inactive"
      /\ t.at # "sending" => \A q \in ProviderType : t.channel[q] = "inactive"
  BY OwedSends
<1>2. IsEnabled(u, p) /\ Enabled(u, p)
  BY ShownIsEnabled DEF EnabledAndConfigured
<1>3. t.channel \in [ProviderType -> {"inactive", "check", "address", "settled"}]
  BY <1>1 DEF SendTasks
<1>4. CASE GetActiveProviders(s)
  <2> DEFINE channels == [q \in ProviderType |->
                             IF Enabled(t.user, q) THEN "check" ELSE "inactive"]
  <2>1. SendBecomes(s, [t EXCEPT !.at = "sending", !.channel = channels])
    BY <1>4 DEF GetActiveProviders
  <2>2. channels[p] = "check"
    BY <1>0, <1>2
  <2> HIDE DEF channels
  <2>3. sendTask'[s] = [t EXCEPT !.at = "sending", !.channel = channels]
    BY <1>1, <2>1 DEF SendBecomes
  <2>4. sendTask'[s].notice = n /\ sendTask'[s].user = u /\ sendTask'[s].channel[p] = "check"
    BY <1>0, <1>1, <2>2, <2>3 DEF SendTasks
  <2>5. QED
    BY <2>4 DEF Resolved, Owed
<1>5. ASSUME NEW q \in ProviderType, Check(s, q) \/ Deliver(s, q) \/ ProviderFails(s, q)
      PROVE  Resolved(s, n, u, p)
  <2>1. t.channel[q] \in {"check", "address"}
    BY <1>5 DEF Check, Deliver, ProviderFails
  <2>2. t.at = "sending"
    BY <1>1, <2>1
  <2>3. t.channel[p] \in {"check", "address"}
    BY <1>0, <2>2
  <2>4. PICK c \in {"address", "settled"} : SendBecomes(s, [t EXCEPT !.channel[q] = c])
    BY <1>5 DEF Check, Deliver, ProviderFails, Settled
  <2>5. sendTask'[s] = [t EXCEPT !.channel[q] = c]
    BY <1>1, <2>4 DEF SendBecomes
  <2>6. sendTask'[s].notice = n /\ sendTask'[s].user = u
    BY <1>0, <1>1, <2>5 DEF SendTasks
  <2>7. CASE q # p
    <3>1. sendTask'[s].channel[p] = t.channel[p]
      BY <1>1, <1>3, <2>5, <2>7 DEF SendTasks
    <3>2. QED
      BY <2>3, <2>6, <3>1 DEF Resolved, Owed
  <2>8. CASE q = p /\ Check(s, q)
    <3>1. SendBecomes(s, [t EXCEPT !.channel[p] = "address"])
      BY <1>0, <1>2, <2>8 DEF Check
    <3>2. sendTask'[s] = [t EXCEPT !.channel[p] = "address"]
      BY <1>1, <3>1 DEF SendBecomes
    <3>3. sendTask'[s].channel[p] = "address"
      BY <1>1, <1>3, <3>2 DEF SendTasks
    <3>4. QED
      BY <2>6, <3>3 DEF Resolved, Owed
  <2>9. CASE q = p /\ (Deliver(s, q) \/ ProviderFails(s, q))
    BY <1>0, <1>2, <2>9 DEF Deliver, ProviderFails, Leaves, Resolved
  <2>10. QED
    BY <1>5, <2>7, <2>8, <2>9
<1>6. CASE SendFails(s)
  <2>1. [notice |-> n, provider |-> p] \in [notice : {t.notice}, provider : ProviderType]
    BY <1>0
  <2>2. QED
    BY <1>6, <2>1 DEF SendFails, Resolved
<1>7. ~ AllSettled(s)
  BY <1>0 DEF AllSettled
<1>8. QED
  BY <1>4, <1>5, <1>6, <1>7 DEF SendStep

LEMMA CrashResolves ==
    ASSUME SendInv, NEW s \in SendSlots, NEW n \in Notices, NEW u \in Users,
           NEW p \in ProviderType, Owed(s, n, u, p), Crash
    PROVE  Resolved(s, n, u, p)
<1> DEFINE x == [notice |-> n, provider |-> p]
           Left(r) == {y \in Sendings :
                          /\ y.notice = sendTask[r].notice
                          /\ \/ sendTask[r].at = "providers"
                             \/ sendTask[r].channel[y.provider] \in {"check", "address"}}
<1>1. x \in Sendings
  BY DEF Sendings
<1>2. x \in Left(s)
  BY <1>1 DEF Owed
<1>3. x \in InFlight
  BY <1>2 DEF InFlight
<1>4. QED
  BY <1>3 DEF Crash, Resolved

\* What was stored leaves by every channel that is on, or failed to, or the
\* channel was switched off: no step loses sight of it, neither one of
\* another channel nor of another call (sendToUser).  That the steps of the
\* call come is fairness, and EveryActiveChannelTried says so.
THEOREM NoChannelIsPassedOver == Spec => NothingOwedIsDropped
<1> DEFINE Good == \A s \in SendSlots, n \in Notices, u \in Users,
                      p \in ProviderType \ {"WEBSOCKET"} :
                       Owed(s, n, u, p) /\ EnabledAndConfigured(u, p) => Resolved(s, n, u, p)
<1>1. NoticeInv /\ [Next]_vars => Good
  <2> SUFFICES ASSUME NoticeInv, [Next]_vars, NEW s \in SendSlots, NEW n \in Notices,
                      NEW u \in Users, NEW p \in ProviderType \ {"WEBSOCKET"},
                      Owed(s, n, u, p), EnabledAndConfigured(u, p)
               PROVE  Resolved(s, n, u, p)
    OBVIOUS
  <2>0. SendInv
    BY DEF NoticeInv
  <2>1. sendTask'[s] = sendTask[s] => Resolved(s, n, u, p)
    BY OwedStays
  <2>2. sendTask \in [SendSlots -> SendTasks] /\ sendTask[s].at # "idle"
    BY <2>0, OwedSends
  <2>3. ASSUME NEW r \in SendSlots, NEW t, SendBecomes(r, t), r # s
        PROVE  sendTask'[s] = sendTask[s]
    BY <2>2, <2>3 DEF SendBecomes
  <2>4. ASSUME NEW r \in SendSlots, NEW v \in Users, NEW m \in Notices, SendToUser(r, v, m)
        PROVE  Resolved(s, n, u, p)
    BY <2>1, <2>2, <2>3, <2>4 DEF SendToUser
  <2>5. ASSUME NEW r \in SendSlots, SendStep(r)
        PROVE  Resolved(s, n, u, p)
    <3>1. CASE r = s
      BY <2>0, <2>5, <3>1, SendStepResolves
    <3>2. CASE r # s
      <4>1. \E t : SendBecomes(r, t)
        BY <2>5 DEF SendStep, GetActiveProviders, Check, Deliver, ProviderFails, SendFails,
           AllSettled
      <4>2. QED
        BY <2>1, <2>3, <3>2, <4>1
    <3>3. QED
      BY <3>1, <3>2
  <2>6. CASE Crash
    BY <2>0, <2>6, CrashResolves
  <2>7. CASE UNCHANGED vars
    BY <2>1, <2>7 DEF vars
  <2>8. CASE Next
    BY <2>1, <2>4, <2>5, <2>6, <2>8, StepsSorted, BoxStepFrame DEF GatewayFrame, PrefFrame
  <2>9. QED
    BY <2>7, <2>8
<1>2. NoticeInv /\ [Next]_vars => [Good]_vars
  BY <1>1
<1>3. QED
  BY <1>2, NoticeInvHolds, PTL DEF Spec, NothingOwedIsDropped

\* A channel is on only with the configuration it needs, whatever order the
\* requests come in, if the saves of preferences do not overlap
\* (user-preferences.service.ts); crashes and failures do not matter.
THEOREM EnabledStaysConfigured ==
    ASSUME OneWriter
    PROVE  Spec => []EnabledIsConfigured
<1>1. Init => Configured
  BY IdlePrefType DEF Init, PrefInit, Configured, EnabledIsConfigured, NoPreferences, Ready
<1>2. NoticeInv /\ Configured /\ [Next]_vars => Configured'
  <2> SUFFICES ASSUME NoticeInv, Configured, [Next]_vars PROVE Configured'
    OBVIOUS
  <2>1. UNCHANGED prefVars => Configured'
    BY DEF prefVars, Configured, EnabledIsConfigured, Ready
  <2>2. ASSUME NEW s \in SendSlots, SendStep(s) PROVE UNCHANGED prefVars
    BY <2>2, SendStepKeeps
  <2>3. CASE \E s \in PrefSlots : PreferencesController(s, Users) \/ PrefGoesOn(s)
    BY <2>3, PreferencesStayConfigured DEF NoticeInv
  <2>4. CASE Crash
    <3>1. pref' = pref /\ prefTask' = [s \in PrefSlots |-> IdlePref]
      BY <2>4 DEF Crash
    <3>2. QED
      BY <3>1, IdlePrefType DEF Configured, EnabledIsConfigured, Ready
  <2>5. CASE UNCHANGED vars
    BY <2>1, <2>5 DEF vars
  <2>6. CASE Next
    BY <2>1, <2>2, <2>3, <2>4, <2>6, StepsSorted, BoxStepFrame DEF SendToUser, GatewayFrame
  <2>7. QED
    BY <2>5, <2>6
<1>3. QED
  BY <1>1, <1>2, NoticeInvHolds, PTL DEF Spec, Configured

-----------------------------------------------------------------------------
(* Registration *)

USE RegistrationAssumption

\* What a handler in flight knows, and that no row of enterprises or users is
\* ever removed.
SoundAuth(s, t) ==
    /\ t.at # "idle" => t.op \in AuthWorkload[s]
    /\ t.at = "checkEmail" => t.op # "edit"
    /\ t.at \in {"checkEmail", "save", "transaction"} => t.email \in Emails
    /\ t.at = "save" => t.op \in {"register", "google"}
    /\ t.at = "transaction" => t.op = "registerEnterprise"
    /\ t.at \in {"select", "write"} => t.op = "edit"
    /\ t.op \in {"registerEnterprise", "edit"} => t.entity \in EnterpriseRows
    /\ t.op \in {"register", "google", "edit"} =>
          t.enterprise \in Enterprises /\ enterprise[t.enterprise] # NULL
    /\ t.at = "defaults" => /\ t.op \in {"register", "google", "registerEnterprise"}
                            /\ t.user \in Users /\ t.enterprise \in Enterprises
    /\ \A u \in t.cut : account[u] # NULL

RegInv ==
    /\ PrefInv
    /\ enterprise \in [Enterprises -> EnterpriseRows \cup {NULL}]
    /\ account \in [Users -> Accounts \cup {NULL}]
    /\ superAdmin \in [Enterprises -> Users \cup {NULL}]
    /\ authTask \in [AuthSlots -> AuthTasks]
    /\ tokens \subseteq Tokens
    /\ sessions \subseteq Sessions
    /\ \A s \in AuthSlots : SoundAuth(s, authTask[s])

\* Rows of enterprises and users stay, whatever they become.
AuthRowsStay ==
    /\ \A e \in Enterprises : enterprise[e] # NULL => enterprise'[e] # NULL
    /\ \A u \in Users : account[u] # NULL => account'[u] # NULL

LEMMA RegNulls ==
    NULL \notin EnterpriseRows \cup Accounts \cup Enterprises \cup Emails
BY DEF RegistrationAssumption

LEMMA IdleAuthType ==
    /\ IdleAuth \in AuthTasks
    /\ IdleAuth.at = "idle" /\ IdleAuth.op = "none" /\ IdleAuth.cut = {}
BY DEF IdleAuth, AuthTasks

LEMMA IdleAuthSound == ASSUME NEW s PROVE SoundAuth(s, IdleAuth)
BY IdleAuthType DEF SoundAuth

LEMMA AuthMoves ==
    ASSUME RegInv, NEW s \in AuthSlots, NEW t \in AuthTasks, AuthBecomes(s, t),
           AuthRowsStay, SoundAuth(s, t) \/ SoundAuth(s, t)',
           PrefInv',
           enterprise' \in [Enterprises -> EnterpriseRows \cup {NULL}],
           account' \in [Users -> Accounts \cup {NULL}],
           superAdmin' \in [Enterprises -> Users \cup {NULL}],
           tokens' \subseteq Tokens, sessions' \subseteq Sessions
    PROVE  RegInv'
<1>1. /\ authTask' \in [AuthSlots -> AuthTasks]
      /\ authTask'[s] = t
      /\ \A r \in AuthSlots \ {s} : authTask'[r] = authTask[r]
  BY DEF RegInv, AuthBecomes
<1>2. ASSUME NEW r, NEW a \in AuthTasks, SoundAuth(r, a)
      PROVE  SoundAuth(r, a)'
  <2>1. a.cut \subseteq Users
    BY DEF AuthTasks
  <2>2. QED
    BY <1>2, <2>1 DEF SoundAuth, AuthRowsStay
<1>3. ASSUME NEW r \in AuthSlots
      PROVE  SoundAuth(r, authTask[r])'
  <2>1. CASE r = s
    <3>1. SoundAuth(s, t)'
      BY <1>2
    <3>2. QED
      BY <1>1, <2>1, <3>1 DEF SoundAuth
  <2>2. CASE r # s
    <3>1. authTask[r] \in AuthTasks /\ SoundAuth(r, authTask[r])
      BY DEF RegInv
    <3>2. PICK a \in AuthTasks : a = authTask[r] /\ SoundAuth(r, a)
      BY <3>1
    <3>3. SoundAuth(r, a)' /\ authTask'[r] = a
      BY <1>1, <1>2, <2>2, <3>2
    <3>4. QED
      BY <3>3 DEF SoundAuth
  <2>3. QED
    BY <2>1, <2>2
<1>4. QED
  BY <1>1, <1>3 DEF RegInv

\* A step that changes no table of accounts or enterprises.
LEMMA TaskMoves ==
    ASSUME RegInv, NEW s \in AuthSlots, NEW t \in AuthTasks, AuthBecomes(s, t),
           SoundAuth(s, t), UNCHANGED <<prefVars, enterprise, account, superAdmin>>,
           tokens' \subseteq Tokens, sessions' \subseteq Sessions
    PROVE  RegInv'
<1>1. AuthRowsStay
  BY DEF AuthRowsStay
<1>2. PrefInv'
  BY PrefFrameSound DEF RegInv, prefVars
<1>3. QED
  BY <1>1, <1>2, AuthMoves DEF RegInv

LEMMA StartsSoundly ==
    ASSUME RegInv, NEW s \in AuthSlots, NEW t \in AuthTasks, StartAuth(s, t),
           t.op \in AuthWorkload[s] => SoundAuth(s, t)
    PROVE  RegInv'
<1>1. SoundAuth(s, t) /\ AuthBecomes(s, t)
  BY DEF StartAuth
<1>2. UNCHANGED <<prefVars, enterprise, account, superAdmin>> /\ UNCHANGED <<tokens, sessions>>
  BY DEF StartAuth
<1>3. QED
  BY <1>1, <1>2, TaskMoves DEF RegInv

LEMMA RoutesKeepReg ==
    ASSUME RegInv, NEW s \in AuthSlots, AuthController(s)
    PROVE  RegInv'
<1>1. ASSUME NEW email \in NewEmails, NEW subdomain \in Subdomains, NEW e \in Enterprises,
             Register(s, email, subdomain, e) \/ GoogleLoginClient(s, email, subdomain, e)
      PROVE  RegInv'
  <2> DEFINE t(op) == [IdleAuth EXCEPT !.op = op, !.at = "checkEmail", !.enterprise = e,
                                           !.email = email]
  <2>1. StartAuth(s, t("register")) \/ StartAuth(s, t("google"))
    BY <1>1 DEF Register, GoogleLoginClient
  <2>2. enterprise[e] # NULL
    BY <1>1 DEF Register, GoogleLoginClient, Designates
  <2>3. ASSUME NEW op \in {"register", "google"}, StartAuth(s, t(op))
        PROVE  RegInv'
    <3>1. /\ t(op).op = op /\ t(op).at = "checkEmail" /\ t(op).enterprise = e
          /\ t(op).email = email /\ t(op).cut = {}
          /\ t(op) \in AuthTasks
      BY <2>3 DEF IdleAuth, AuthTasks, AuthOps, RegistrationAssumption
    <3>2. t(op).op \in AuthWorkload[s] => SoundAuth(s, t(op))
      BY <2>2, <3>1 DEF SoundAuth, RegistrationAssumption
    <3>3. QED
      BY <2>3, <3>1, <3>2, StartsSoundly
  <2>4. QED
    BY <2>1, <2>3
<1>2. ASSUME NEW email \in NewEmails, NEW subdomain \in Subdomains,
             RegisterEnterprise(s, subdomain, email)
      PROVE  RegInv'
  <2> DEFINE row == [subdomain |-> subdomain, isActive |-> TRUE]
             t == [IdleAuth EXCEPT !.op = "registerEnterprise", !.at = "checkEmail",
                                       !.email = email, !.entity = row]
  <2>1. row \in EnterpriseRows
    BY DEF EnterpriseRows
  <2>2. StartAuth(s, t)
    BY <1>2 DEF RegisterEnterprise
  <2> HIDE DEF row
  <2>3. /\ t.op = "registerEnterprise" /\ t.at = "checkEmail" /\ t.email = email
        /\ t.entity = row /\ t.cut = {} /\ t \in AuthTasks
    BY <2>1 DEF IdleAuth, AuthTasks, AuthOps, RegistrationAssumption
  <2>4. t.op \in AuthWorkload[s] => SoundAuth(s, t)
    BY <2>1, <2>3 DEF SoundAuth, RegistrationAssumption
  <2>5. QED
    BY <2>2, <2>3, <2>4, StartsSoundly
<1>3. ASSUME NEW e \in Enterprises, NEW row \in EnterpriseRows,
             EditEnterprise(s, e, row)
      PROVE  RegInv'
  <2> DEFINE t == [IdleAuth EXCEPT !.op = "edit", !.at = "select", !.enterprise = e,
                                       !.entity = row, !.loaded = UsersOf(e)]
  <2>1. StartAuth(s, t) /\ enterprise[e] # NULL
    BY <1>3 DEF EditEnterprise
  <2>2. UsersOf(e) \subseteq Users
    BY DEF UsersOf
  <2>3. /\ t.op = "edit" /\ t.at = "select" /\ t.enterprise = e /\ t.entity = row
        /\ t.cut = {} /\ t \in AuthTasks
    BY <2>2 DEF IdleAuth, AuthTasks, AuthOps
  <2>4. t.op \in AuthWorkload[s] => SoundAuth(s, t)
    BY <2>1, <2>3 DEF SoundAuth
  <2>5. QED
    BY <2>1, <2>3, <2>4, StartsSoundly
<1>4. QED
  BY <1>1, <1>2, <1>3 DEF AuthController

\* The e-mail address was looked up, or the rows for an edit were.
LEMMA LookupsKeepReg ==
    ASSUME RegInv, NEW s \in AuthSlots,
           CheckEmail(s) \/ CheckAdminEmail(s) \/ EditSelect(s)
    PROVE  RegInv'
<1> DEFINE t == authTask[s]
<1>0. t \in AuthTasks /\ SoundAuth(s, t)
  BY DEF RegInv
<1>1. CASE CheckEmail(s) \/ CheckAdminEmail(s)
  <2>1. PICK at \in {"save", "transaction"} :
           /\ at = "save" => t.op \in {"register", "google"}
           /\ at = "transaction" => t.op = "registerEnterprise"
           /\ AuthBecomes(s, [t EXCEPT !.at = at])
    BY <1>1 DEF CheckEmail, CheckAdminEmail
  <2> DEFINE n == [t EXCEPT !.at = at]
  <2>2. t.at = "checkEmail"
    BY <1>1 DEF CheckEmail, CheckAdminEmail
  <2>3. n \in AuthTasks /\ SoundAuth(s, n)
    BY <1>0, <2>1, <2>2 DEF AuthTasks, SoundAuth
  <2>4. UNCHANGED <<prefVars, enterprise, account, superAdmin>>
        /\ UNCHANGED <<tokens, sessions>>
    BY <1>1 DEF CheckEmail, CheckAdminEmail
  <2>5. QED
    BY <2>1, <2>3, <2>4, TaskMoves DEF RegInv
<1>2. CASE EditSelect(s)
  <2> DEFINE cols == Changed(t.entity, enterprise[t.enterprise])
             rows == {u \in Users : account[u] # NULL /\ account[u].enterprise = t.enterprise}
             cut == CutOff(t.loaded, rows)
             n == [t EXCEPT !.at = "write", !.cols = cols, !.cut = cut]
  <2>1. t.at = "select" /\ AuthBecomes(s, n)
    BY <1>2 DEF EditSelect
  <2>2. UNCHANGED <<prefVars, enterprise, account, superAdmin>>
        /\ UNCHANGED <<tokens, sessions>>
    BY <1>2 DEF EditSelect
  <2>3. cols \in SUBSET {"subdomain", "isActive"}
    <3>1. enterprise[t.enterprise] \in EnterpriseRows
      BY <1>0, <2>1 DEF SoundAuth, RegInv
    <3>2. QED
      BY <3>1 DEF Changed, EnterpriseRows
  <2>4. cut \in SUBSET Users /\ \A u \in cut : account[u] # NULL
    BY DEF CutOff
  <2> HIDE DEF cols, cut
  <2>5. n \in AuthTasks /\ SoundAuth(s, n)
    BY <1>0, <2>1, <2>3, <2>4 DEF AuthTasks, SoundAuth
  <2>6. QED
    BY <2>1, <2>2, <2>5, TaskMoves DEF RegInv
<1>3. QED
  BY <1>1, <1>2

\* A handler that ends without changing a table, with or without a session.
LEMMA AnswersKeepReg ==
    ASSUME RegInv, NEW s \in AuthSlots,
           AuthFails(s) \/ \E u \in Users : FoundByGoogle(s, u)
    PROVE  RegInv'
<1>1. AuthBecomes(s, IdleAuth)
  BY DEF AuthFails, FoundByGoogle, Answer
<1>2. UNCHANGED <<prefVars, enterprise, account, superAdmin>> /\ UNCHANGED tokens
  BY DEF AuthFails, FoundByGoogle
<1>3. sessions' \subseteq Sessions
  <2>1. CASE AuthFails(s)
    BY <2>1 DEF AuthFails, Answer, RegInv
  <2>2. ASSUME NEW u \in Users, FoundByGoogle(s, u)
        PROVE  sessions' \subseteq Sessions
    <3>1. authTask[s].enterprise \in Enterprises
      BY <2>2 DEF FoundByGoogle, RegInv, SoundAuth
    <3>2. QED
      BY <2>2, <3>1 DEF FoundByGoogle, GiveSession, Sessions, RegInv
  <2>3. QED
    BY <2>1, <2>2
<1>4. QED
  BY <1>1, <1>2, <1>3, IdleAuthType, IdleAuthSound, TaskMoves DEF RegInv

LEMMA SavingKeepsReg ==
    ASSUME RegInv, NEW s \in AuthSlots, NEW u \in Users,
           SaveAccount(s, u)
    PROVE  RegInv'
<1> DEFINE t == authTask[s]
           row == [email |-> t.email, enterprise |-> t.enterprise, userType |-> "CLIENT"]
           n == [t EXCEPT !.at = "defaults", !.user = u]
<1>1. t \in AuthTasks /\ SoundAuth(s, t) /\ t.at = "save"
  BY DEF RegInv, SaveAccount
<1>2. /\ account' = [account EXCEPT ![u] = row] /\ AuthBecomes(s, n)
      /\ UNCHANGED <<prefVars, enterprise, superAdmin, tokens, sessions>>
  BY DEF SaveAccount
<1>3. row \in Accounts
  BY <1>1 DEF SoundAuth, Accounts, UserType
<1> HIDE DEF row
<1>4. account' \in [Users -> Accounts \cup {NULL}] /\ AuthRowsStay
  BY <1>2, <1>3, RegNulls DEF RegInv, AuthRowsStay
<1>5. n \in AuthTasks /\ SoundAuth(s, n)
  BY <1>1 DEF AuthTasks, SoundAuth
<1>6. PrefInv'
  BY <1>2, PrefFrameSound DEF RegInv, prefVars
<1>7. QED
  BY <1>2, <1>4, <1>5, <1>6, AuthMoves DEF RegInv

LEMMA DefaultsKeepReg ==
    ASSUME RegInv, NEW s \in AuthSlots, Defaults(s)
    PROVE  RegInv'
<1> DEFINE t == authTask[s]
<1>1. /\ t.at = "defaults" /\ SoundAuth(s, t)
      /\ InsertDefaults(t.user) /\ AuthBecomes(s, IdleAuth)
      /\ UNCHANGED <<prefTask, enterprise, account, superAdmin>>
  BY DEF Defaults, RegInv
<1>2. t.user \in Users /\ t.enterprise \in Enterprises
  BY <1>1 DEF SoundAuth
<1>3. tokens' \subseteq Tokens /\ sessions' \subseteq Sessions
  <2>1. CASE t.op = "registerEnterprise"
    <3>1. t.entity \in EnterpriseRows
      BY <1>1, <2>1 DEF SoundAuth
    <3>2. t.entity.subdomain \in Subdomains
      BY <3>1 DEF EnterpriseRows
    <3>3. QED
      BY <1>2, <2>1, <3>2 DEF Defaults, Tokens, RegInv
  <2>2. CASE t.op # "registerEnterprise"
    BY <1>2, <2>2 DEF Defaults, GiveSession, Sessions, RegInv
  <2>3. QED
    BY <2>1, <2>2
<1>4. PrefInv'
  <2>1. pref' \in [Users -> [ProviderType -> Preferences \cup {NULL}]] /\ RowsStay
    BY <1>1, <1>2, DefaultsKeepRows DEF RegInv, PrefInv
  <2>2. \A r \in PrefSlots : SoundPref(r, prefTask[r])'
    BY <1>1, <2>1 DEF RegInv, PrefInv, PrefTypeOK, PrefTasks, SoundPref, RowsStay
  <2>3. QED
    BY <1>1, <2>1, <2>2 DEF RegInv, PrefInv, PrefTypeOK
<1>5. AuthRowsStay
  BY <1>1 DEF AuthRowsStay
<1>6. QED
  BY <1>1, <1>3, <1>4, <1>5, IdleAuthType, IdleAuthSound, AuthMoves DEF RegInv

LEMMA TransactionKeepsReg ==
    ASSUME RegInv, NEW s \in AuthSlots, NEW e \in Enterprises,
           NEW u \in Users, Transaction(s, e, u)
    PROVE  RegInv'
<1> DEFINE t == authTask[s]
           row == [email |-> t.email, enterprise |-> e, userType |-> "ENTERPRISE_ADMIN"]
           n == [t EXCEPT !.at = "defaults", !.enterprise = e, !.user = u]
<1>1. /\ t \in AuthTasks /\ SoundAuth(s, t) /\ t.at = "transaction"
      /\ t.op = "registerEnterprise" /\ t.entity \in EnterpriseRows
  BY DEF RegInv, Transaction, NewEnterprise, SoundAuth
<1>2. /\ enterprise' = [enterprise EXCEPT ![e] = t.entity]
      /\ account' = [account EXCEPT ![u] = row]
      /\ superAdmin' = [superAdmin EXCEPT ![e] = u]
      /\ AuthBecomes(s, n)
      /\ UNCHANGED <<prefVars, tokens, sessions>>
  BY DEF Transaction, NewEnterprise, NewAdmin
<1>3. row \in Accounts
  BY <1>1 DEF SoundAuth, Accounts, UserType
<1> HIDE DEF row
<1>4. /\ account' \in [Users -> Accounts \cup {NULL}]
      /\ enterprise' \in [Enterprises -> EnterpriseRows \cup {NULL}]
      /\ superAdmin' \in [Enterprises -> Users \cup {NULL}]
      /\ AuthRowsStay
  BY <1>1, <1>2, <1>3, RegNulls DEF RegInv, AuthRowsStay
<1>5. n \in AuthTasks /\ SoundAuth(s, n)
  BY <1>1 DEF AuthTasks, SoundAuth
<1>6. PrefInv'
  BY <1>2, PrefFrameSound DEF RegInv, prefVars
<1>7. QED
  BY <1>2, <1>4, <1>5, <1>6, AuthMoves DEF RegInv

LEMMA EditWriteKeepsReg ==
    ASSUME RegInv, NEW s \in AuthSlots, EditWrite(s)
    PROVE  RegInv'
<1> DEFINE t == authTask[s]
           row == Written(enterprise[t.enterprise], t.entity, t.cols)
<1>1. t \in AuthTasks /\ SoundAuth(s, t) /\ t.at = "write"
  BY DEF RegInv, EditWrite
<1>2. /\ enterprise' = [enterprise EXCEPT ![t.enterprise] = row]
      /\ account' = [u \in Users |->
             IF u \in t.cut THEN [account[u] EXCEPT !.enterprise = NULL] ELSE account[u]]
      /\ AuthBecomes(s, IdleAuth)
      /\ UNCHANGED <<prefVars, superAdmin, tokens, sessions>>
  BY DEF EditWrite, Answer
<1>3. /\ t.enterprise \in Enterprises /\ enterprise[t.enterprise] \in EnterpriseRows
      /\ t.entity \in EnterpriseRows
  BY <1>1 DEF SoundAuth, RegInv
<1>4. row \in EnterpriseRows
  BY <1>3 DEF Written, EnterpriseRows
<1>5. \A u \in t.cut : u \in Users /\ account[u] \in Accounts
  BY <1>1 DEF SoundAuth, AuthTasks, RegInv
<1>6. \A u \in t.cut : [account[u] EXCEPT !.enterprise = NULL] \in Accounts
  BY <1>5 DEF Accounts
<1> HIDE DEF row
<1>7. /\ account' \in [Users -> Accounts \cup {NULL}]
      /\ enterprise' \in [Enterprises -> EnterpriseRows \cup {NULL}]
      /\ AuthRowsStay
  BY <1>2, <1>3, <1>4, <1>6, RegNulls DEF RegInv, AuthRowsStay
<1>8. PrefInv'
  BY <1>2, PrefFrameSound DEF RegInv, prefVars
<1>9. QED
  BY <1>2, <1>7, <1>8, IdleAuthType, IdleAuthSound, AuthMoves DEF RegInv

LEMMA RegInitSound == RegInit => RegInv
<1> SUFFICES ASSUME RegInit PROVE RegInv
  OBVIOUS
<1>1. PrefInv
  BY PrefInitSound DEF RegInit
<1>2. QED
  BY <1>1, IdleAuthType, IdleAuthSound DEF RegInit, AuthInit, RegInv,
     RegistrationAssumption

LEMMA RegNextSound ==
    ASSUME RegInv, [RegNext]_regVars
    PROVE  RegInv'
<1>0. RegInv /\ PrefInv' /\ UNCHANGED <<enterprise, account, superAdmin, authTask>>
      /\ tokens' \subseteq Tokens /\ sessions' \subseteq Sessions => RegInv'
  BY DEF RegInv, SoundAuth
<1>1. ASSUME NEW s \in AuthSlots, AuthStep(s)
      PROVE  RegInv'
  BY <1>1, RoutesKeepReg, LookupsKeepReg, AnswersKeepReg, SavingKeepsReg, DefaultsKeepReg,
     TransactionKeepsReg, EditWriteKeepsReg DEF AuthStep
<1>2. CASE SessionStep
  <2>1. UNCHANGED <<prefVars, enterprise, account, superAdmin, authTask>>
    BY <1>2 DEF SessionStep, ActivateAccount, Login, Expire
  <2>2. tokens' \subseteq Tokens /\ sessions' \subseteq Sessions
    BY <1>2 DEF SessionStep, ActivateAccount, Login, Expire, RegInv,
       GiveSession, Sessions, Tokens, AccountsWith
  <2>3. PrefInv'
    BY <2>1, PrefFrameSound DEF RegInv, prefVars
  <2>4. QED
    BY <1>0, <2>1, <2>2, <2>3
<1>3. ASSUME NEW s \in PrefSlots, NEW U \in SUBSET Users,
             PreferencesController(s, U) \/ PrefGoesOn(s), UNCHANGED authVars
      PROVE  RegInv'
  <2>1. PrefInv'
    BY <1>3, RoutesKeepSound, PrefGoesOnSoundly DEF RegInv
  <2>2. QED
    BY <1>0, <1>3, <2>1 DEF authVars, RegInv
<1>4. CASE RegCrash
  <2>1. PrefInv'
    BY <1>4, PrefFrameSound DEF RegCrash, RegInv
  <2>2. QED
    BY <1>4, <2>1, IdleAuthType, IdleAuthSound DEF RegCrash, RegInv, SoundAuth
<1>5. CASE UNCHANGED regVars
  <2>1. PrefInv'
    BY <1>5, PrefFrameSound DEF regVars, prefVars, RegInv
  <2>2. QED
    BY <1>0, <1>5, <2>1 DEF regVars, authVars, RegInv
<1>6. ASSUME NEW s \in PrefSlots, UNCHANGED authVars,
             \/ PreferencesController(s, {u \in Users : account[u] # NULL})
             \/ PrefGoesOn(s)
      PROVE  RegInv'
  <2>1. {u \in Users : account[u] # NULL} \in SUBSET Users
    OBVIOUS
  <2>2. QED
    BY <1>3, <1>6, <2>1
<1>7. QED
  BY <1>1, <1>2, <1>4, <1>5, <1>6 DEF RegNext

LEMMA RegInvHolds == RegSpec => []RegInv
<1>1. RegInv /\ [RegNext]_regVars => RegInv'
  BY RegNextSound
<1>2. QED
  BY <1>1, RegInitSound, PTL DEF RegSpec

\* The tables of enterprises and accounts and the handlers of registrations
\* have their types: no row of either is ever lost.
THEOREM RegistrationTypeCorrect == RegSpec => []RegTypeOK
<1>1. RegInv => RegTypeOK
  BY DEF RegInv, PrefInv, RegTypeOK
<1>2. QED
  BY <1>1, RegInvHolds, PTL

-----------------------------------------------------------------------------
(* Enterprises and accounts stay together *)

\* The condition: no edit of an enterprise overlaps the making of an account
\* in an enterprise that exists.
EditsApart ==
    \A s, r \in AuthSlots :
        s # r /\ "edit" \in AuthWorkload[s] =>
            AuthWorkload[r] \subseteq {"registerEnterprise", "edit"}

DistinctSubdomains ==
    \A d, e \in Enterprises :
        /\ enterprise[d] # NULL /\ enterprise[e] # NULL
        /\ enterprise[d].subdomain = enterprise[e].subdomain
        => d = e

AccountsRefer ==
    \A u \in Users :
        account[u] # NULL /\ account[u].enterprise # NULL =>
            enterprise[account[u].enterprise] # NULL

\* No account becomes a super admin, and one that is stays in no enterprise.
SuperAdminsStay ==
    \A u \in Users :
        account[u] # NULL /\ account[u].userType = "SUPER_ADMIN" =>
            u \in SuperAdmins /\ account[u].enterprise = NULL

\* What SessionsApart says of one session.
AtHome(x) ==
    /\ account[x.user] # NULL
    /\ \/ x.enterprise # NULL /\ account[x.user].enterprise = x.enterprise
       \/ x.user \in SuperAdmins /\ account[x.user].enterprise = NULL

\* An edit in flight has the users of its enterprise and cuts none off, and an
\* account that waits for its defaults is in the handler's enterprise.
Together(t) ==
    /\ t.at \in {"select", "write"} => t.loaded = UsersOf(t.enterprise)
    /\ t.at = "write" => t.cut = {}
    /\ t.at = "defaults" => account[t.user] # NULL /\ account[t.user].enterprise = t.enterprise

RegApart ==
    /\ DistinctSubdomains
    /\ AccountsRefer
    /\ SuperAdminsStay
    /\ \A s \in AuthSlots : Together(authTask[s])
    /\ SessionsApart
    /\ EnterpriseHasAdmin

\* No account there was is changed, nor who belongs to an enterprise that is
\* being edited.
AccountsKeep(s) ==
    /\ \A u \in Users : account[u] # NULL => account'[u] = account[u]
    /\ \A r \in AuthSlots \ {s}, e \in Enterprises :
          authTask[r].at \in {"select", "write"} /\ authTask[r].enterprise = e =>
              UsersOf(e)' = UsersOf(e)

LEMMA ApartMoves ==
    ASSUME RegInv, RegApart, NEW s \in AuthSlots, NEW t, AuthBecomes(s, t), Together(t)',
           AccountsKeep(s), DistinctSubdomains', AccountsRefer', SuperAdminsStay',
           EnterpriseHasAdmin',
           \A x \in sessions' \ sessions : AtHome(x)'
    PROVE  RegApart'
<1>1. authTask'[s] = t /\ \A r \in AuthSlots \ {s} : authTask'[r] = authTask[r]
  BY DEF RegInv, AuthBecomes
<1>2. ASSUME NEW r \in AuthSlots
      PROVE  Together(authTask[r])'
  <2>1. CASE r = s
    BY <1>1, <2>1 DEF Together
  <2>2. CASE r # s
    <3>1. authTask'[r] = authTask[r] /\ Together(authTask[r]) /\ SoundAuth(r, authTask[r])
      BY <1>1, <2>2 DEF RegApart, RegInv
    <3>2. PICK a : a = authTask[r]
      OBVIOUS
    <3>3. /\ a.at \in {"select", "write"} => a.enterprise \in Enterprises
          /\ a.at = "defaults" => a.user \in Users
      BY <3>1, <3>2 DEF SoundAuth
    <3>4. a.at \in {"select", "write"} => UsersOf(a.enterprise)' = UsersOf(a.enterprise)
      BY <2>2, <3>2, <3>3 DEF AccountsKeep
    <3>5. Together(a)'
      BY <3>1, <3>2, <3>3, <3>4 DEF Together, AccountsKeep
    <3>6. QED
      BY <3>1, <3>2, <3>5 DEF Together
  <2>3. QED
    BY <2>1, <2>2
<1>3. SessionsApart'
  <2>1. \A x \in sessions : x.user \in Users
    BY DEF RegInv, Sessions
  <2>2. ASSUME NEW x \in sessions PROVE AtHome(x)'
    BY <2>1 DEF RegApart, SessionsApart, AccountsKeep, AtHome
  <2>3. \A x \in sessions' : AtHome(x)'
    BY <2>2
  <2>4. QED
    BY <2>3 DEF SessionsApart, AtHome
<1>4. QED
  BY <1>2, <1>3 DEF RegApart

\* A step that changes neither enterprises nor accounts.
LEMMA ApartFrame ==
    ASSUME RegInv, RegApart, NEW s \in AuthSlots, NEW t, AuthBecomes(s, t), Together(t),
           UNCHANGED <<enterprise, account, superAdmin>>,
           \A x \in sessions' \ sessions : AtHome(x)
    PROVE  RegApart'
<1>1. AccountsKeep(s) /\ Together(t)'
  BY DEF AccountsKeep, UsersOf, Together
<1>2. DistinctSubdomains' /\ AccountsRefer' /\ SuperAdminsStay' /\ EnterpriseHasAdmin'
  BY DEF RegApart, DistinctSubdomains, AccountsRefer, SuperAdminsStay, EnterpriseHasAdmin
<1>3. \A x \in sessions' \ sessions : AtHome(x)'
  BY DEF AtHome
<1>4. QED
  BY <1>1, <1>2, <1>3, ApartMoves

LEMMA IdleIsTogether == Together(IdleAuth) /\ Together(IdleAuth)'
BY IdleAuthType DEF Together

LEMMA RoutesStayApart ==
    ASSUME RegInv, RegApart, NEW s \in AuthSlots, AuthController(s)
    PROVE  RegApart'
<1>1. ASSUME NEW t, StartAuth(s, t), Together(t) PROVE RegApart'
  BY <1>1, ApartFrame DEF StartAuth
<1>2. ASSUME NEW email \in NewEmails, NEW subdomain \in Subdomains, NEW e \in Enterprises,
             Register(s, email, subdomain, e) \/ GoogleLoginClient(s, email, subdomain, e)
      PROVE  RegApart'
  <2> DEFINE t(op) == [IdleAuth EXCEPT !.op = op, !.at = "checkEmail", !.enterprise = e,
                                           !.email = email]
  <2>1. \A op : t(op).at = "checkEmail"
    BY DEF IdleAuth
  <2>2. \A op : Together(t(op))
    BY <2>1 DEF Together
  <2>3. QED
    BY <1>1, <1>2, <2>2 DEF Register, GoogleLoginClient
<1>3. ASSUME NEW email \in NewEmails, NEW subdomain \in Subdomains,
             RegisterEnterprise(s, subdomain, email)
      PROVE  RegApart'
  <2> DEFINE t == [IdleAuth EXCEPT !.op = "registerEnterprise", !.at = "checkEmail",
                       !.email = email, !.entity = [subdomain |-> subdomain, isActive |-> TRUE]]
  <2>1. t.at = "checkEmail"
    BY DEF IdleAuth
  <2>2. Together(t)
    BY <2>1 DEF Together
  <2>3. QED
    BY <1>1, <1>3, <2>2 DEF RegisterEnterprise
<1>4. ASSUME NEW e \in Enterprises, NEW row \in EnterpriseRows,
             EditEnterprise(s, e, row)
      PROVE  RegApart'
  <2> DEFINE t == [IdleAuth EXCEPT !.op = "edit", !.at = "select", !.enterprise = e,
                                       !.entity = row, !.loaded = UsersOf(e)]
  <2>1. t.at = "select" /\ t.enterprise = e /\ t.loaded = UsersOf(e)
    BY DEF IdleAuth
  <2>2. Together(t)
    BY <2>1 DEF Together
  <2>3. QED
    BY <1>1, <1>4, <2>2 DEF EditEnterprise
<1>5. QED
  BY <1>2, <1>3, <1>4 DEF AuthController

LEMMA LookupsStayApart ==
    ASSUME RegInv, RegApart, NEW s \in AuthSlots,
           CheckEmail(s) \/ CheckAdminEmail(s) \/ EditSelect(s)
    PROVE  RegApart'
<1> DEFINE t == authTask[s]
<1>0. t \in AuthTasks /\ Together(t)
  BY DEF RegInv, RegApart
<1>1. CASE CheckEmail(s) \/ CheckAdminEmail(s)
  <2>1. PICK at \in {"save", "transaction"} : AuthBecomes(s, [t EXCEPT !.at = at])
    BY <1>1 DEF CheckEmail, CheckAdminEmail
  <2>2. [t EXCEPT !.at = at].at = at
    BY <1>0 DEF AuthTasks
  <2>3. Together([t EXCEPT !.at = at])
    BY <2>2 DEF Together
  <2>4. UNCHANGED <<enterprise, account, superAdmin, sessions>>
    BY <1>1 DEF CheckEmail, CheckAdminEmail
  <2>5. QED
    BY <2>1, <2>3, <2>4, ApartFrame
<1>2. CASE EditSelect(s)
  <2> DEFINE rows == {u \in Users : account[u] # NULL /\ account[u].enterprise = t.enterprise}
             n == [t EXCEPT !.at = "write",
                            !.cols = Changed(t.entity, enterprise[t.enterprise]),
                            !.cut = CutOff(t.loaded, rows)]
  <2>1. t.at = "select" /\ AuthBecomes(s, n)
        /\ UNCHANGED <<enterprise, account, superAdmin, sessions>>
    BY <1>2 DEF EditSelect
  <2>2. /\ n.at = "write" /\ n.enterprise = t.enterprise /\ n.loaded = t.loaded
        /\ n.cut = CutOff(t.loaded, rows)
    BY <1>0 DEF AuthTasks
  <2>3. t.loaded = rows
    BY <1>0, <2>1 DEF Together, UsersOf
  <2>4. n.cut = {}
    BY <2>2, <2>3 DEF CutOff
  <2>5. t.loaded = UsersOf(t.enterprise)
    BY <1>0, <2>1 DEF Together
  <2> HIDE DEF n
  <2>6. Together(n)
    BY <2>2, <2>4, <2>5 DEF Together
  <2>7. QED
    BY <2>1, <2>6, ApartFrame
<1>3. QED
  BY <1>1, <1>2

LEMMA AnswersStayApart ==
    ASSUME RegInv, RegApart, NEW s \in AuthSlots,
           \/ AuthFails(s) \/ Defaults(s)
           \/ \E u \in Users : FoundByGoogle(s, u)
    PROVE  RegApart'
<1>1. AuthBecomes(s, IdleAuth) /\ UNCHANGED <<enterprise, account, superAdmin>>
  BY DEF AuthFails, FoundByGoogle, Answer, Defaults
<1>2. \A x \in sessions' \ sessions : AtHome(x)
  <2>1. CASE AuthFails(s)
    BY <2>1 DEF AuthFails, Answer
  <2>2. CASE Defaults(s)
    <3>1. authTask[s].enterprise \in Enterprises
      BY <2>2 DEF Defaults, RegInv, SoundAuth
    <3>2. QED
      BY <2>2, <3>1, RegNulls DEF Defaults, GiveSession, RegApart, Together, AtHome
  <2>3. ASSUME NEW u \in Users, FoundByGoogle(s, u)
        PROVE  \A x \in sessions' \ sessions : AtHome(x)
    <3>1. authTask[s].enterprise \in Enterprises
      BY <2>3 DEF FoundByGoogle, RegInv, SoundAuth
    <3>2. QED
      BY <2>3, <3>1, RegNulls DEF FoundByGoogle, GiveSession, AccountsWith, AtHome
  <2>4. QED
    BY <2>1, <2>2, <2>3
<1>3. QED
  BY <1>1, <1>2, IdleIsTogether, ApartFrame

LEMMA UsersAreNotNull == \A u \in Users : u # NULL
BY PreferencesAssumption DEF PreferencesAssumption

LEMMA AccountsType ==
    ASSUME RegInv
    PROVE  /\ \A u \in Users : account[u] # NULL /\ account[u].enterprise # NULL =>
                  account[u].enterprise \in Enterprises
           /\ \A e \in Enterprises : superAdmin[e] # NULL => superAdmin[e] \in Users
BY DEF RegInv, Accounts

\* A handler that makes an account in an enterprise that exists is not beside
\* an edit.
LEMMA NobodyEdits ==
    ASSUME EditsApart, RegInv, NEW s \in AuthSlots, NEW r \in AuthSlots \ {s},
           authTask[s].at # "idle", authTask[s].op \in {"register", "google"}
    PROVE  authTask[r].at \notin {"select", "write"}
BY DEF EditsApart, RegInv, SoundAuth

LEMMA SavingStaysApart ==
    ASSUME EditsApart, RegInv, RegApart,
           NEW s \in AuthSlots, NEW u \in Users, SaveAccount(s, u)
    PROVE  RegApart'
<1>1. PICK t : t = authTask[s]
  OBVIOUS
<1>2. PICK row : row = [email |-> t.email, enterprise |-> t.enterprise, userType |-> "CLIENT"]
  OBVIOUS
<1>3. PICK n : n = [t EXCEPT !.at = "defaults", !.user = u]
  OBVIOUS
<1>4. /\ t \in AuthTasks /\ SoundAuth(s, t) /\ t.at = "save"
      /\ t.op \in {"register", "google"}
      /\ t.enterprise \in Enterprises /\ enterprise[t.enterprise] # NULL
  BY <1>1 DEF RegInv, SaveAccount, SoundAuth
<1>5. /\ account' = [account EXCEPT ![u] = row] /\ account[u] = NULL
      /\ AuthBecomes(s, n) /\ UNCHANGED <<enterprise, superAdmin, sessions>>
  BY <1>1, <1>2, <1>3 DEF SaveAccount
<1>6. /\ row \in Accounts /\ row.enterprise = t.enterprise /\ row # NULL
  BY <1>2, <1>4, RegNulls DEF SoundAuth, Accounts, UserType
<1>7. account'[u] = row /\ \A v \in Users \ {u} : account'[v] = account[v]
  BY <1>5 DEF RegInv
<1>8. AccountsKeep(s)
  <2>1. \A r \in AuthSlots \ {s} : authTask[r].at \notin {"select", "write"}
    BY <1>1, <1>4, NobodyEdits
  <2>2. QED
    BY <1>5, <1>7, <2>1 DEF AccountsKeep
<1>9. n.at = "defaults" /\ n.user = u /\ n.enterprise = t.enterprise
  BY <1>3, <1>4 DEF AuthTasks
<1>10. Together(n)'
  BY <1>6, <1>7, <1>9 DEF Together
<1>11. DistinctSubdomains' /\ AccountsRefer'
  BY <1>4, <1>5, <1>6, <1>7 DEF RegApart, DistinctSubdomains, AccountsRefer
<1>12. EnterpriseHasAdmin'
  <2>1. \A e \in Enterprises : superAdmin[e] \in Users \cup {NULL}
    BY DEF RegInv
  <2>2. QED
    BY <1>5, <1>7, <2>1 DEF RegApart, EnterpriseHasAdmin
<1>13. SuperAdminsStay'
  BY <1>2, <1>7 DEF RegApart, SuperAdminsStay
<1>14. QED
  BY <1>5, <1>8, <1>10, <1>11, <1>12, <1>13, ApartMoves

LEMMA TransactionStaysApart ==
    ASSUME RegInv, RegApart,
           NEW s \in AuthSlots, NEW e \in Enterprises, NEW u \in Users, Transaction(s, e, u)
    PROVE  RegApart'
<1>1. PICK t : t = authTask[s]
  OBVIOUS
<1>2. PICK row : row = [email |-> t.email, enterprise |-> e, userType |-> "ENTERPRISE_ADMIN"]
  OBVIOUS
<1>3. PICK n : n = [t EXCEPT !.at = "defaults", !.enterprise = e, !.user = u]
  OBVIOUS
<1>4. /\ t \in AuthTasks /\ t.at = "transaction" /\ t.entity \in EnterpriseRows
      /\ t.email \in Emails
  BY <1>1 DEF RegInv, Transaction, NewEnterprise, SoundAuth
<1>5. /\ enterprise[e] = NULL /\ SubdomainIsFree(t.entity.subdomain)
      /\ enterprise' = [enterprise EXCEPT ![e] = t.entity]
      /\ account[u] = NULL
      /\ account' = [account EXCEPT ![u] = row]
      /\ superAdmin' = [superAdmin EXCEPT ![e] = u]
      /\ AuthBecomes(s, n) /\ UNCHANGED sessions
  BY <1>1, <1>2, <1>3 DEF Transaction, NewEnterprise, NewAdmin
<1>6. /\ row # NULL /\ row.enterprise = e /\ row.userType = "ENTERPRISE_ADMIN"
      /\ t.entity # NULL
  BY <1>2, <1>4, RegNulls DEF Accounts, UserType
<1>7. /\ account'[u] = row /\ \A v \in Users \ {u} : account'[v] = account[v]
      /\ enterprise'[e] = t.entity /\ \A d \in Enterprises \ {e} : enterprise'[d] = enterprise[d]
      /\ superAdmin'[e] = u /\ \A d \in Enterprises \ {e} : superAdmin'[d] = superAdmin[d]
  BY <1>5 DEF RegInv
<1>8. AccountsKeep(s)
  <2>1. ASSUME NEW d \in Enterprises, d # e PROVE UsersOf(d)' = UsersOf(d)
    BY <1>5, <1>6, <1>7, <2>1 DEF UsersOf
  <2>2. \A r \in AuthSlots : authTask[r].at \in {"select", "write"} => authTask[r].enterprise # e
    BY <1>5 DEF RegInv, SoundAuth
  <2>3. QED
    BY <1>5, <1>7, <2>1, <2>2 DEF AccountsKeep
<1>9. n.at = "defaults" /\ n.user = u /\ n.enterprise = e
  BY <1>3, <1>4 DEF AuthTasks
<1>10. Together(n)'
  BY <1>6, <1>7, <1>9 DEF Together
<1>11. DistinctSubdomains'
  BY <1>5, <1>7 DEF RegApart, DistinctSubdomains, SubdomainIsFree
<1>12. AccountsRefer'
  BY <1>6, <1>7, AccountsType DEF RegApart, AccountsRefer
<1>13. EnterpriseHasAdmin'
  <2> SUFFICES ASSUME NEW d \in Enterprises, enterprise'[d] # NULL, FirstEnterprises[d] = NULL
               PROVE  \E v \in Users : /\ superAdmin'[d] = v /\ v # NULL
                                       /\ account'[v] # NULL /\ account'[v].enterprise = d
                                       /\ account'[v].userType = "ENTERPRISE_ADMIN"
    BY DEF EnterpriseHasAdmin
  <2>1. CASE d = e
    BY <1>6, <1>7, <2>1, UsersAreNotNull
  <2>2. CASE d # e
    <3>1. /\ superAdmin[d] # NULL /\ account[superAdmin[d]] # NULL
          /\ account[superAdmin[d]].enterprise = d
          /\ account[superAdmin[d]].userType = "ENTERPRISE_ADMIN"
      BY <1>7, <2>2 DEF RegApart, EnterpriseHasAdmin
    <3>2. superAdmin[d] \in Users /\ superAdmin[d] # u
      BY <1>5, <3>1, AccountsType
    <3>3. QED
      BY <1>7, <2>2, <3>1, <3>2
  <2>3. QED
    BY <2>1, <2>2
<1>14. SuperAdminsStay'
  BY <1>6, <1>7 DEF RegApart, SuperAdminsStay
<1>15. QED
  BY <1>5, <1>8, <1>10, <1>11, <1>12, <1>13, <1>14, ApartMoves

LEMMA EditWriteStaysApart ==
    ASSUME RegInv, RegApart, NEW s \in AuthSlots, EditWrite(s)
    PROVE  RegApart'
<1>1. PICK t : t = authTask[s]
  OBVIOUS
<1>2. PICK row : row = Written(enterprise[t.enterprise], t.entity, t.cols)
  OBVIOUS
<1>3. /\ t.at = "write" /\ SoundAuth(s, t) /\ Together(t)
  BY <1>1 DEF RegInv, RegApart, EditWrite
<1>4. /\ row.subdomain # enterprise[t.enterprise].subdomain =>
             SubdomainIsFree(row.subdomain)
      /\ enterprise' = [enterprise EXCEPT ![t.enterprise] = row]
      /\ account' = [u \in Users |->
             IF u \in t.cut THEN [account[u] EXCEPT !.enterprise = NULL] ELSE account[u]]
      /\ AuthBecomes(s, IdleAuth)
      /\ UNCHANGED <<superAdmin, sessions>>
  BY <1>1, <1>2 DEF EditWrite, Answer
<1>5. /\ t.enterprise \in Enterprises /\ enterprise[t.enterprise] \in EnterpriseRows
      /\ t.entity \in EnterpriseRows /\ t.cut = {}
  BY <1>3 DEF SoundAuth, RegInv, Together
<1>6. row \in EnterpriseRows /\ row # NULL
  BY <1>2, <1>5, RegNulls DEF Written, EnterpriseRows
<1>7. \A u \in Users : account'[u] = account[u]
  BY <1>4, <1>5
<1>8. /\ enterprise'[t.enterprise] = row
      /\ \A d \in Enterprises \ {t.enterprise} : enterprise'[d] = enterprise[d]
      /\ enterprise[t.enterprise] # NULL
  BY <1>4, <1>5, RegNulls DEF RegInv
<1>9. AccountsKeep(s)
  BY <1>7 DEF AccountsKeep, UsersOf
<1>10. DistinctSubdomains'
  BY <1>4, <1>5, <1>8 DEF RegApart, DistinctSubdomains, SubdomainIsFree
<1>11. AccountsRefer'
  BY <1>6, <1>7, <1>8, AccountsType DEF RegApart, AccountsRefer
<1>12. EnterpriseHasAdmin'
  <2>1. \A d \in Enterprises : enterprise'[d] # NULL => enterprise[d] # NULL
    BY <1>8
  <2>2. QED
    BY <1>4, <1>7, <2>1, AccountsType DEF RegApart, EnterpriseHasAdmin
<1>13. SuperAdminsStay'
  BY <1>7 DEF RegApart, SuperAdminsStay
<1>14. QED
  BY <1>4, <1>9, <1>10, <1>11, <1>12, <1>13, IdleIsTogether, ApartMoves

\* Of two enterprises with one subdomain there is one: whoever is found by it
\* belongs to the enterprise that is.
LEMMA MatchIsHome ==
    ASSUME RegInv, RegApart, NEW u \in Users, NEW subdomain \in Subdomains \cup {NULL},
           NEW e \in Enterprises \cup {NULL}, account[u] # NULL,
           EnterpriseMatches(u, subdomain), AskedFor(subdomain, e)
    PROVE  e # NULL /\ account[u].enterprise = e
<1>1. account[u].enterprise # NULL /\ enterprise[account[u].enterprise].subdomain = subdomain
  BY DEF EnterpriseMatches
<1>2. account[u].enterprise \in Enterprises /\ enterprise[account[u].enterprise] # NULL
  BY <1>1, AccountsType DEF RegApart, AccountsRefer
<1>3. e # NULL
  BY <1>1, <1>2 DEF AskedFor
<1>4. QED
  BY <1>1, <1>2, <1>3 DEF AskedFor, RegApart, DistinctSubdomains

LEMMA SessionsStayApart ==
    ASSUME RegInv, RegApart, SessionStep
    PROVE  RegApart'
<1>1. UNCHANGED <<enterprise, account, superAdmin, authTask>>
  BY DEF SessionStep, ActivateAccount, Login, Expire
<1>2. \A x \in sessions' \ sessions : AtHome(x)
  <2>1. ASSUME NEW token \in Tokens, NEW e \in Enterprises \cup {NULL},
               ActivateAccount(token, e)
        PROVE  \A x \in sessions' \ sessions : AtHome(x)
    <3>1. /\ token.user \in Users /\ token.subdomain \in Subdomains
          /\ account[token.user] # NULL /\ EnterpriseMatches(token.user, token.subdomain)
          /\ AskedFor(token.subdomain, e)
      BY <2>1 DEF ActivateAccount, Tokens
    <3>2. e # NULL /\ account[token.user].enterprise = e
      BY <3>1, MatchIsHome
    <3>3. QED
      BY <2>1, <3>1, <3>2 DEF ActivateAccount, GiveSession, AtHome
  <2>2. ASSUME NEW email \in Emails, NEW subdomain \in Subdomains \cup {NULL},
               NEW u \in Users, NEW e \in Enterprises \cup {NULL},
               Login(email, subdomain, u, e)
        PROVE  \A x \in sessions' \ sessions : AtHome(x)
    <3>1. account[u] # NULL /\ AskedFor(subdomain, e)
          /\ (account[u].userType = "SUPER_ADMIN" \/ EnterpriseMatches(u, subdomain))
      BY <2>2 DEF Login, BelongsToSubdomain
    <3>2. CASE account[u].userType = "SUPER_ADMIN"
      <4>1. u \in SuperAdmins /\ account[u].enterprise = NULL
        BY <3>1, <3>2 DEF RegApart, SuperAdminsStay
      <4>2. QED
        BY <2>2, <3>1, <4>1 DEF Login, GiveSession, AtHome
    <3>3. CASE EnterpriseMatches(u, subdomain)
      <4>1. e # NULL /\ account[u].enterprise = e
        BY <3>1, <3>3, MatchIsHome
      <4>2. QED
        BY <2>2, <3>1, <4>1 DEF Login, GiveSession, AtHome
    <3>4. QED
      BY <3>1, <3>2, <3>3
  <2>3. (\E token \in Tokens : Expire(token)) => sessions' = sessions
    BY DEF Expire
  <2>4. QED
    BY <2>1, <2>2, <2>3 DEF SessionStep
<1>3. DistinctSubdomains' /\ AccountsRefer' /\ SuperAdminsStay' /\ EnterpriseHasAdmin'
      /\ \A s \in AuthSlots : Together(authTask[s])'
  BY <1>1 DEF RegApart, DistinctSubdomains, AccountsRefer, SuperAdminsStay,
     EnterpriseHasAdmin, Together, UsersOf
<1>4. \A x \in sessions' : AtHome(x)'
  BY <1>1, <1>2 DEF RegApart, SessionsApart, AtHome
<1>5. SessionsApart'
  BY <1>4 DEF SessionsApart, AtHome
<1>6. QED
  BY <1>3, <1>5 DEF RegApart

LEMMA RegInitApart ==
    ASSUME RegInit
    PROVE  RegApart
<1>1. DistinctSubdomains /\ AccountsRefer /\ SuperAdminsStay
  BY DEF RegistrationAssumption, RegInit, AuthInit, DistinctSubdomains, AccountsRefer,
     SuperAdminsStay, SuperAdmins
<1>2. SessionsApart /\ EnterpriseHasAdmin
  BY DEF RegInit, AuthInit, SessionsApart, EnterpriseHasAdmin
<1>3. \A s \in AuthSlots : Together(authTask[s])
  BY IdleIsTogether DEF RegInit, AuthInit
<1>4. QED
  BY <1>1, <1>2, <1>3 DEF RegApart

LEMMA RegNextApart ==
    ASSUME EditsApart, RegInv, RegApart, [RegNext]_regVars
    PROVE  RegApart'
<1>0. /\ UNCHANGED <<enterprise, account, superAdmin, sessions>>
      /\ UNCHANGED authTask \/ authTask' = [s \in AuthSlots |-> IdleAuth]
      => RegApart'
  <2> SUFFICES ASSUME UNCHANGED <<enterprise, account, superAdmin, sessions>>,
                      UNCHANGED authTask \/ authTask' = [s \in AuthSlots |-> IdleAuth]
               PROVE  RegApart'
    OBVIOUS
  <2>1. /\ DistinctSubdomains' /\ AccountsRefer' /\ SuperAdminsStay'
        /\ EnterpriseHasAdmin' /\ SessionsApart'
    BY DEF RegApart, DistinctSubdomains, AccountsRefer, SuperAdminsStay, EnterpriseHasAdmin,
       SessionsApart
  <2>2. \A s \in AuthSlots : Together(authTask[s])'
    BY IdleAuthType DEF RegApart, Together, UsersOf
  <2>3. QED
    BY <2>1, <2>2 DEF RegApart
<1>1. ASSUME NEW s \in AuthSlots, AuthStep(s)
      PROVE  RegApart'
  BY <1>1, RoutesStayApart, LookupsStayApart, AnswersStayApart, SavingStaysApart,
     TransactionStaysApart, EditWriteStaysApart DEF AuthStep
<1>2. CASE UNCHANGED authVars
  BY <1>0, <1>2 DEF authVars
<1>3. CASE RegCrash
  BY <1>0, <1>3 DEF RegCrash
<1>4. CASE UNCHANGED regVars
  BY <1>0, <1>4 DEF regVars, authVars
<1>5. QED
  BY <1>1, <1>2, <1>3, <1>4, SessionsStayApart DEF RegNext

LEMMA RegApartHolds ==
    ASSUME EditsApart
    PROVE  RegSpec => []RegApart
<1>1. RegInit => RegApart
  BY RegInitApart
<1>2. RegInv /\ RegApart /\ [RegNext]_regVars => RegApart'
  BY RegNextApart
<1>3. QED
  BY <1>1, <1>2, RegInvHolds, PTL DEF RegSpec

\* Whoever has a session for an enterprise's subdomain is and stays an account
\* of that enterprise, although subdomains are changed and given to others, or
\* is a super admin of the seed, who belongs to none and may come from any
\* subdomain (auth-validation.service.ts), if no edit of an enterprise overlaps the
\* making of an account in one that exists (enterprise.service.ts).
THEOREM SessionsStayInTheirEnterprise ==
    ASSUME EditsApart
    PROVE  RegSpec => []SessionsApart
<1>1. RegApart => SessionsApart
  BY DEF RegApart
<1>2. QED
  BY <1>1, RegApartHolds, PTL

\* An enterprise that registered keeps its administrator, whatever fails on
\* the way (auth.service.ts, registerEnterprise); the same condition on edits.
THEOREM AdminsStay ==
    ASSUME EditsApart
    PROVE  RegSpec => []EnterpriseHasAdmin
<1>1. RegApart => EnterpriseHasAdmin
  BY DEF RegApart
<1>2. QED
  BY <1>1, RegApartHolds, PTL
=============================================================================
