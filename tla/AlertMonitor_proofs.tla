------------------------ MODULE AlertMonitor_proofs ------------------------
(***************************************************************************)
(* Theorems about AlertMonitor, for any incidents, any number of cron runs *)
(* and employee requests in flight, and any thresholds.                    *)
(***************************************************************************)
EXTENDS AlertMonitor, TLAPS

USE DEF Columns, AlertLevel, Minutes, New, Exists

-----------------------------------------------------------------------------
(* Lemmas on levels, saves and lists *)

\* The level due for an age is reached at that age.
LEMMA DueIsReached ==
    ASSUME NEW m \in Nat
    PROVE  /\ GetAlertLevel(m) \in AlertLevel
           /\ FirstMinute(GetAlertLevel(m)) <= m
  BY MonitorAssumption DEF MonitorAssumption, GetAlertLevel, FirstMinute

LEMMA FirstMinuteType ==
    ASSUME NEW l \in AlertLevel
    PROVE  FirstMinute(l) \in Nat
  BY MonitorAssumption DEF MonitorAssumption, FirstMinute

\* A save leaves the level that was there or the entity's.
LEMMA WrittenRow ==
    ASSUME NEW r \in Rows, NEW e \in Rows, NEW cols
    PROVE  /\ Written(r, e, cols) \in Rows
           /\ Written(r, e, cols).alertLevel \in {r.alertLevel, e.alertLevel}
  BY DEF Written, Rows

LEMMA ChangedColumns ==
    ASSUME NEW r \in Rows, NEW e
    PROVE  Changed(e, r) \subseteq Columns
  BY DEF Changed, Rows

\* What it takes to be a list of loaded entities.
LEMMA ListType ==
    ASSUME NEW l
    PROVE  l \in Lists <=> DOMAIN l \subseteq Incidents /\ l \in [DOMAIN l -> Rows]
  BY DEF Lists

LEMMA RestType ==
    ASSUME NEW l \in Lists, NEW i
    PROVE  /\ Rest(l, i) \in Lists
           /\ DOMAIN Rest(l, i) \subseteq DOMAIN l
           /\ \A j \in DOMAIN Rest(l, i) : Rest(l, i)[j] = l[j]
  <1>1. DOMAIN l \subseteq Incidents /\ l \in [DOMAIN l -> Rows]
    BY ListType
  <1>2. Rest(l, i) = [j \in DOMAIN l \ {i} |-> l[j]]
    BY DEF Rest, Restrict
  <1>3. Rest(l, i) \in [DOMAIN l \ {i} -> Rows]
    BY <1>1, <1>2
  <1>4. QED
    BY <1>1, <1>2, <1>3, ListType

LEMMA NothingType == Nothing \in Lists /\ DOMAIN Nothing = {}
  BY ListType DEF Nothing

-----------------------------------------------------------------------------
(* The invariant: no row, and no entity anybody holds, is ahead of its age *)

\* What is known of an entity of incident i that somebody has loaded.
Sound(i, e) == i \in Incidents /\ Exists(i) /\ e \in Rows /\ OldEnough(i, e.alertLevel)

SoundRun(s) ==
    /\ s \in RunStates
    /\ \A i \in DOMAIN s.list : Sound(i, s.list[i])
    /\ s.at \in {"select", "write", "notify"} => Sound(s.current, s.entity)

SoundEdit(s) ==
    /\ s \in EditStates
    /\ s.at \in {"select", "write"} => Sound(s.current, s.entity)

Inv ==
    /\ TypeOK
    /\ AlertNeverEarly
    /\ \A r \in Runs : SoundRun(run[r])
    /\ \A d \in Edits : SoundEdit(edit[d])

\* An existing incident has an age.
LEMMA AgeIsNat ==
    ASSUME Inv, NEW i \in Incidents, Exists(i)
    PROVE  minute - createdAt[i] \in Nat /\ createdAt[i] \in Nat /\ minute \in Nat
  <1>1. createdAt[i] \in Nat /\ minute \in Nat /\ row[i].alertLevel \in AlertLevel
    BY MonitorAssumption DEF MonitorAssumption, Inv, TypeOK, Rows
  <1>2. FirstMinute(row[i].alertLevel) \in Nat
    BY <1>1, FirstMinuteType
  <1>3. minute - createdAt[i] >= FirstMinute(row[i].alertLevel)
    BY DEF Inv, AlertNeverEarly, OldEnough
  <1>4. QED
    BY <1>1, <1>2, <1>3

\* The entity with the level that is due is sound.
LEMMA DueIsSound ==
    ASSUME Inv, NEW i \in Incidents, NEW e \in Rows, Exists(i)
    PROVE  Sound(i, [e EXCEPT !.alertLevel = Due(i)])
  <1>1. minute - createdAt[i] \in Nat
    BY AgeIsNat
  <1>2. Due(i) \in AlertLevel /\ FirstMinute(Due(i)) <= minute - createdAt[i]
    BY <1>1, DueIsReached DEF Due
  <1>3. minute - createdAt[i] >= FirstMinute(Due(i))
    BY <1>1, <1>2, FirstMinuteType
  <1>4. [e EXCEPT !.alertLevel = Due(i)] \in Rows
    BY <1>2 DEF Rows
  <1>5. [e EXCEPT !.alertLevel = Due(i)].alertLevel = Due(i)
    BY DEF Rows
  <1>6. QED
    BY <1>3, <1>4, <1>5 DEF Sound, OldEnough

LEMMA NotRunningSound == SoundRun(NotRunning)
  BY NothingType DEF SoundRun, NotRunning, RunAt, RunStates, Rows

LEMMA ContinueSound ==
    ASSUME NEW l \in Lists, \A i \in DOMAIN l : Sound(i, l[i])
    PROVE  SoundRun(Continue(l))
  <1>1. SoundRun(RunAt("loop", l, NULL, New, {}))
    BY DEF SoundRun, RunAt, RunStates, Rows
  <1>2. QED
    BY <1>1, NotRunningSound DEF Continue

\* While clock and incidents stay, what was sound stays sound.
LEMMA SoundStays ==
    ASSUME UNCHANGED <<minute, createdAt>>
    PROVE  /\ \A i \in Incidents, l \in AlertLevel : OldEnough(i, l) => OldEnough(i, l)'
           /\ \A i, e : Sound(i, e) => Sound(i, e)'
           /\ \A s : SoundRun(s) => SoundRun(s)'
           /\ \A s : SoundEdit(s) => SoundEdit(s)'
  BY DEF OldEnough, Sound, SoundRun, SoundEdit

-----------------------------------------------------------------------------
(* The steps *)

LEMMA InitInv == Init => Inv
  <1> SUFFICES ASSUME Init PROVE Inv
    OBVIOUS
  <1>2. \A i \in Incidents : row[i] = New /\ createdAt[i] = NULL
    BY DEF Init
  <1>3. TypeOK
    <2>1. NotRunning \in RunStates
      BY NotRunningSound DEF SoundRun
    <2>2. EditAt("none", NULL, New, {}) \in EditStates
      BY DEF EditAt, EditStates, Rows
    <2>3. QED
      BY <2>1, <2>2, MonitorAssumption DEF MonitorAssumption, Init, TypeOK, Rows
  <1>4. AlertNeverEarly
    BY <1>2 DEF AlertNeverEarly, OldEnough
  <1>5. \A r \in Runs : SoundRun(run[r])
    BY NotRunningSound DEF Init
  <1>6. \A d \in Edits : SoundEdit(edit[d])
    BY DEF Init, SoundEdit, EditAt, EditStates, Rows
  <1>7. QED
    BY <1>3, <1>4, <1>5, <1>6 DEF Inv

\* A step of one run that leaves everything else alone, and the run sound.
LEMMA RunStepInv ==
    ASSUME Inv, NEW r \in Runs, NEW s, SoundRun(s), RunBecomes(r, s),
           UNCHANGED <<minute, createdAt, row, edit>>,
           lastFired' \in Minutes \cup {NULL},
           reminders' \in [Incidents -> [AlertLevel -> 0..2]]
    PROVE  Inv'
  <1>1. s \in RunStates
    BY DEF SoundRun
  <1>2. run' \in [Runs -> RunStates]
    BY <1>1 DEF Inv, TypeOK, RunBecomes
  <1>3. TypeOK'
    BY <1>2 DEF Inv, TypeOK
  <1>4. AlertNeverEarly'
    BY DEF Inv, AlertNeverEarly, OldEnough
  <1>5. \A q \in Runs : SoundRun(run'[q])
    BY DEF Inv, TypeOK, RunBecomes
  <1>6. \A q \in Runs : SoundRun(run[q])'
    BY <1>5, SoundStays
  <1>7. \A d \in Edits : SoundEdit(edit[d])'
    BY SoundStays DEF Inv
  <1>8. QED
    BY <1>3, <1>4, <1>6, <1>7 DEF Inv

\* Likewise a step of one employee request.
LEMMA EditStepInv ==
    ASSUME Inv, NEW d \in Edits, NEW s, SoundEdit(s), EditBecomes(d, s),
           UNCHANGED <<minute, lastFired, createdAt, row, run, reminders>>
    PROVE  Inv'
  <1>1. edit' \in [Edits -> EditStates]
    BY DEF Inv, TypeOK, EditBecomes, SoundEdit
  <1>2. TypeOK'
    BY <1>1 DEF Inv, TypeOK
  <1>3. AlertNeverEarly'
    BY DEF Inv, AlertNeverEarly, OldEnough
  <1>4. \A q \in Runs : SoundRun(run[q])'
    BY SoundStays DEF Inv
  <1>5. \A c \in Edits : SoundEdit(edit'[c])
    BY DEF Inv, TypeOK, EditBecomes
  <1>6. \A c \in Edits : SoundEdit(edit[c])'
    BY <1>5, SoundStays
  <1>7. QED
    BY <1>2, <1>3, <1>4, <1>6 DEF Inv

\* Saving a sound entity over a row that is not ahead of its age leaves one
\* that is not, whichever columns are written.
LEMMA SaveSound ==
    ASSUME Inv, NEW i \in Incidents, NEW e, Sound(i, e), NEW cols,
           row' = [row EXCEPT ![i] = Written(@, e, cols)],
           UNCHANGED <<minute, createdAt>>
    PROVE  row' \in [Incidents -> Rows] /\ AlertNeverEarly'
  <1>1. e \in Rows /\ row[i] \in Rows
    BY DEF Sound, Inv, TypeOK
  <1> DEFINE w == Written(row[i], e, cols)
  <1>2. w \in Rows /\ w.alertLevel \in {row[i].alertLevel, e.alertLevel}
    BY <1>1, WrittenRow
  <1>3. row' = [row EXCEPT ![i] = w]
    OBVIOUS
  <1>4. OldEnough(i, w.alertLevel)
    BY <1>2 DEF Inv, AlertNeverEarly, Sound
  <1> HIDE DEF w
  <1>5. row' \in [Incidents -> Rows]
    BY <1>2, <1>3 DEF Inv, TypeOK
  <1>6. \A j \in Incidents : OldEnough(j, row'[j].alertLevel)
    BY <1>3, <1>4 DEF Inv, AlertNeverEarly, TypeOK
  <1>7. AlertNeverEarly'
    BY <1>6 DEF AlertNeverEarly, OldEnough
  <1>8. QED
    BY <1>5, <1>7

\* Time only makes incidents older, and a creation touches nothing that exists.
LEMMA OlderStays ==
    ASSUME Inv,
           \/ minute' = minute + 1 /\ UNCHANGED createdAt
           \/ /\ UNCHANGED minute
              /\ \E i \in Incidents :
                    ~Exists(i) /\ createdAt' = [createdAt EXCEPT ![i] = minute]
    PROVE  /\ \A j \in Incidents, l \in AlertLevel : OldEnough(j, l) => OldEnough(j, l)'
           /\ \A j, e : Sound(j, e) => Sound(j, e)'
  <1>1. minute \in Nat /\ NULL \notin Nat
    BY MonitorAssumption DEF MonitorAssumption, Inv, TypeOK
  <1>2. FirstMinute("GREEN") = 0
    BY DEF FirstMinute
  <1>3. ASSUME NEW j \in Incidents, NEW l \in AlertLevel, OldEnough(j, l)
        PROVE  OldEnough(j, l)'
    <2>1. FirstMinute(l) \in Nat
      BY FirstMinuteType
    <2>2. CASE Exists(j)
      <3>1. createdAt[j] \in Nat /\ createdAt'[j] = createdAt[j]
        BY <2>2, AgeIsNat DEF Inv, TypeOK
      <3>2. minute' \in Nat /\ minute' >= minute
        BY <1>1
      <3>3. minute - createdAt[j] >= FirstMinute(l)
        BY <2>2, <1>3 DEF OldEnough
      <3>4. minute' - createdAt'[j] >= FirstMinute(l)
        BY <1>1, <2>1, <3>1, <3>2, <3>3
      <3>5. createdAt'[j] # NULL
        BY <1>1, <3>1
      <3>6. FirstMinute(l)' = FirstMinute(l)
        BY DEF FirstMinute
      <3>7. QED
        BY <3>4, <3>5, <3>6 DEF OldEnough
    <2>3. CASE ~Exists(j)
      <3>1. l = "GREEN"
        BY <1>3, <2>3 DEF OldEnough
      <3>2. createdAt'[j] = NULL \/ (createdAt'[j] = minute /\ minute' = minute)
        BY <2>3 DEF Inv, TypeOK
      <3>3. minute - minute >= 0
        BY <1>1
      <3>4. QED
        BY <1>2, <3>1, <3>2, <3>3 DEF OldEnough, FirstMinute
    <2>4. QED
      BY <2>2, <2>3
  <1>4. \A j \in Incidents : Exists(j) => Exists(j)'
    BY <1>1 DEF Inv, TypeOK
  <1>5. QED
    BY <1>3, <1>4 DEF Sound, Rows

LEMMA NextInv == Inv /\ [Next]_vars => Inv'
  <1> SUFFICES ASSUME Inv, [Next]_vars PROVE Inv'
    OBVIOUS
  <1>0. TypeOK /\ NULL \notin Incidents
    BY MonitorAssumption DEF Inv, MonitorAssumption
  <1>1. ASSUME NEW i \in Incidents, Create(i) PROVE Inv'
    <2>1. createdAt' \in [Incidents -> Minutes \cup {NULL}]
      BY <1>0, <1>1 DEF Create, TypeOK
    <2>2. TypeOK'
      BY <1>0, <1>1, <2>1 DEF Create, TypeOK
    <2>3. /\ \A j \in Incidents, l \in AlertLevel : OldEnough(j, l) => OldEnough(j, l)'
          /\ \A j, e : Sound(j, e) => Sound(j, e)'
      BY <1>1, OlderStays DEF Create
    <2>4. \A j \in Incidents : row'[j].alertLevel \in AlertLevel /\ row' = row
      BY <1>0, <1>1 DEF Create, TypeOK, Rows
    <2>5. AlertNeverEarly'
      BY <2>3, <2>4 DEF Inv, AlertNeverEarly
    <2>6. /\ \A r \in Runs : SoundRun(run[r])'
          /\ \A d \in Edits : SoundEdit(edit[d])'
      BY <1>1, <2>3 DEF Inv, SoundRun, SoundEdit, Create
    <2>7. QED
      BY <2>2, <2>5, <2>6 DEF Inv
  <1>2. ASSUME NEW r \in Runs, StartRun(r) PROVE Inv'
    <2>1. Found \subseteq Incidents
      BY DEF Found
    <2>2. Restrict(row, Found) = [i \in Found |-> row[i]]
      BY DEF Restrict
    <2>3. Restrict(row, Found) \in [Found -> Rows]
      BY <1>0, <2>1, <2>2 DEF TypeOK
    <2>4. Restrict(row, Found) \in Lists
      BY <2>1, <2>3 DEF Lists
    <2>5. \A i \in Found : Sound(i, Restrict(row, Found)[i])
      BY <1>0, <2>1, <2>2 DEF Inv, AlertNeverEarly, TypeOK, Sound, Found
    <2> DEFINE s == RunAt("loop", Restrict(row, Found), NULL, New, {})
    <2>6. SoundRun(s)
      BY <2>3, <2>4, <2>5 DEF SoundRun, RunAt, RunStates, Rows
    <2>7. minute \in Minutes
      BY <1>0 DEF TypeOK
    <2> HIDE DEF s
    <2>8. \E t : SoundRun(t) /\ RunBecomes(r, t)
      BY <1>2, <2>6, NotRunningSound DEF StartRun, s
    <2>9. QED
      BY <1>0, <1>2, <2>7, <2>8, RunStepInv DEF StartRun, TypeOK
  <1>3. ASSUME NEW r \in Runs, NEW i \in Incidents, Examine(r, i) PROVE Inv'
    <2> DEFINE l == run[r].list
               e == [l[i] EXCEPT !.alertLevel = Due(i)]
    <2>1. l \in Lists /\ i \in DOMAIN l /\ \A j \in DOMAIN l : Sound(j, l[j])
      BY <1>0, <1>3 DEF Inv, SoundRun, RunStates, Examine
    <2>2. Rest(l, i) \in Lists /\ \A j \in DOMAIN Rest(l, i) : Sound(j, Rest(l, i)[j])
      BY <2>1, RestType
    <2>3. l[i] \in Rows /\ Exists(i)
      BY <2>1 DEF Sound
    <2>4. Sound(i, e)
      BY <2>3, DueIsSound
    <2>5. SoundRun(Continue(Rest(l, i)))
      BY <2>2, ContinueSound
    <2>6. SoundRun(RunAt("select", Rest(l, i), i, e, {}))
      <3> HIDE DEF e, l
      <3>1. QED
        BY <2>2, <2>4 DEF SoundRun, RunAt, RunStates, Sound
    <2>7. \E t : SoundRun(t) /\ RunBecomes(r, t)
      BY <1>3, <2>5, <2>6 DEF Examine
    <2>8. QED
      BY <1>0, <1>3, <2>7, RunStepInv DEF Examine, TypeOK
  <1>4. ASSUME NEW r \in Runs, RunSelect(r) PROVE Inv'
    <2> DEFINE t == run[r]
               c == Changed(t.entity, row[t.current])
    <2>1. SoundRun(t) /\ Sound(t.current, t.entity) /\ t.list \in Lists
      BY <1>4 DEF Inv, SoundRun, RunStates, RunSelect
    <2>2. c \subseteq Columns
      BY <1>0, <2>1, ChangedColumns DEF TypeOK, Sound
    <2>3. SoundRun(RunAt("write", t.list, t.current, t.entity, c))
      <3> HIDE DEF c
      <3>1. QED
        BY <2>1, <2>2 DEF SoundRun, RunAt, RunStates, Sound
    <2>4. QED
      BY <1>0, <1>4, <2>3, RunStepInv DEF RunSelect, TypeOK
  <1>5. ASSUME NEW r \in Runs, RunWrite(r) PROVE Inv'
    <2> DEFINE t == run[r]
    <2>1. t \in RunStates /\ SoundRun(t) /\ Sound(t.current, t.entity)
      BY <1>5 DEF Inv, SoundRun, RunWrite
    <2>2. row' \in [Incidents -> Rows] /\ AlertNeverEarly'
      BY <1>5, <2>1, SaveSound DEF RunWrite, Sound
    <2>3. SoundRun([t EXCEPT !.at = "notify"])
      BY <2>1 DEF SoundRun, RunStates
    <2>4. SoundRun(Continue(t.list))
      BY <2>1, ContinueSound DEF SoundRun, RunStates
    <2>5. \A q \in Runs : SoundRun(run'[q])
      BY <1>0, <1>5, <2>3, <2>4 DEF RunWrite, RunBecomes, Inv, TypeOK
    <2>6. /\ \A q \in Runs : SoundRun(run[q])'
          /\ \A d \in Edits : SoundEdit(edit[d])'
      BY <1>5, <2>5, SoundStays DEF RunWrite, Inv
    <2>7. run' \in [Runs -> RunStates]
      <3>1. \A q \in Runs : run'[q] \in RunStates
        BY <2>5 DEF SoundRun
      <3>2. QED
        BY <1>0, <1>5, <3>1 DEF RunWrite, RunBecomes, TypeOK
    <2>8. TypeOK'
      BY <1>0, <1>5, <2>2, <2>7 DEF TypeOK, RunWrite
    <2>9. QED
      BY <2>2, <2>6, <2>8 DEF Inv
  <1>6. ASSUME NEW r \in Runs, Notify(r) PROVE Inv'
    <2> DEFINE t == run[r]
               n == reminders[t.current][t.entity.alertLevel]
    <2>1. SoundRun(t) /\ Sound(t.current, t.entity) /\ t.list \in Lists
      BY <1>6 DEF Inv, SoundRun, RunStates, Notify
    <2>2. t.current \in Incidents /\ t.entity.alertLevel \in AlertLevel
      BY <2>1 DEF Sound, Rows
    <2>3. n \in 0..2 /\ (IF n = 2 THEN 2 ELSE n + 1) \in 0..2
      BY <1>0, <2>2 DEF TypeOK
    <2>4. reminders' \in [Incidents -> [AlertLevel -> 0..2]]
      BY <1>0, <1>6, <2>2, <2>3 DEF TypeOK, Notify
    <2>5. SoundRun(Continue(t.list))
      BY <2>1, ContinueSound DEF SoundRun
    <2>6. QED
      BY <1>0, <1>6, <2>4, <2>5, RunStepInv DEF Notify, TypeOK
  <1>7. ASSUME NEW r \in Runs, RunFails(r) PROVE Inv'
    BY <1>0, <1>7, NotRunningSound, RunStepInv DEF RunFails, TypeOK
  <1>8. ASSUME NEW d \in Edits, NEW i \in Incidents, NEW active \in BOOLEAN,
               StartEdit(d, i, active)
        PROVE  Inv'
    <2> DEFINE e == [row[i] EXCEPT !.active = active]
    <2>1. e \in Rows /\ e.alertLevel = row[i].alertLevel
      BY <1>0 DEF TypeOK, Rows
    <2>2. Sound(i, e)
      BY <1>8, <2>1 DEF Sound, StartEdit, Inv, AlertNeverEarly
    <2>3. SoundEdit(EditAt("select", i, e, {}))
      <3> HIDE DEF e
      <3>1. QED
        BY <2>1, <2>2 DEF SoundEdit, EditAt, EditStates
    <2>4. QED
      BY <1>8, <2>3, EditStepInv DEF StartEdit
  <1>9. ASSUME NEW d \in Edits, EditSelect(d) PROVE Inv'
    <2> DEFINE t == edit[d]
               c == Changed(t.entity, row[t.current])
    <2>1. Sound(t.current, t.entity)
      BY <1>9 DEF Inv, SoundEdit, EditSelect
    <2>2. c \subseteq Columns
      BY <1>0, <2>1, ChangedColumns DEF TypeOK, Sound
    <2>3. SoundEdit(EditAt("write", t.current, t.entity, c))
      <3> HIDE DEF c
      <3>1. QED
        BY <2>1, <2>2 DEF SoundEdit, EditAt, EditStates, Sound
    <2>4. QED
      BY <1>9, <2>3, EditStepInv DEF EditSelect
  <1>10. ASSUME NEW d \in Edits, EditWrite(d) PROVE Inv'
    <2> DEFINE t == edit[d]
               done == EditAt("done", NULL, New, {})
    <2>1. Sound(t.current, t.entity)
      BY <1>10 DEF Inv, SoundEdit, EditWrite
    <2>2. row' \in [Incidents -> Rows] /\ AlertNeverEarly'
      BY <1>10, <2>1, SaveSound DEF EditWrite, Sound
    <2>3. SoundEdit(done)
      BY DEF SoundEdit, EditAt, EditStates, Rows
    <2>4. \A c \in Edits : SoundEdit(edit'[c])
      BY <1>0, <1>10, <2>3 DEF EditWrite, EditBecomes, Inv, TypeOK
    <2>5. /\ \A q \in Runs : SoundRun(run[q])'
          /\ \A c \in Edits : SoundEdit(edit[c])'
      BY <1>10, <2>4, SoundStays DEF EditWrite, Inv
    <2>6. edit' \in [Edits -> EditStates]
      <3>1. \A c \in Edits : edit'[c] \in EditStates
        BY <2>4 DEF SoundEdit
      <3>2. QED
        BY <1>0, <1>10, <3>1 DEF EditWrite, EditBecomes, TypeOK
    <2>7. TypeOK'
      BY <1>0, <1>10, <2>2, <2>6 DEF TypeOK, EditWrite
    <2>8. QED
      BY <2>2, <2>5, <2>7 DEF Inv
  <1>11. ASSUME Crash PROVE Inv'
    <2>1. \A d \in Edits : SoundEdit(EditAt("done", NULL, New, {})) /\ SoundEdit(edit[d])
      BY DEF SoundEdit, EditAt, EditStates, Rows, Inv
    <2>2. \A d \in Edits : SoundEdit(edit'[d])
      BY <1>11, <2>1 DEF Crash
    <2>3. \A r \in Runs : SoundRun(run'[r])
      BY <1>11, NotRunningSound DEF Crash
    <2>4. /\ \A r \in Runs : SoundRun(run[r])'
          /\ \A d \in Edits : SoundEdit(edit[d])'
      BY <1>11, <2>2, <2>3, SoundStays DEF Crash
    <2>5. /\ run' \in [Runs -> RunStates]
          /\ edit' \in [Edits -> EditStates]
      <3>1. /\ \A r \in Runs : run'[r] \in RunStates
            /\ \A d \in Edits : edit'[d] \in EditStates
        BY <2>2, <2>3 DEF SoundRun, SoundEdit
      <3>2. QED
        BY <1>11, <3>1 DEF Crash
    <2>6. TypeOK'
      BY <1>0, <1>11, <2>5 DEF TypeOK, Crash
    <2>7. AlertNeverEarly'
      BY <1>11 DEF Inv, AlertNeverEarly, OldEnough, Crash
    <2>8. QED
      BY <2>4, <2>6, <2>7 DEF Inv
  <1>12. ASSUME NextMinute PROVE Inv'
    <2>1. minute' \in Minutes
      BY <1>0, <1>12, MonitorAssumption DEF MonitorAssumption, NextMinute, TypeOK
    <2>2. TypeOK'
      BY <1>0, <1>12, <2>1 DEF NextMinute, TypeOK
    <2>3. /\ \A j \in Incidents, l \in AlertLevel : OldEnough(j, l) => OldEnough(j, l)'
          /\ \A j, e : Sound(j, e) => Sound(j, e)'
      BY <1>12, OlderStays DEF NextMinute
    <2>4. \A j \in Incidents : row'[j].alertLevel \in AlertLevel /\ row' = row
      BY <1>0, <1>12 DEF NextMinute, TypeOK, Rows
    <2>5. AlertNeverEarly'
      BY <2>3, <2>4 DEF Inv, AlertNeverEarly
    <2>6. /\ \A r \in Runs : SoundRun(run[r])'
          /\ \A d \in Edits : SoundEdit(edit[d])'
      BY <1>12, <2>3 DEF Inv, SoundRun, SoundEdit, NextMinute
    <2>7. QED
      BY <2>2, <2>5, <2>6 DEF Inv
  <1>13. ASSUME UNCHANGED vars PROVE Inv'
    <2>1. TypeOK' /\ AlertNeverEarly'
      BY <1>0, <1>13 DEF vars, Inv, TypeOK, AlertNeverEarly, OldEnough
    <2>2. /\ \A r \in Runs : SoundRun(run[r])'
          /\ \A d \in Edits : SoundEdit(edit[d])'
      BY <1>13, SoundStays DEF vars, Inv
    <2>3. QED
      BY <2>1, <2>2 DEF Inv
  <1>14. QED
    BY <1>1, <1>2, <1>3, <1>4, <1>5, <1>6, <1>7, <1>8, <1>9, <1>10, <1>11, <1>12, <1>13
       DEF Next, RunStep

-----------------------------------------------------------------------------
(* Theorems *)

LEMMA Invariance == Spec => []Inv
  BY InitInv, NextInv, PTL DEF Spec

\* Every variable keeps its type, however runs and saves overlap.
THEOREM MonitorTypeCorrect == Spec => []TypeOK
  <1>1. Inv => TypeOK
    BY DEF Inv
  <1>2. QED
    BY <1>1, Invariance, PTL

\* No incident is ever stored with a level its age has not reached
\* (updateAlertLevelsAndNotify), for any thresholds in ascending order.
THEOREM NeverEarly == Spec => []AlertNeverEarly
  <1>1. Inv => AlertNeverEarly
    BY DEF Inv
  <1>2. QED
    BY <1>1, Invariance, PTL

-----------------------------------------------------------------------------
(* One run at a time, and nobody's stale save: the level only rises *)

OneRun == \A q, r \in Runs : q = r

Rank(level) ==
    CASE level = "GREEN" -> 0 [] level = "YELLOW" -> 1 [] level = "ORANGE" -> 2
      [] level = "RED" -> 3

\* A level the incident is old enough for is due, or a higher one is.
LEMMA DueIsAhead ==
    ASSUME Inv, NEW i \in Incidents, Exists(i), NEW l \in AlertLevel, OldEnough(i, l),
           l # Due(i)
    PROVE  Due(i) \in AlertLevel /\ Rank(l) < Rank(Due(i))
<1> DEFINE m == minute - createdAt[i]
<1>1. m \in Nat /\ m >= FirstMinute(l)
  BY AgeIsNat DEF OldEnough
<1>2. Due(i) = GetAlertLevel(m)
  BY DEF Due
<1> HIDE DEF m
<1>3. Due(i) \in AlertLevel
  BY <1>1, <1>2, DueIsReached
<1>4. Rank(l) < Rank(GetAlertLevel(m))
  BY <1>1, <1>2, MonitorAssumption DEF MonitorAssumption, GetAlertLevel, FirstMinute, Rank
<1>5. QED
  BY <1>2, <1>3, <1>4

\* A higher level is not one the incident had before.
LEMMA HigherIsNotBelow ==
    ASSUME NEW l \in AlertLevel, NEW h \in AlertLevel, Rank(l) <= Rank(h)
    PROVE  h \notin Below(l)
  BY MonitorAssumption DEF MonitorAssumption, Below, FirstMinute, Rank

\* What the run knows of the rows is still so; the level it is about to write
\* is higher than the row's, and the one it is about to remind of was not
\* reminded of.
CalmRun(s) ==
    /\ \A i \in DOMAIN s.list : s.list[i].alertLevel = row[i].alertLevel
    /\ s.at \in {"select", "write", "notify"} => s.current \notin DOMAIN s.list
    /\ s.at \in {"select", "write"} =>
          Rank(row[s.current].alertLevel) < Rank(s.entity.alertLevel)
    /\ s.at = "write" => "alertLevel" \in s.cols
    /\ s.at = "notify" =>
          /\ row[s.current].alertLevel = s.entity.alertLevel
          /\ reminders[s.current][s.entity.alertLevel] = 0

\* No level above the row's was reminded of, and none twice.
CalmRow(i) ==
    \A l \in AlertLevel :
        /\ reminders[i][l] > 0 => Rank(l) <= Rank(row[i].alertLevel)
        /\ reminders[i][l] <= 1

Calm ==
    /\ \A i \in Incidents : CalmRow(i)
    /\ \A r \in Runs : CalmRun(run[r])

LEMMA NotRunningCalm == CalmRun(NotRunning)
  BY NothingType DEF CalmRun, NotRunning, RunAt

LEMMA ContinueCalm ==
    ASSUME NEW l, \A i \in DOMAIN l : l[i].alertLevel = row[i].alertLevel
    PROVE  CalmRun(Continue(l))
<1>1. CalmRun(RunAt("loop", l, NULL, New, {}))
  BY DEF CalmRun, RunAt
<1>2. QED
  BY <1>1, NotRunningCalm DEF Continue

LEMMA OneRunGoesOn ==
    ASSUME OneRun, TypeOK, NEW r \in Runs, NEW s, RunBecomes(r, s)
    PROVE  \A q \in Runs : run'[q] = s
  BY DEF OneRun, TypeOK, RunBecomes

\* The run goes on and writes nothing.
LEMMA QuietRunKeepsCalm ==
    ASSUME OneRun, TypeOK, Calm, NEW r \in Runs, NEW s, RunBecomes(r, s), CalmRun(s),
           UNCHANGED <<row, reminders>>
    PROVE  Calm'
  BY OneRunGoesOn DEF Calm, CalmRow, CalmRun

LEMMA SelectKeepsCalm ==
    ASSUME OneRun, Inv, Calm, NEW r \in Runs, RunSelect(r)
    PROVE  Calm'
<1> DEFINE t == run[r]
           cols == Changed(t.entity, row[t.current])
           n == RunAt("write", t.list, t.current, t.entity, cols)
<1>1. t.at = "select" /\ RunBecomes(r, n) /\ UNCHANGED <<row, reminders>>
  BY DEF RunSelect
<1>2. CalmRun(t) /\ SoundRun(t) /\ TypeOK
  BY DEF Calm, Inv
<1>3. t.current \in Incidents /\ t.entity \in Rows
  BY <1>1, <1>2 DEF SoundRun, Sound
<1>4. row[t.current] \in Rows
  BY <1>2, <1>3 DEF TypeOK
<1>5. Rank(row[t.current].alertLevel) \in 0..3
  BY <1>4 DEF Rows, Rank
<1>6. t.entity.alertLevel # row[t.current].alertLevel
  BY <1>1, <1>2, <1>5 DEF CalmRun
<1>7. "alertLevel" \in cols
  BY <1>4, <1>6 DEF Changed, Rows
<1> HIDE DEF cols
<1>8. CalmRun(n)
  BY <1>1, <1>2, <1>7 DEF CalmRun, RunAt
<1>9. QED
  BY <1>1, <1>2, <1>8, QuietRunKeepsCalm

\* The write puts a higher level in the row; no reminder of it went out yet.
LEMMA WriteKeepsCalm ==
    ASSUME OneRun, Inv, Calm, NEW r \in Runs, RunWrite(r)
    PROVE  /\ Calm'
           /\ \A i \in Incidents : row'[i].alertLevel \notin Below(row[i].alertLevel)
<1> DEFINE t == run[r]
           c == t.current
           h == t.entity.alertLevel
           new == Written(row[c], t.entity, t.cols)
           told == [t EXCEPT !.at = "notify"]
           n == IF c \in Assigned /\ h # "GREEN" THEN told ELSE Continue(t.list)
<1>1. /\ t.at = "write" /\ RunBecomes(r, n) /\ UNCHANGED reminders
      /\ row' = [row EXCEPT ![c] = new]
  BY DEF RunWrite
<1>2. CalmRun(t) /\ SoundRun(t) /\ TypeOK
  BY DEF Calm, Inv
<1>3. c \in Incidents /\ t.entity \in Rows /\ row[c] \in Rows /\ h \in AlertLevel
      /\ row[c].alertLevel \in AlertLevel
  BY <1>1, <1>2 DEF SoundRun, Sound, TypeOK, Rows
<1>4. Rank(row[c].alertLevel) < Rank(h) /\ "alertLevel" \in t.cols
      /\ c \notin DOMAIN t.list /\ \A i \in DOMAIN t.list : t.list[i].alertLevel = row[i].alertLevel
  BY <1>1, <1>2 DEF CalmRun
<1>5. \A l \in AlertLevel : Rank(l) \in 0..3
  BY DEF Rank
<1>6. new.alertLevel = h
  BY <1>3, <1>4 DEF Written, Rows
<1> HIDE DEF new
<1>7. \A i \in Incidents : row'[i] = IF i = c THEN new ELSE row[i]
  BY <1>1, <1>2, <1>3 DEF TypeOK
<1>8. \A l \in AlertLevel : reminders[c][l] > 0 => Rank(l) <= Rank(h) /\ l # h
  BY <1>3, <1>4, <1>5 DEF Calm, CalmRow
<1>9. \A i \in Incidents : CalmRow(i)'
  BY <1>1, <1>6, <1>7, <1>8 DEF Calm, CalmRow
<1>10. DOMAIN t.list \subseteq Incidents
  BY <1>2, ListType DEF SoundRun, RunStates
<1>11. \A i \in DOMAIN t.list : t.list[i].alertLevel = row'[i].alertLevel
  BY <1>4, <1>7, <1>10
<1>12. reminders[c][h] = 0
  <2>1. reminders[c][h] \in 0..2
    BY <1>2, <1>3 DEF TypeOK
  <2>2. QED
    BY <1>3, <1>8, <2>1
<1>13. \A q \in Runs : CalmRun(run[q])'
  <2>1. \A q \in Runs : run'[q] = n
    BY <1>1, <1>2, OneRunGoesOn
  <2>2. ASSUME NEW q \in Runs, c \in Assigned /\ h # "GREEN"
        PROVE  CalmRun(run[q])'
    <3>1. t \in RunStates
      BY <1>2 DEF SoundRun
    <3>2. told.at = "notify" /\ told.list = t.list /\ told.current = c
          /\ told.entity = t.entity
      BY <3>1 DEF RunStates
    <3>3. run'[q] = told
      BY <2>1, <2>2
    <3> HIDE DEF told
    <3>4. QED
      BY <1>1, <1>3, <1>4, <1>6, <1>7, <1>11, <1>12, <3>2, <3>3 DEF CalmRun
  <2>3. ASSUME NEW q \in Runs, ~ (c \in Assigned /\ h # "GREEN")
        PROVE  CalmRun(run[q])'
    <3>1. run'[q] = Continue(t.list)
      BY <2>1, <2>3
    <3>2. CASE DOMAIN t.list = {}
      BY <3>1, <3>2, NothingType DEF Continue, CalmRun, NotRunning, RunAt
    <3>3. CASE DOMAIN t.list # {}
      <4>1. /\ run'[q].at = "loop"
            /\ run'[q].list = t.list
        BY <3>1, <3>3 DEF Continue, RunAt
      <4>2. QED
        BY <1>11, <4>1 DEF CalmRun
    <3>4. QED
      BY <3>2, <3>3
  <2>4. QED
    BY <2>2, <2>3
<1>14. \A i \in Incidents : row'[i].alertLevel \notin Below(row[i].alertLevel)
  <2> SUFFICES ASSUME NEW i \in Incidents
               PROVE  row'[i].alertLevel \notin Below(row[i].alertLevel)
    OBVIOUS
  <2>1. row[i].alertLevel \in AlertLevel
    BY <1>2 DEF TypeOK, Rows
  <2>2. /\ row'[i].alertLevel \in AlertLevel
        /\ Rank(row[i].alertLevel) <= Rank(row'[i].alertLevel)
    BY <1>3, <1>4, <1>5, <1>6, <1>7, <2>1
  <2>3. QED
    BY <2>1, <2>2, HigherIsNotBelow
<1>15. QED
  BY <1>9, <1>13, <1>14 DEF Calm

LEMMA NotifyKeepsCalm ==
    ASSUME OneRun, Inv, Calm, NEW r \in Runs, Notify(r)
    PROVE  Calm'
<1> DEFINE t == run[r]
           c == t.current
           h == t.entity.alertLevel
<1>1. /\ t.at = "notify" /\ RunBecomes(r, Continue(t.list)) /\ UNCHANGED row
      /\ \/ reminders' = [reminders EXCEPT ![c][h] = IF reminders[c][h] = 2 THEN 2
                                                     ELSE reminders[c][h] + 1]
         \/ UNCHANGED reminders
  BY DEF Notify
<1>2. CalmRun(t) /\ SoundRun(t) /\ TypeOK
  BY DEF Calm, Inv
<1>3. c \in Incidents /\ h \in AlertLevel /\ reminders[c][h] = 0 /\ row[c].alertLevel = h
  BY <1>1, <1>2 DEF SoundRun, Sound, Rows, CalmRun
<1>4. \/ UNCHANGED reminders
      \/ \A i \in Incidents, l \in AlertLevel :
            reminders'[i][l] = IF i = c /\ l = h THEN 1 ELSE reminders[i][l]
  BY <1>1, <1>2, <1>3 DEF TypeOK
<1>5. \A i \in Incidents : CalmRow(i)'
  <2>1. Rank(h) \in 0..3
    BY <1>3 DEF Rank
  <2>2. QED
    BY <1>1, <1>3, <1>4, <2>1 DEF Calm, CalmRow
<1>6. CalmRun(Continue(t.list))
  BY <1>2, ContinueCalm DEF CalmRun
<1>7. \A q \in Runs : run'[q] = Continue(t.list)
  BY <1>1, <1>2, OneRunGoesOn
<1>8. Continue(t.list).at \in {"idle", "loop"}
  BY DEF Continue, NotRunning, RunAt
<1>9. \A q \in Runs : CalmRun(run[q])'
  BY <1>1, <1>6, <1>7, <1>8 DEF CalmRun
<1>10. QED
  BY <1>5, <1>9 DEF Calm

LEMMA StartKeepsCalm ==
    ASSUME OneRun, Inv, Calm, NEW r \in Runs, StartRun(r)
    PROVE  Calm'
<1> DEFINE n == IF Found = {} THEN NotRunning
                ELSE RunAt("loop", Restrict(row, Found), NULL, New, {})
<1>1. RunBecomes(r, n) /\ UNCHANGED <<row, reminders>>
  BY DEF StartRun
<1>2. CalmRun(n)
  BY NotRunningCalm DEF CalmRun, RunAt, Restrict
<1>3. QED
  BY <1>1, <1>2, QuietRunKeepsCalm DEF Inv

LEMMA ExamineKeepsCalm ==
    ASSUME OneRun, Inv, Calm, NEW r \in Runs, NEW i \in Incidents, Examine(r, i)
    PROVE  Calm'
<1> DEFINE t == run[r]
           e == t.list[i]
           rest == Rest(t.list, i)
           new == [e EXCEPT !.alertLevel = Due(i)]
           n == RunAt("select", rest, i, new, {})
<1>1. /\ i \in DOMAIN t.list /\ UNCHANGED <<row, reminders>>
      /\ RunBecomes(r, IF e.alertLevel = Due(i) THEN Continue(rest) ELSE n)
  BY DEF Examine
<1>2. CalmRun(t) /\ SoundRun(t) /\ TypeOK
  BY DEF Calm, Inv
<1>3. Sound(i, e) /\ e.alertLevel = row[i].alertLevel /\ t.list \in Lists
  BY <1>1, <1>2 DEF SoundRun, CalmRun, RunStates
<1>4. \A j \in DOMAIN rest : j # i /\ rest[j].alertLevel = row[j].alertLevel
  <2>1. rest = [j \in DOMAIN t.list \ {i} |-> t.list[j]]
    BY DEF Rest, Restrict
  <2>2. QED
    BY <1>2, <2>1 DEF CalmRun
<1> HIDE DEF rest
<1>5. CASE e.alertLevel = Due(i)
  BY <1>1, <1>2, <1>4, <1>5, ContinueCalm, QuietRunKeepsCalm
<1>6. CASE e.alertLevel # Due(i)
  <2>1. Rank(row[i].alertLevel) < Rank(Due(i))
    BY <1>3, <1>6, DueIsAhead DEF Sound, Rows
  <2>2. new.alertLevel = Due(i)
    BY <1>3 DEF Sound, Rows
  <2> HIDE DEF new
  <2>3. CalmRun(n)
    BY <1>4, <2>1, <2>2 DEF CalmRun, RunAt
  <2>4. QED
    BY <1>1, <1>2, <1>6, <2>3, QuietRunKeepsCalm
<1>7. QED
  BY <1>5, <1>6

LEMMA InitCalm == Init => Calm
  BY NotRunningCalm DEF Init, Calm, CalmRow

\* Who has begun to edit is never again one who has not.
LEMMA NobodyHasEdited ==
    ASSUME Inv, [Next]_vars
    PROVE  NobodyEdited' => NobodyEdited /\ UNCHANGED edit
<1>0. TypeOK
  BY DEF Inv
<1>1. ASSUME NEW d \in Edits, EditSelect(d) \/ EditWrite(d)
      PROVE  ~ NobodyEdited'
  BY <1>0, <1>1 DEF EditSelect, EditWrite, EditBecomes, EditAt, NobodyEdited, TypeOK
<1>2. ASSUME NEW d \in Edits, NEW i \in Incidents, NEW active, StartEdit(d, i, active)
      PROVE  ~ NobodyEdited'
  BY <1>0, <1>2 DEF StartEdit, EditBecomes, EditAt, NobodyEdited, TypeOK
<1>3. CASE Crash
  <2>1. edit' = [d \in Edits |-> IF edit[d].at = "none" THEN edit[d]
                                 ELSE EditAt("done", NULL, New, {})]
    BY <1>3 DEF Crash
  <2>2. NobodyEdited' => NobodyEdited
    BY <2>1 DEF NobodyEdited, EditAt
  <2>3. NobodyEdited => edit' = edit
    BY TypeOK, <2>1 DEF NobodyEdited, TypeOK
  <2>4. QED
    BY <2>2, <2>3
<1>4. CASE UNCHANGED edit
  BY <1>4 DEF NobodyEdited
<1>5. QED
  BY <1>1, <1>2, <1>3, <1>4 DEF Next, RunStep, Create, StartRun, Examine, RunSelect,
     RunWrite, Notify, RunFails, NextMinute, vars

LEMMA NextKeepsCalm ==
    ASSUME OneRun, Inv, NobodyEdited => Calm, [Next]_vars
    PROVE  /\ NobodyEdited' => Calm'
           /\ [NobodyEdited' =>
                  \A i \in Incidents : row'[i].alertLevel \notin Below(row[i].alertLevel)]_row
<1>0. TypeOK
  BY DEF Inv
<1>1. NobodyEdited' => NobodyEdited /\ UNCHANGED edit
  BY NobodyHasEdited
<1> SUFFICES ASSUME NobodyEdited', Calm, UNCHANGED edit
             PROVE  /\ Calm'
                    /\ [\A i \in Incidents :
                           row'[i].alertLevel \notin Below(row[i].alertLevel)]_row
  BY <1>1
<1>2. ASSUME NEW r \in Runs, RunFails(r)
      PROVE  Calm' /\ UNCHANGED row
  BY <1>0, <1>2, NotRunningCalm, QuietRunKeepsCalm DEF RunFails
<1>3. CASE Crash
  <2>1. UNCHANGED <<row, reminders>> /\ \A r \in Runs : run'[r] = NotRunning
    BY <1>3 DEF Crash
  <2>2. QED
    BY <2>1, NotRunningCalm DEF Calm, CalmRow, CalmRun
<1>4. CASE UNCHANGED <<row, run, reminders>>
  BY <1>4 DEF Calm, CalmRow, CalmRun
<1>5. ASSUME NEW d \in Edits, \/ \E i \in Incidents, active \in BOOLEAN : StartEdit(d, i, active)
                              \/ EditSelect(d)
                              \/ EditWrite(d)
      PROVE  FALSE
  BY <1>0, <1>5 DEF StartEdit, EditSelect, EditWrite, EditBecomes, EditAt, NobodyEdited, TypeOK
<1>6. ASSUME NEW r \in Runs, StartRun(r) \/ RunSelect(r) \/ Notify(r)
                             \/ \E i \in Incidents : Examine(r, i)
      PROVE  Calm' /\ UNCHANGED row
  BY <1>6, StartKeepsCalm, SelectKeepsCalm, NotifyKeepsCalm, ExamineKeepsCalm
     DEF StartRun, RunSelect, Notify, Examine
<1>7. QED
  BY <1>2, <1>3, <1>4, <1>5, <1>6, WriteKeepsCalm
     DEF Next, RunStep, Create, NextMinute, vars

\* The employee is reminded of each level at most once, however often a run is
\* given up halfway and the process dies, for any incidents and thresholds.
\* As long as runs do not overlap and until another handler saves an incident.
THEOREM RemindedOnce ==
    ASSUME OneRun
    PROVE  Spec => []RemindedOncePerLevel
<1>1. Inv /\ (NobodyEdited => Calm) => RemindedOncePerLevel
  BY DEF RemindedOncePerLevel, Calm, CalmRow
<1>2. Init => (NobodyEdited => Calm)
  BY InitCalm
<1>3. Inv /\ (NobodyEdited => Calm) /\ [Next]_vars => (NobodyEdited => Calm)'
  BY NextKeepsCalm
<1>4. QED
  BY <1>1, <1>2, <1>3, InitInv, NextInv, PTL DEF Spec

\* Under the same conditions the level shown never goes down.
THEOREM LevelsOnlyRise ==
    ASSUME OneRun
    PROVE  Spec => LevelsRise
<1>1. Init => (NobodyEdited => Calm)
  BY InitCalm
<1>2. Inv /\ (NobodyEdited => Calm) /\ [Next]_vars =>
          /\ (NobodyEdited => Calm)'
          /\ [NobodyEdited' =>
                 \A i \in Incidents : row'[i].alertLevel \notin Below(row[i].alertLevel)]_row
  BY NextKeepsCalm
<1>3. QED
  BY <1>1, <1>2, InitInv, NextInv, PTL DEF Spec, LevelsRise

-----------------------------------------------------------------------------
(* A run that goes through leaves nobody behind *)

\* The level is the one due when the cron last fired, or a higher one.
Reached(i, level) ==
    Exists(i) /\ createdAt[i] <= lastFired =>
        Rank(GetAlertLevel(lastFired - createdAt[i])) <= Rank(level)

\* What the run has passed has reached its level.
Seen(s) ==
    \A i \in Incidents :
        \/ i \in DOMAIN s.list
        \/ s.at \in {"select", "write"} /\ s.current = i
        \/ Reached(i, row[i].alertLevel)

SeenRun(s) ==
    /\ s.at = "idle" => DOMAIN s.list = {}
    /\ \A i \in DOMAIN s.list : s.list[i].active
    /\ s.at \in {"select", "write"} => s.entity.active /\ Reached(s.current, s.entity.alertLevel)
    /\ s.at # "idle" => lastFired \in Minutes /\ lastFired <= minute /\ Seen(s)

Thorough ==
    /\ \A i \in Incidents : row[i].active
    /\ \A r \in Runs : SeenRun(run[r])

\* A run that ends without being given up.
GoesThrough(r) == (StartRun(r) \/ RunStep(r)) /\ run'[r].at = "idle"

\* When a run ends that was not given up halfway, every incident there was
\* when it fired shows at least the level due then, until another handler
\* saves one.
RunsLeaveNoneBehind ==
    [][\A r \in Runs :
           GoesThrough(r) /\ NobodyEdited' =>
               \A i \in Incidents :
                   Exists(i) /\ createdAt[i] <= lastFired' =>
                       row'[i].alertLevel
                           \notin Below(GetAlertLevel(lastFired' - createdAt[i]))]_vars

\* An older incident is due no lower level.
LEMMA OlderIsHigher ==
    ASSUME NEW m \in Nat, NEW n \in Nat, m <= n
    PROVE  /\ Rank(GetAlertLevel(m)) \in 0..3
           /\ Rank(GetAlertLevel(m)) <= Rank(GetAlertLevel(n))
BY MonitorAssumption DEF MonitorAssumption, GetAlertLevel, Rank

LEMMA RankType ==
    ASSUME NEW l \in AlertLevel
    PROVE  Rank(l) \in 0..3
BY DEF Rank

\* The level that is due now was due when the cron fired, or is higher.
LEMMA DueIsReachedByNow ==
    ASSUME Inv, lastFired \in Minutes, lastFired <= minute, NEW i \in Incidents
    PROVE  Reached(i, Due(i))
<1> SUFFICES ASSUME Exists(i), createdAt[i] <= lastFired
             PROVE  Rank(GetAlertLevel(lastFired - createdAt[i])) <= Rank(Due(i))
  BY DEF Reached
<1>1. createdAt[i] \in Nat /\ minute \in Nat /\ lastFired \in Nat
  BY AgeIsNat
<1>2. /\ lastFired - createdAt[i] \in Nat /\ minute - createdAt[i] \in Nat
      /\ lastFired - createdAt[i] <= minute - createdAt[i]
  BY <1>1
<1>3. QED
  BY <1>2, OlderIsHigher DEF Due

LEMMA NotRunningIsDone == NotRunning.at = "idle" /\ DOMAIN NotRunning.list = {}
BY NothingType DEF NotRunning, RunAt

LEMMA NotRunningSeen == SeenRun(NotRunning)
BY NotRunningIsDone DEF SeenRun

\* One step of the run that writes no row: the rest of the state stays.
LEMMA QuietRunStaysThorough ==
    ASSUME OneRun, TypeOK, Thorough, NEW r \in Runs, NEW s, RunBecomes(r, s), SeenRun(s),
           UNCHANGED <<minute, lastFired, createdAt, row>>
    PROVE  Thorough'
<1>1. \A q \in Runs : run'[q] = s
  BY OneRunGoesOn
<1>2. SeenRun(s)'
  BY DEF SeenRun, Seen, Reached
<1>3. QED
  BY <1>1, <1>2 DEF Thorough, SeenRun, Seen, Reached

\* A run that goes on to the next of its list, or ends.
LEMMA ContinueSeen ==
    ASSUME NEW l, \A i \in DOMAIN l : l[i].active, lastFired \in Minutes, lastFired <= minute,
           \A i \in Incidents : i \in DOMAIN l \/ Reached(i, row[i].alertLevel)
    PROVE  SeenRun(Continue(l)) /\ Seen(Continue(l))
<1>1. CASE DOMAIN l = {}
  BY <1>1, NotRunningIsDone, NotRunningSeen DEF Continue, Seen
<1>2. CASE DOMAIN l # {}
  BY <1>2 DEF Continue, RunAt, SeenRun, Seen
<1>3. QED
  BY <1>1, <1>2

LEMMA StartIsThorough ==
    ASSUME OneRun, Inv, Thorough, NEW r \in Runs, StartRun(r)
    PROVE  Thorough' /\ Seen(run[r])'
<1> DEFINE l == Restrict(row, Found)
           n == IF Found = {} THEN NotRunning ELSE RunAt("loop", l, NULL, New, {})
<1>1. /\ RunBecomes(r, n) /\ lastFired' = minute
      /\ UNCHANGED <<minute, createdAt, row>>
  BY DEF StartRun
<1>2. TypeOK /\ minute \in Minutes
  BY DEF Inv, TypeOK
<1>3. \A q \in Runs : run'[q] = n
  BY <1>1, <1>2, OneRunGoesOn
<1>4. Found = {i \in Incidents : Exists(i)}
  BY DEF Thorough, Found
<1>5. l = [i \in Found |-> row[i]]
  BY DEF Restrict
<1>6. n.at # "idle" => n.at = "loop" /\ n.list = l
  BY NotRunningIsDone DEF RunAt
<1>7. DOMAIN n.list = Found /\ \A i \in DOMAIN n.list : n.list[i].active
  <2>1. CASE Found = {}
    BY <2>1, NotRunningIsDone
  <2>2. CASE Found # {}
    BY <1>4, <1>5, <2>2 DEF RunAt, Thorough
  <2>3. QED
    BY <2>1, <2>2
<1>8. n.at \in {"idle", "loop"}
  BY <1>6, NotRunningIsDone
<1> HIDE DEF n
<1>9. \A i \in Incidents : i \in DOMAIN n.list \/ createdAt'[i] = NULL
  BY <1>1, <1>4, <1>7
<1>10. \A q \in Runs : Seen(run[q])'
  BY <1>3, <1>9 DEF Seen, Reached
<1>11. minute <= minute
  BY <1>2, MonitorAssumption DEF MonitorAssumption
<1>12. n.at = "idle" => DOMAIN n.list = {}
  BY <1>4, <1>7, NotRunningIsDone DEF n, RunAt
<1>13. \A q \in Runs : SeenRun(run[q])'
  BY <1>1, <1>2, <1>3, <1>7, <1>8, <1>10, <1>11, <1>12 DEF SeenRun
<1>14. \A i \in Incidents : row'[i].active
  BY <1>1 DEF Thorough
<1>15. QED
  BY <1>10, <1>13, <1>14 DEF Thorough

LEMMA ExamineIsThorough ==
    ASSUME OneRun, Inv, Calm, Thorough, NEW r \in Runs, NEW i \in Incidents, Examine(r, i)
    PROVE  Thorough' /\ Seen(run[r])'
<1> DEFINE t == run[r]
           e == t.list[i]
           rest == Rest(t.list, i)
           new == [e EXCEPT !.alertLevel = Due(i)]
           n == RunAt("select", rest, i, new, {})
<1>1. /\ t.at = "loop" /\ i \in DOMAIN t.list
      /\ UNCHANGED <<minute, lastFired, createdAt, row>>
      /\ RunBecomes(r, IF e.alertLevel = Due(i) THEN Continue(rest) ELSE n)
  BY DEF Examine
<1>2. CalmRun(t) /\ SoundRun(t) /\ SeenRun(t) /\ TypeOK
  BY DEF Calm, Inv, Thorough
<1>3. e \in Rows /\ e.active /\ e.alertLevel = row[i].alertLevel
  BY <1>1, <1>2 DEF SoundRun, Sound, CalmRun, SeenRun
<1>4. lastFired \in Minutes /\ lastFired <= minute /\ Seen(t)
  BY <1>1, <1>2 DEF SeenRun
<1>5. DOMAIN rest = DOMAIN t.list \ {i} /\ \A j \in DOMAIN rest : rest[j].active
  <2>1. rest = [j \in DOMAIN t.list \ {i} |-> t.list[j]]
    BY DEF Rest, Restrict
  <2>2. QED
    BY <1>2, <2>1 DEF SeenRun
<1> HIDE DEF rest
<1>6. Reached(i, Due(i))
  BY <1>4, DueIsReachedByNow
<1>7. \A j \in Incidents : j = i \/ j \in DOMAIN rest \/ Reached(j, row[j].alertLevel)
  BY <1>1, <1>4, <1>5 DEF Seen
<1>8. ASSUME NEW s, RunBecomes(r, s), SeenRun(s), Seen(s)
      PROVE  Thorough' /\ Seen(run[r])'
  <2>1. Thorough'
    BY <1>1, <1>2, <1>8, QuietRunStaysThorough
  <2>2. run'[r] = s
    BY <1>2, <1>8, OneRunGoesOn
  <2>3. QED
    BY <1>1, <1>8, <2>1, <2>2 DEF Seen, Reached
<1>9. CASE e.alertLevel = Due(i)
  <2>1. \A j \in Incidents : j \in DOMAIN rest \/ Reached(j, row[j].alertLevel)
    BY <1>3, <1>6, <1>7, <1>9
  <2>2. SeenRun(Continue(rest)) /\ Seen(Continue(rest))
    BY <1>4, <1>5, <2>1, ContinueSeen
  <2>3. QED
    BY <1>1, <1>8, <1>9, <2>2
<1>10. CASE e.alertLevel # Due(i)
  <2>1. new.alertLevel = Due(i) /\ new.active
    BY <1>3 DEF Rows
  <2> HIDE DEF new
  <2>2. n.at = "select" /\ n.list = rest /\ n.current = i /\ n.entity = new
    BY DEF RunAt
  <2> HIDE DEF n
  <2>3. Seen(n)
    BY <1>7, <2>2 DEF Seen
  <2>4. SeenRun(n)
    BY <1>4, <1>5, <1>6, <2>1, <2>2, <2>3 DEF SeenRun
  <2>5. QED
    BY <1>1, <1>8, <1>10, <2>3, <2>4
<1>11. QED
  BY <1>9, <1>10

LEMMA SelectIsThorough ==
    ASSUME OneRun, Inv, Thorough, NEW r \in Runs, RunSelect(r)
    PROVE  Thorough' /\ run'[r].at = "write"
<1> DEFINE t == run[r]
           n == RunAt("write", t.list, t.current, t.entity, Changed(t.entity, row[t.current]))
<1>1. /\ t.at = "select" /\ RunBecomes(r, n)
      /\ UNCHANGED <<minute, lastFired, createdAt, row>>
  BY DEF RunSelect
<1>2. SeenRun(t) /\ TypeOK
  BY DEF Inv, Thorough
<1>3. n.at = "write" /\ n.list = t.list /\ n.current = t.current /\ n.entity = t.entity
  BY DEF RunAt
<1> HIDE DEF n
<1>4. SeenRun(n)
  BY <1>1, <1>2, <1>3 DEF SeenRun, Seen
<1>5. QED
  BY <1>1, <1>2, <1>3, <1>4, QuietRunStaysThorough, OneRunGoesOn

\* The write brings the row to the level of the entity.
LEMMA WriteIsThorough ==
    ASSUME OneRun, Inv, Calm, Thorough, NEW r \in Runs, RunWrite(r)
    PROVE  Thorough' /\ Seen(run[r])'
<1> DEFINE t == run[r]
           c == t.current
           new == Written(row[c], t.entity, t.cols)
           told == [t EXCEPT !.at = "notify"]
           n == IF c \in Assigned /\ t.entity.alertLevel # "GREEN" THEN told
                ELSE Continue(t.list)
<1>1. /\ t.at = "write" /\ RunBecomes(r, n) /\ UNCHANGED <<minute, lastFired, createdAt>>
      /\ row' = [row EXCEPT ![c] = new]
  BY DEF RunWrite
<1>2. CalmRun(t) /\ SoundRun(t) /\ SeenRun(t) /\ TypeOK
  BY DEF Calm, Inv, Thorough
<1>3. c \in Incidents /\ t.entity \in Rows /\ row[c] \in Rows
  BY <1>1, <1>2 DEF SoundRun, Sound, TypeOK
<1>4. /\ t.entity.active /\ Reached(c, t.entity.alertLevel) /\ "alertLevel" \in t.cols
      /\ lastFired \in Minutes /\ lastFired <= minute /\ Seen(t)
  BY <1>1, <1>2 DEF SeenRun, CalmRun
<1>5. new.alertLevel = t.entity.alertLevel /\ new.active
  BY <1>3, <1>4 DEF Written, Rows, Thorough
<1> HIDE DEF new
<1>6. \A i \in Incidents : row'[i] = IF i = c THEN new ELSE row[i]
  BY <1>1, <1>2, <1>3 DEF TypeOK
<1>7. \A i \in Incidents : i \in DOMAIN t.list \/ Reached(i, row[i].alertLevel)'
  BY <1>1, <1>4, <1>5, <1>6 DEF Seen, Reached
<1>8. \A q \in Runs : run'[q] = n
  BY <1>1, <1>2, OneRunGoesOn
<1>9. lastFired' \in Minutes /\ lastFired' <= minute'
  BY <1>1, <1>4
<1>10. \A i \in DOMAIN t.list : t.list[i].active
  BY <1>2 DEF SeenRun
<1>11. ASSUME NEW q \in Runs
       PROVE  SeenRun(run[q])' /\ Seen(run[q])'
  <2>1. run'[q] = n
    BY <1>8
  <2>2. CASE n = told
    <3>1. run'[q].at = "notify" /\ run'[q].list = t.list
      BY <1>2, <2>1, <2>2 DEF SoundRun, RunStates
    <3>2. QED
      BY <1>7, <1>9, <1>10, <3>1 DEF SeenRun, Seen
  <2>3. CASE n = Continue(t.list)
    <3>1. run'[q] = Continue(t.list)
      BY <2>1, <2>3
    <3>2. CASE DOMAIN t.list = {}
      <4>1. run'[q].at = "idle" /\ DOMAIN run'[q].list = {}
        BY <3>1, <3>2, NotRunningIsDone DEF Continue
      <4>2. QED
        BY <1>7, <3>2, <4>1 DEF SeenRun, Seen
    <3>3. CASE DOMAIN t.list # {}
      <4>1. run'[q].at = "loop" /\ run'[q].list = t.list
        BY <3>1, <3>3 DEF Continue, RunAt
      <4>2. QED
        BY <1>7, <1>9, <1>10, <4>1 DEF SeenRun, Seen
    <3>4. QED
      BY <3>2, <3>3
  <2>4. QED
    BY <2>2, <2>3
<1>12. \A i \in Incidents : row'[i].active
  BY <1>5, <1>6 DEF Thorough
<1>13. QED
  BY <1>11, <1>12 DEF Thorough

LEMMA NotifyIsThorough ==
    ASSUME OneRun, Inv, Thorough, NEW r \in Runs, Notify(r)
    PROVE  Thorough' /\ Seen(run[r])'
<1> DEFINE t == run[r]
<1>1. /\ t.at = "notify" /\ RunBecomes(r, Continue(t.list))
      /\ UNCHANGED <<minute, lastFired, createdAt, row>>
  BY DEF Notify
<1>2. SeenRun(t) /\ TypeOK
  BY DEF Inv, Thorough
<1>3. SeenRun(Continue(t.list)) /\ Seen(Continue(t.list))
  BY <1>1, <1>2, ContinueSeen DEF SeenRun, Seen
<1>4. run'[r] = Continue(t.list)
  BY <1>1, <1>2, OneRunGoesOn
<1>5. Thorough'
  BY <1>1, <1>2, <1>3, QuietRunStaysThorough
<1>6. QED
  BY <1>1, <1>3, <1>4, <1>5 DEF Seen, Reached

\* A new incident is due the level it is created with, and the clock changes
\* nothing that was due when the cron fired.
LEMMA RestStaysThorough ==
    ASSUME Inv, Thorough,
           \/ \E i \in Incidents : Create(i)
           \/ NextMinute
           \/ UNCHANGED <<minute, lastFired, createdAt, row, run>>
    PROVE  Thorough'
<1>1. /\ UNCHANGED <<lastFired, row, run>>
      /\ minute \in Nat /\ minute' \in Nat /\ minute <= minute'
  BY MonitorAssumption DEF MonitorAssumption, Inv, TypeOK, Create, NextMinute
<1>2. ASSUME NEW i \in Incidents, NEW l \in AlertLevel, Reached(i, l),
             lastFired \in Minutes, lastFired <= minute
      PROVE  Reached(i, l)'
  <2>1. CASE UNCHANGED createdAt
    BY <1>1, <1>2, <2>1 DEF Reached
  <2>2. ASSUME NEW j \in Incidents, Create(j)
        PROVE  Reached(i, l)'
    <3>1. CASE i # j
      BY <1>1, <1>2, <2>2, <3>1 DEF Create, Reached, Inv, TypeOK
    <3>2. CASE i = j
      <4>1. createdAt'[i] = minute
        BY <2>2, <3>2 DEF Create, Inv, TypeOK
      <4>2. createdAt'[i] <= lastFired' => lastFired' - createdAt'[i] = 0
        BY <1>1, <1>2, <4>1
      <4>3. Rank(GetAlertLevel(0)) = 0
        BY MonitorAssumption DEF MonitorAssumption, GetAlertLevel, Rank
      <4>4. 0 <= Rank(l)
        BY RankType
      <4>5. QED
        BY <4>2, <4>3, <4>4 DEF Reached
    <3>3. QED
      BY <3>1, <3>2
  <2>3. QED
    BY <2>1, <2>2 DEF NextMinute
<1>3. ASSUME NEW r \in Runs
      PROVE  SeenRun(run[r])'
  <2> DEFINE t == run[r]
  <2>1. SeenRun(t) /\ SoundRun(t) /\ run'[r] = t
    BY <1>1 DEF Thorough, Inv
  <2>2. t.at \in {"select", "write"} =>
            t.current \in Incidents /\ t.entity.alertLevel \in AlertLevel
    BY <2>1 DEF SoundRun, Sound, Rows
  <2>3. \A i \in Incidents : row[i].alertLevel \in AlertLevel
    BY DEF Inv, TypeOK, Rows
  <2>4. t.at # "idle" => lastFired \in Minutes /\ lastFired <= minute
    BY <2>1 DEF SeenRun
  <2>5. lastFired \in Minutes /\ lastFired <= minute => lastFired' <= minute'
    BY <1>1
  <2>6. t.at # "idle" => Seen(t)'
    BY <1>1, <1>2, <2>1, <2>3, <2>4 DEF SeenRun, Seen
  <2>7. QED
    BY <1>1, <1>2, <2>1, <2>2, <2>4, <2>5, <2>6 DEF SeenRun, Seen
<1>4. QED
  BY <1>1, <1>3 DEF Thorough

LEMMA NextIsThorough ==
    ASSUME OneRun, Inv, Calm, Thorough, [Next]_vars, NobodyEdited'
    PROVE  /\ Thorough'
           /\ \A r \in Runs : GoesThrough(r) => Seen(run[r])'
<1>0. NobodyEdited /\ UNCHANGED edit
  BY NobodyHasEdited
<1>1. ASSUME NEW r \in Runs, StartRun(r) \/ RunStep(r)
      PROVE  Thorough' /\ (run'[r].at = "idle" => Seen(run[r])')
  BY <1>1, StartIsThorough, ExamineIsThorough, SelectIsThorough, WriteIsThorough,
     NotifyIsThorough DEF RunStep
<1>2. ASSUME NEW r \in Runs, RunFails(r)
      PROVE  Thorough'
  BY <1>2, NotRunningSeen, QuietRunStaysThorough DEF RunFails, Inv
<1>3. ASSUME Crash
      PROVE  Thorough'
  <2>1. UNCHANGED row /\ \A r \in Runs : run'[r] = NotRunning
    BY <1>3 DEF Crash
  <2>2. \A r \in Runs : run'[r].at = "idle" /\ DOMAIN run'[r].list = {}
    BY <2>1, NotRunningIsDone
  <2>3. QED
    BY <2>1, <2>2 DEF Thorough, SeenRun
<1>4. ASSUME NEW d \in Edits, \/ \E i \in Incidents, active \in BOOLEAN : StartEdit(d, i, active)
                              \/ EditSelect(d)
                              \/ EditWrite(d)
      PROVE  FALSE
  BY <1>0, <1>4 DEF StartEdit, EditSelect, EditWrite, EditBecomes, EditAt, NobodyEdited, Inv,
     TypeOK
<1>5. Thorough'
  BY <1>1, <1>2, <1>3, <1>4, RestStaysThorough DEF Next, vars
<1>6. QED
  BY <1>1, <1>5 DEF GoesThrough

\* A run that was not given up brings every incident there was to the level
\* due when it fired, though the ages are those at which it looked
\* (updateAlertLevelsAndNotify).  As long as runs do not overlap and until
\* another handler saves an incident.  That such a run comes is fairness, and
\* Escalates says what follows.
THEOREM NobodyIsLeftBehind ==
    ASSUME OneRun
    PROVE  Spec => RunsLeaveNoneBehind
<1> DEFINE Good == NobodyEdited => Calm /\ Thorough
           Left == \A r \in Runs :
                      GoesThrough(r) /\ NobodyEdited' =>
                          \A i \in Incidents :
                              Exists(i) /\ createdAt[i] <= lastFired' =>
                                  row'[i].alertLevel
                                      \notin Below(GetAlertLevel(lastFired' - createdAt[i]))
<1>1. Init => Good
  BY InitCalm, NotRunningSeen DEF Init, Thorough
<1>2. Inv /\ Good /\ [Next]_vars => Good'
  BY NobodyHasEdited, NextKeepsCalm, NextIsThorough
<1>3. Inv /\ Good /\ Inv' /\ [Next]_vars => Left
  <2> SUFFICES ASSUME Inv, Good, Inv', [Next]_vars, NEW r \in Runs, GoesThrough(r),
                      NobodyEdited', NEW i \in Incidents, Exists(i),
                      createdAt[i] <= lastFired'
               PROVE  row'[i].alertLevel \notin Below(GetAlertLevel(lastFired' - createdAt[i]))
    OBVIOUS
  <2>1. Seen(run[r])' /\ Thorough' /\ Thorough /\ NobodyEdited
    BY NobodyHasEdited, NextIsThorough
  <2>2. run'[r].at = "idle" /\ DOMAIN run'[r].list = {}
    BY <2>1 DEF GoesThrough, Thorough, SeenRun
  <2>3. Reached(i, row[i].alertLevel)'
    BY <2>1, <2>2 DEF Seen
  <2>4. UNCHANGED createdAt
    BY DEF GoesThrough, StartRun, RunStep, Examine, RunSelect, RunWrite, Notify
  <2>5. lastFired' \in Minutes
    <3>1. CASE StartRun(r)
      BY <3>1 DEF StartRun, Inv, TypeOK
    <3>2. CASE RunStep(r)
      <4>1. run[r].at # "idle" /\ UNCHANGED lastFired
        BY <3>2 DEF RunStep, Examine, RunSelect, RunWrite, Notify
      <4>2. QED
        BY <2>1, <4>1 DEF Thorough, SeenRun
    <3>3. QED
      BY <3>1, <3>2 DEF GoesThrough
  <2> DEFINE m == lastFired' - createdAt[i]
  <2>6. m \in Nat
    BY <2>5, AgeIsNat
  <2>7. Rank(GetAlertLevel(m)) <= Rank(row'[i].alertLevel)
    BY <2>3, <2>4 DEF Reached
  <2>8. row'[i].alertLevel \in AlertLevel
    BY DEF Inv, TypeOK, Rows
  <2> HIDE DEF m
  <2>9. GetAlertLevel(m) \in AlertLevel
    BY <2>6, DueIsReached
  <2>10. row'[i].alertLevel \notin Below(GetAlertLevel(m))
    BY <2>7, <2>8, <2>9, HigherIsNotBelow
  <2>11. QED
    BY <2>10 DEF m
<1>4. QED
  BY <1>1, <1>2, <1>3, InitInv, NextInv, PTL DEF Spec, RunsLeaveNoneBehind
=============================================================================
