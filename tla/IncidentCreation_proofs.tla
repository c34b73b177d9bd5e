----------------------- MODULE IncidentCreation_proofs -----------------------
(***************************************************************************)
(* Theorems about IncidentCreation, for any employees, files, creations at *)
(* once and number of incidents.                                           *)
(***************************************************************************)
EXTENDS IncidentCreation, FiniteSetTheorems, TLAPS

-----------------------------------------------------------------------------
(* Types *)

LEMMA IdleType == Idle \in Tasks /\ Idle.at = "idle" /\ Idle.op = "none"
  <1>1. Idle \in Tasks
    BY DEF Idle, Tasks
  <1>2. QED
    BY <1>1 DEF Idle

LEMMA WorkloadType == \A e \in Employees : Workload(e) \in 0..MaxIncidents
<1> SUFFICES ASSUME NEW e \in Employees PROVE Workload(e) \in 0..MaxIncidents
  OBVIOUS
<1> DEFINE Open == {i \in Incidents : incident[i] # NULL /\ incident[i].open
                                      /\ incident[i].assigned = e}
<1>1. MaxIncidents \in Nat
  BY CreationAssumption DEF CreationAssumption
<1>2. IsFiniteSet(Incidents) /\ Cardinality(Incidents) = MaxIncidents
  BY <1>1, FS_Interval DEF Incidents
<1>3. Cardinality(Open) <= MaxIncidents /\ IsFiniteSet(Open)
  BY <1>2, FS_Subset
<1>4. Cardinality(Open) \in Nat
  BY <1>3, FS_CardinalityType
<1>5. QED
  BY <1>1, <1>3, <1>4 DEF Workload

\* The choice is one of the candidates.
LEMMA LeastType == ASSUME NEW counted, NEW E PROVE Least(counted, E) \subseteq E
  BY DEF Least

\* What is known of a handler in flight beside its type.
Sound(t) ==
    /\ t \in Tasks
    /\ t.op = "none" <=> t.at = "idle"
    /\ t.at \in {"holders", "users", "count", "save"} => t.incidencia = NULL
    /\ t.at \in {"holders", "users", "count", "save", "reload", "urls", "notify",
                 "rollback"} => t.op = "create"
    /\ t.at \in {"reload", "upload", "insert", "urls", "notify", "rollback"} =>
          t.incidencia \in Incidents

Typed == TypeOK /\ \A s \in CreateSlots : Sound(task[s])

LEMMA IdleIsSound == Sound(Idle)
  BY IdleType DEF Sound

\* A handler goes on and writes what has the right type.
LEMMA MoveKeepsTyped ==
    ASSUME Typed, NEW s \in CreateSlots, NEW n, Sound(n), Becomes(s, n),
           incident' \in [Incidents -> Incidencias \cup {NULL}],
           image' \in [Files -> Images \cup {NULL}],
           objects' \subseteq Files,
           answer' \in [Incidents -> {"none", "created", "failed", "stranded"}],
           UNCHANGED <<holds, active, others>>
    PROVE  Typed'
  <1>1. TypeOK'
    BY DEF Typed, TypeOK, Sound, Becomes, others
  <1>2. \A u \in CreateSlots : Sound(task'[u])
    BY DEF Typed, TypeOK, Becomes
  <1>3. QED
    BY <1>1, <1>2 DEF Typed

LEMMA CountKeepsTyped ==
    ASSUME Typed, NEW s \in CreateSlots, NEW e \in Employees, CountActiveIncidencias(s, e)
    PROVE  Typed'
<1> DEFINE t == task[s]
           counted == [t.counted EXCEPT ![e] = Workload(e)]
<1>1. Sound(t) /\ t.at = "count" /\ t \in Tasks
  BY DEF Typed, CountActiveIncidencias, Sound
<1>2. counted \in [Employees -> 0..MaxIncidents \cup {NULL}]
  BY <1>1, WorkloadType DEF Tasks
<1>3. UNCHANGED <<incident, image, objects, holds, active, answer, others>>
  BY DEF CountActiveIncidencias
<1>4. CASE \E f \in t.candidates : counted[f] = NULL
  <2> DEFINE n == [t EXCEPT !.counted = counted]
  <2>1. n \in Tasks /\ n.at = t.at /\ n.op = t.op /\ n.incidencia = t.incidencia
    BY <1>1, <1>2 DEF Tasks
  <2>2. Becomes(s, n)
    BY <1>4 DEF CountActiveIncidencias
  <2> HIDE DEF n
  <2>3. Sound(n)
    BY <1>1, <2>1 DEF Sound
  <2>4. QED
    BY <1>3, <2>2, <2>3, MoveKeepsTyped DEF Typed, TypeOK
<1>5. CASE ~ \E f \in t.candidates : counted[f] = NULL
  <2>1. PICK chosen \in Least(counted, t.candidates) :
           Becomes(s, [t EXCEPT !.at = "save", !.assigned = chosen,
                                !.candidates = {}, !.counted = Idle.counted])
    BY <1>5 DEF CountActiveIncidencias
  <2> DEFINE n == [t EXCEPT !.at = "save", !.assigned = chosen,
                            !.candidates = {}, !.counted = Idle.counted]
  <2>2. chosen \in Employees
    BY <1>1, LeastType DEF Tasks
  <2>3. Idle.counted \in [Employees -> 0..MaxIncidents \cup {NULL}]
    BY DEF Idle
  <2>4. n \in Tasks /\ n.at = "save" /\ n.op = t.op /\ n.incidencia = t.incidencia
    BY <1>1, <2>2, <2>3 DEF Tasks
  <2> HIDE DEF n
  <2>5. Sound(n)
    BY <1>1, <2>4 DEF Sound
  <2>6. QED
    BY <1>3, <2>1, <2>5, MoveKeepsTyped DEF Typed, TypeOK, n
<1>6. QED
  BY <1>4, <1>5

LEMMA StepKeepsTyped ==
    ASSUME Typed, NEW s \in CreateSlots, Step(s)
    PROVE  Typed'
<1> DEFINE t == task[s]
<1> USE IdleIsSound
<1>0. Sound(t) /\ t \in Tasks /\ TypeOK
  BY DEF Typed, Sound
<1>1. ASSUME NEW files \in SUBSET Files, Create(s, files)
      PROVE  Typed'
  <2> DEFINE n == [Idle EXCEPT !.op = "create", !.at = "holders", !.files = files]
  <2>1. n \in Tasks /\ n.op = "create" /\ n.at = "holders" /\ n.incidencia = NULL
    BY IdleType DEF Tasks, Idle
  <2>2. Becomes(s, n)
    BY <1>1 DEF Create
  <2> HIDE DEF n
  <2>3. Sound(n)
    BY <2>1 DEF Sound
  <2>4. QED
    BY <1>0, <1>1, <2>2, <2>3, MoveKeepsTyped DEF Create, TypeOK
<1>2. ASSUME NEW files \in SUBSET Files, NEW i \in Incidents,
             UploadMessageImages(s, i, files)
      PROVE  Typed'
  <2> DEFINE n == [Idle EXCEPT !.op = "message", !.at = "upload", !.incidencia = i,
                               !.files = files]
  <2>1. n \in Tasks /\ n.op = "message" /\ n.at = "upload" /\ n.incidencia = i
    BY IdleType DEF Tasks, Idle
  <2>2. Becomes(s, n)
    BY <1>2 DEF UploadMessageImages
  <2> HIDE DEF n
  <2>3. Sound(n)
    BY <2>1 DEF Sound
  <2>4. QED
    BY <1>0, <1>2, <2>2, <2>3, MoveKeepsTyped DEF UploadMessageImages, TypeOK
<1>3. ASSUME NEW at \in {"users", "count"}, NEW E \in SUBSET Employees,
             Candidates(s, at, E), t.at \in {"holders", "users"}
      PROVE  Typed'
  <2> DEFINE n == [t EXCEPT !.candidates = E, !.at = IF E = {} THEN "save" ELSE at]
  <2>1. n \in Tasks /\ n.at \in {"users", "count", "save"} /\ n.op = t.op
        /\ n.incidencia = t.incidencia
    BY <1>0 DEF Tasks
  <2>2. Becomes(s, n)
    BY <1>3 DEF Candidates
  <2> HIDE DEF n
  <2>3. Sound(n)
    BY <1>0, <1>3, <2>1 DEF Sound
  <2>4. QED
    BY <1>0, <1>3, <2>2, <2>3, MoveKeepsTyped DEF Candidates, TypeOK
<1>4. CASE FindUserRoles(s)
  BY <1>0, <1>3, <1>4 DEF FindUserRoles, TypeOK
<1>5. CASE FindEmployees(s)
  <2>1. t.candidates \cap active \in SUBSET Employees
    BY <1>0 DEF TypeOK
  <2>2. QED
    BY <1>3, <1>5, <2>1 DEF FindEmployees
<1>6. ASSUME NEW i \in Incidents, SaveIncidencia(s, i)
      PROVE  Typed'
  <2> DEFINE n == [t EXCEPT !.incidencia = i, !.assigned = NULL, !.at = "reload"]
  <2>1. t.at = "save" /\ Becomes(s, n)
        /\ incident' = [incident EXCEPT ![i] = [assigned |-> t.assigned, open |-> TRUE]]
        /\ UNCHANGED <<image, objects, holds, active, answer, others>>
    BY <1>6 DEF SaveIncidencia
  <2>2. n \in Tasks /\ n.at = "reload" /\ n.op = t.op /\ n.incidencia = i
    BY <1>0 DEF Tasks
  <2> HIDE DEF n
  <2>3. Sound(n)
    BY <1>0, <2>1, <2>2 DEF Sound
  <2>4. [assigned |-> t.assigned, open |-> TRUE] \in Incidencias
    BY <1>0 DEF Incidencias, Tasks
  <2>5. incident' \in [Incidents -> Incidencias \cup {NULL}]
    BY <1>0, <2>1, <2>4 DEF TypeOK
  <2>6. QED
    BY <1>0, <2>1, <2>3, <2>5, MoveKeepsTyped DEF TypeOK
<1>61. CASE Reload(s)
  <2> DEFINE n == [t EXCEPT !.at = IF t.files = {} THEN "notify" ELSE "upload"]
  <2>1. t.at = "reload" /\ Becomes(s, n)
        /\ UNCHANGED <<incident, image, objects, holds, active, answer, others>>
    BY <1>61 DEF Reload
  <2>2. n \in Tasks /\ n.at \in {"notify", "upload"} /\ n.op = t.op
        /\ n.incidencia = t.incidencia
    BY <1>0 DEF Tasks
  <2> HIDE DEF n
  <2>3. Sound(n)
    BY <1>0, <2>1, <2>2 DEF Sound
  <2>4. QED
    BY <1>0, <2>1, <2>3, MoveKeepsTyped DEF TypeOK
<1>7. ASSUME NEW f \in Files, UploadFile(s, f)
      PROVE  Typed'
  <2> DEFINE n == [t EXCEPT !.files = t.files \ {f}, !.uploaded = t.uploaded \cup {f},
                            !.at = IF t.op = "create" /\ t.files # {f} THEN "upload"
                                                                       ELSE "insert"]
  <2>1. t.at = "upload" /\ Becomes(s, n) /\ objects' = objects \cup {f}
        /\ UNCHANGED <<incident, image, holds, active, answer, others>>
    BY <1>7 DEF UploadFile, Uploaded
  <2>2. n \in Tasks /\ n.at \in {"upload", "insert"} /\ n.op = t.op
        /\ n.incidencia = t.incidencia
    BY <1>0 DEF Tasks
  <2> HIDE DEF n
  <2>3. Sound(n)
    BY <1>0, <2>1, <2>2 DEF Sound
  <2>4. QED
    BY <1>0, <2>1, <2>3, MoveKeepsTyped DEF TypeOK
<1>8. CASE SaveImages(s)
  <2> DEFINE new == [incidencia |-> t.incidencia, url |-> FirstUrl(t.op)]
             n == IF t.op = "create" THEN [t EXCEPT !.at = "urls"]
                  ELSE IF t.files = {} THEN Idle
                  ELSE [t EXCEPT !.at = "upload", !.uploaded = {}]
  <2>1. t.at = "insert" /\ Becomes(s, n)
        /\ image' = [f \in Files |-> IF f \in t.uploaded THEN new ELSE image[f]]
        /\ UNCHANGED <<incident, objects, holds, active, answer, others>>
    BY <1>8 DEF SaveImages
  <2>2. n = Idle \/ /\ n \in Tasks /\ n.op = t.op /\ n.incidencia = t.incidencia
                    /\ n.at = IF t.op = "create" THEN "urls" ELSE "upload"
    BY <1>0 DEF Tasks
  <2> HIDE DEF n
  <2>3. Sound(n)
    BY <1>0, <2>1, <2>2 DEF Sound
  <2>4. new \in Images
    BY <1>0, <2>1 DEF Images, FirstUrl, Sound
  <2> HIDE DEF new
  <2>5. image' \in [Files -> Images \cup {NULL}]
    BY <1>0, <2>1, <2>4 DEF TypeOK
  <2>6. QED
    BY <1>0, <2>1, <2>3, <2>5, MoveKeepsTyped DEF TypeOK
<1>9. CASE SaveUrls(s)
  <2> DEFINE new == [incidencia |-> t.incidencia, url |-> "api"]
             n == [t EXCEPT !.at = "notify", !.uploaded = {}]
  <2>1. t.at = "urls" /\ Becomes(s, n)
        /\ image' = [f \in Files |-> IF f \in t.uploaded THEN new ELSE image[f]]
        /\ UNCHANGED <<incident, objects, holds, active, answer, others>>
    BY <1>9 DEF SaveUrls
  <2>2. n \in Tasks /\ n.at = "notify" /\ n.op = t.op /\ n.incidencia = t.incidencia
    BY <1>0 DEF Tasks
  <2> HIDE DEF n
  <2>3. Sound(n)
    BY <1>0, <2>1, <2>2 DEF Sound
  <2>4. new \in Images
    BY <1>0, <2>1 DEF Images, Sound
  <2> HIDE DEF new
  <2>5. image' \in [Files -> Images \cup {NULL}]
    BY <1>0, <2>1, <2>4 DEF TypeOK
  <2>6. QED
    BY <1>0, <2>1, <2>3, <2>5, MoveKeepsTyped DEF TypeOK
<1>10. CASE Notify(s)
  BY <1>0, <1>10, MoveKeepsTyped DEF Notify, TypeOK
<1>11. CASE Fails(s)
  <2> DEFINE n == [Idle EXCEPT !.op = "create", !.at = "rollback",
                               !.incidencia = t.incidencia]
  <2>1. n \in Tasks /\ n.at = "rollback" /\ n.op = "create" /\ n.incidencia = t.incidencia
    BY <1>0, IdleType DEF Tasks
  <2>2. UNCHANGED <<incident, image, objects, holds, active, answer, others>>
    BY <1>11 DEF Fails
  <2>3. CASE t.op = "create" /\ t.incidencia # NULL
    <3>1. Becomes(s, n)
      BY <1>11, <2>3 DEF Fails
    <3> HIDE DEF n
    <3>2. Sound(n)
      BY <1>0, <2>1, <2>3 DEF Sound, Tasks
    <3>3. QED
      BY <1>0, <2>2, <3>1, <3>2, MoveKeepsTyped DEF TypeOK
  <2>4. CASE ~ (t.op = "create" /\ t.incidencia # NULL)
    BY <1>0, <1>11, <2>2, <2>4, MoveKeepsTyped DEF Fails, TypeOK
  <2>5. QED
    BY <2>3, <2>4
<1>12. CASE Rollback(s)
  <2>1. image' \in [Files -> Images \cup {NULL}]
    BY <1>0, <1>12 DEF Rollback, TypeOK
  <2>2. incident' \in [Incidents -> Incidencias \cup {NULL}]
    BY <1>0, <1>12 DEF Rollback, TypeOK
  <2>3. QED
    BY <1>0, <1>12, <2>1, <2>2, MoveKeepsTyped DEF Rollback, TypeOK
<1>13. CASE RollbackFails(s)
  BY <1>0, <1>13, MoveKeepsTyped DEF RollbackFails, TypeOK
<1>14. QED
  BY <1>1, <1>2, <1>4, <1>5, <1>6, <1>61, <1>7, <1>8, <1>9, <1>10, <1>11, <1>12,
     <1>13, CountKeepsTyped DEF Step

LEMMA InitIsTyped == Init => Typed
  BY IdleIsSound DEF Init, Typed, TypeOK, Sound

LEMMA NextKeepsTyped == Typed /\ [Next]_vars => Typed'
<1> SUFFICES ASSUME Typed, [Next]_vars PROVE Typed'
  OBVIOUS
<1>1. CASE \E s \in CreateSlots : Step(s)
  BY <1>1, StepKeepsTyped
<1>2. CASE OthersChange
  <2>1. /\ UNCHANGED <<incident, image, objects, task, answer, loaded, restored, reverted>>
        /\ disturbed' = TRUE
    BY <1>2 DEF OthersChange
  <2>3. ASSUME NEW e \in Employees, holds' = SymDiff(holds, {e})
        PROVE  holds' \subseteq Employees
    BY <2>3 DEF SymDiff, Typed, TypeOK
  <2>4. TypeOK'
    BY <1>2, <2>1, <2>3 DEF OthersChange, Typed, TypeOK
  <2>5. QED
    BY <2>1, <2>4 DEF Typed
<1>3. CASE Crash
  BY <1>3, IdleIsSound DEF Crash, Typed, TypeOK, Sound
<1>4. CASE UNCHANGED vars
  BY <1>4 DEF vars, others, Typed, TypeOK
<1>5. ASSUME NEW i \in Incidents, NEW relation \in BOOLEAN, LoadIncidencia(i, relation)
      PROVE  Typed'
  <2>1. incident[i] \in Incidencias
    BY <1>5 DEF LoadIncidencia, Typed, TypeOK
  <2>2. [f \in Files |-> IF relation /\ f \in ImagesOf(i) THEN image[f] ELSE NULL]
            \in [Files -> Images \cup {NULL}]
    BY DEF Typed, TypeOK
  <2>3. loaded' \in Loads
    BY <1>5, <2>1, <2>2 DEF LoadIncidencia, Loads
  <2>4. QED
    BY <1>5, <2>3 DEF LoadIncidencia, Typed, TypeOK
<1>6. CASE SaveLoaded
  <2>1. loaded \in Loads
    BY <1>6 DEF SaveLoaded, Typed, TypeOK
  <2>2. PICK open \in {loaded.row.open, FALSE} :
           incident' = [incident EXCEPT ![loaded.incidencia] =
                            [assigned |-> loaded.row.assigned, open |-> open]]
    BY <1>6 DEF SaveLoaded
  <2>3. [assigned |-> loaded.row.assigned, open |-> open] \in Incidencias
    BY <2>1 DEF Loads, Incidencias
  <2>4. incident' \in [Incidents -> Incidencias \cup {NULL}]
    BY <2>2, <2>3 DEF Typed, TypeOK
  <2>5. image' \in [Files -> Images \cup {NULL}]
    BY <1>6, <2>1 DEF SaveLoaded, Typed, TypeOK, Loads
  <2>6. restored' \subseteq Incidents /\ reverted' \subseteq Files
    BY <1>6, <2>1 DEF SaveLoaded, Typed, TypeOK, Loads
  <2>7. QED
    BY <1>6, <2>4, <2>5, <2>6 DEF SaveLoaded, Typed, TypeOK
<1>7. QED
  BY <1>1, <1>2, <1>3, <1>4, <1>5, <1>6 DEF Next

\* The tables, the store and the handlers in flight keep their types: the
\* workload of an employee never exceeds the incidents there can be, and a
\* handler that knows its incident knows one that was given an id.
THEOREM CreationTypeCorrect == Spec => []TypeOK
  <1>1. Typed => TypeOK
    BY DEF Typed
  <1>2. QED
    BY <1>1, InitIsTyped, NextKeepsTyped, PTL DEF Spec

-----------------------------------------------------------------------------
(* Incidents, their images and the creations that own them *)

\* The creation in slot s stored incident i and has not answered yet.
Owns(s, i) == task[s].op = "create" /\ task[s].incidencia = i

\* An incident is owned by one creation, and then it is there, unanswered.
OwnedIsThere ==
    /\ \A s \in CreateSlots, i \in Incidents :
          Owns(s, i) => incident[i] # NULL /\ answer[i] = "none"
    /\ \A r, s \in CreateSlots, i \in Incidents : Owns(r, i) /\ Owns(s, i) => r = s

\* What an answer says of the row.
AnswersHold ==
    \A i \in Incidents :
        /\ answer[i] = "failed" /\ i \notin restored => incident[i] = NULL
        /\ answer[i] = "created" => incident[i] # NULL
        /\ i \in restored => answer[i] = "failed"

\* An image belongs to an incident that is there.  With the object's own
\* address, unless a save gave it that again, its incident was not answered as
\* created, and whoever creates it is about to replace the address or to delete
\* the incident.
ImagesBelong ==
    \A f \in Files : image[f] # NULL =>
        LET i == image[f].incidencia IN
        /\ incident[i] # NULL
        /\ image[f].url = "storage" /\ f \notin reverted =>
               /\ answer[i] # "created"
               /\ \A s \in CreateSlots : Owns(s, i) =>
                      \/ task[s].at = "rollback"
                      \/ task[s].at = "urls" /\ f \in task[s].uploaded

\* What was uploaded is in the store.
ObjectsStay ==
    /\ \A f \in Files : image[f] # NULL => f \in objects
    /\ \A s \in CreateSlots : task[s].uploaded \subseteq objects

\* What another handler has loaded was there: the images in the store, and the
\* incident unless its creation failed since.
LoadedWasThere ==
    loaded # NULL =>
        /\ \A f \in Files : loaded.images[f] # NULL =>
              f \in objects /\ loaded.images[f].incidencia = loaded.incidencia
        /\ incident[loaded.incidencia] # NULL \/ answer[loaded.incidencia] = "failed"

Whole == OwnedIsThere /\ AnswersHold /\ ImagesBelong /\ ObjectsStay /\ LoadedWasThere

LEMMA NullIsNoRow == NULL \notin Incidencias \cup Images \cup Incidents \cup Loads
  BY CreationAssumption DEF CreationAssumption

LEMMA OwnsAfter ==
    ASSUME Typed, NEW s \in CreateSlots, NEW n, Becomes(s, n)
    PROVE  /\ task'[s] = n
           /\ \A r \in CreateSlots \ {s} : task'[r] = task[r]
  BY DEF Typed, TypeOK, Becomes

\* A handler goes on and writes nothing but objects.
LEMMA MoveKeepsWhole ==
    ASSUME Typed, Whole, NEW s \in CreateSlots, NEW n, Becomes(s, n),
           UNCHANGED <<incident, image, answer, others>>,
           objects \subseteq objects', n.uploaded \subseteq objects',
           n.op = "create" /\ n.incidencia # NULL =>
               /\ task[s].op = "create" /\ n.incidencia = task[s].incidencia
               /\ n.at = "rollback" \/ task[s].at \notin {"urls", "rollback"}
    PROVE  Whole'
<1> USE OwnsAfter, NullIsNoRow
<1>0. /\ task'[s] = n
      /\ \A r \in CreateSlots \ {s} : task'[r] = task[r]
  OBVIOUS
<1>1. \A r \in CreateSlots, i \in Incidents : Owns(r, i)' => Owns(r, i)
  BY <1>0 DEF Owns
<1>2. OwnedIsThere'
  BY <1>1 DEF Whole, OwnedIsThere
<1>3. AnswersHold' /\ LoadedWasThere'
  BY DEF Whole, AnswersHold, LoadedWasThere, others
<1>4. ImagesBelong'
  <2> SUFFICES ASSUME NEW f \in Files, image[f] # NULL,
                      image[f].url = "storage", f \notin reverted,
                      NEW r \in CreateSlots, Owns(r, image[f].incidencia)'
               PROVE  \/ task'[r].at = "rollback"
                      \/ task'[r].at = "urls" /\ f \in task'[r].uploaded
    BY DEF Whole, ImagesBelong, others
  <2>1. image[f].incidencia \in Incidents
    BY DEF Typed, TypeOK, Images
  <2>2. Owns(r, image[f].incidencia)
    BY <1>1, <2>1
  <2>3. \/ task[r].at = "rollback"
        \/ task[r].at = "urls" /\ f \in task[r].uploaded
    BY <2>2 DEF Whole, ImagesBelong
  <2>4. QED
    BY <1>0, <2>1, <2>3 DEF Owns
<1>5. ObjectsStay'
  BY <1>0 DEF Whole, ObjectsStay
<1>6. QED
  BY <1>2, <1>3, <1>4, <1>5 DEF Whole

\* A creation answers for its incident: it was created, or it was not and the
\* DELETE failed.
LEMMA AnswerKeepsWhole ==
    ASSUME Typed, Whole, NEW s \in CreateSlots, Becomes(s, Idle),
           Notify(s) \/ RollbackFails(s)
    PROVE  Whole'
<1> DEFINE i == task[s].incidencia
           a == IF task[s].at = "notify" THEN "created" ELSE "stranded"
<1> USE NullIsNoRow
<1>0. /\ task'[s] = Idle /\ Idle.op = "none" /\ Idle.uploaded = {}
      /\ \A r \in CreateSlots \ {s} : task'[r] = task[r]
  BY OwnsAfter, IdleType DEF Idle
<1>1. /\ task[s].at \in {"notify", "rollback"}
      /\ answer' = [answer EXCEPT ![i] = a]
      /\ UNCHANGED <<incident, image, objects, loaded, restored, reverted>>
  BY DEF Notify, RollbackFails, others
<1>2. i \in Incidents /\ Owns(s, i)
  BY <1>1 DEF Typed, Sound, Owns
<1>3. \A r \in CreateSlots, j \in Incidents : Owns(r, j)' => Owns(r, j) /\ j # i
  BY <1>0, <1>2 DEF Owns, Whole, OwnedIsThere
<1>4. \A j \in Incidents : answer'[j] = IF j = i THEN a ELSE answer[j]
  BY <1>1, <1>2 DEF Typed, TypeOK
<1>5. OwnedIsThere'
  BY <1>1, <1>3, <1>4 DEF Whole, OwnedIsThere
<1>6. AnswersHold'
  BY <1>1, <1>2, <1>4 DEF Whole, AnswersHold, OwnedIsThere
<1>61. LoadedWasThere'
  <2> SUFFICES ASSUME loaded # NULL PROVE LoadedWasThere'
    BY <1>1 DEF LoadedWasThere
  <2>1. loaded.incidencia \in Incidents
    BY DEF Typed, TypeOK, Loads
  <2>2. QED
    BY <1>1, <1>2, <1>4, <2>1 DEF Whole, LoadedWasThere, OwnedIsThere
<1>7. ImagesBelong'
  <2> SUFFICES ASSUME NEW f \in Files, image[f] # NULL
               PROVE  LET j == image[f].incidencia IN
                      image[f].url = "storage" /\ f \notin reverted =>
                          /\ answer'[j] # "created"
                          /\ \A r \in CreateSlots : Owns(r, j)' =>
                                 \/ task'[r].at = "rollback"
                                 \/ task'[r].at = "urls" /\ f \in task'[r].uploaded
    BY <1>1 DEF Whole, ImagesBelong
  <2>1. image[f].incidencia \in Incidents
    BY DEF Typed, TypeOK, Images
  <2>2. image[f].url = "storage" /\ f \notin reverted =>
            answer'[image[f].incidencia] # "created"
    BY <1>1, <1>2, <1>4, <2>1 DEF Whole, ImagesBelong
  <2>3. \A r \in CreateSlots : Owns(r, image[f].incidencia)' =>
            r # s /\ Owns(r, image[f].incidencia)
    BY <1>0, <1>1, <2>1, <1>3 DEF Owns
  <2>4. QED
    BY <1>0, <2>2, <2>3 DEF Whole, ImagesBelong
<1>8. ObjectsStay'
  BY <1>0, <1>1 DEF Whole, ObjectsStay
<1>9. QED
  BY <1>5, <1>6, <1>61, <1>7, <1>8 DEF Whole

\* An incident is stored: no image refers to it yet.
LEMMA SaveKeepsWhole ==
    ASSUME Typed, Whole, NEW s \in CreateSlots, NEW i \in Incidents, SaveIncidencia(s, i)
    PROVE  Whole'
<1> DEFINE t == task[s]
           n == [t EXCEPT !.incidencia = i, !.assigned = NULL, !.at = "reload"]
           new == [assigned |-> t.assigned, open |-> TRUE]
<1> USE NullIsNoRow
<1>1. /\ t.at = "save" /\ Becomes(s, n) /\ i \in FreshIncidents
      /\ incident' = [incident EXCEPT ![i] = new]
      /\ UNCHANGED <<image, objects, answer, loaded, restored, reverted>>
  BY DEF SaveIncidencia, others
<1>2. t \in Tasks /\ t.op = "create"
  BY <1>1 DEF Typed, Sound
<1>3. n.op = "create" /\ n.incidencia = i /\ n.uploaded = t.uploaded
  BY <1>2 DEF Tasks
<1>4. new \in Incidencias
  BY <1>2 DEF Tasks, Incidencias
<1> HIDE DEF n, new
<1>5. /\ task'[s] = n
      /\ \A r \in CreateSlots \ {s} : task'[r] = task[r]
  BY <1>1, OwnsAfter
<1>6. \A j \in Incidents : incident'[j] = IF j = i THEN new ELSE incident[j]
  BY <1>1 DEF Typed, TypeOK
<1>7. incident[i] = NULL /\ answer[i] = "none"
  BY <1>1 DEF FreshIncidents, Given
<1>8. \A r \in CreateSlots, j \in Incidents :
         Owns(r, j)' => IF r = s THEN j = i ELSE Owns(r, j) /\ j # i
  BY <1>3, <1>5, <1>7 DEF Owns, Whole, OwnedIsThere
<1>9. OwnedIsThere'
  BY <1>1, <1>4, <1>6, <1>7, <1>8 DEF Whole, OwnedIsThere
<1>10. AnswersHold' /\ LoadedWasThere'
  <2>1. AnswersHold'
    BY <1>1, <1>4, <1>6, <1>7 DEF Whole, AnswersHold
  <2>2. loaded # NULL => loaded.incidencia \in Incidents
    BY DEF Typed, TypeOK, Loads
  <2>3. LoadedWasThere'
    BY <1>1, <1>4, <1>6, <2>2 DEF Whole, LoadedWasThere
  <2>4. QED
    BY <2>1, <2>3
<1>11. ImagesBelong'
  <2> SUFFICES ASSUME NEW f \in Files, image[f] # NULL
               PROVE  LET j == image[f].incidencia IN
                      /\ incident'[j] # NULL
                      /\ image[f].url = "storage" /\ f \notin reverted =>
                            /\ answer[j] # "created"
                            /\ \A r \in CreateSlots : Owns(r, j)' =>
                                   \/ task'[r].at = "rollback"
                                   \/ task'[r].at = "urls" /\ f \in task'[r].uploaded
    BY <1>1 DEF Whole, ImagesBelong
  <2>1. image[f].incidencia \in Incidents /\ image[f].incidencia # i
    BY <1>7 DEF Typed, TypeOK, Images, Whole, ImagesBelong
  <2>2. \A r \in CreateSlots : Owns(r, image[f].incidencia)' =>
            r # s /\ Owns(r, image[f].incidencia)
    BY <1>1, <1>8, <2>1 DEF Owns
  <2>3. QED
    BY <1>5, <1>6, <2>1, <2>2 DEF Whole, ImagesBelong
<1>12. ObjectsStay'
  BY <1>1, <1>3, <1>5 DEF Whole, ObjectsStay
<1>13. QED
  BY <1>9, <1>10, <1>11, <1>12 DEF Whole

\* Rows are written for what this handler uploaded.
LEMMA RowsKeepWhole ==
    ASSUME Typed, Whole, NEW s \in CreateSlots, SaveImages(s) \/ SaveUrls(s)
    PROVE  Whole'
<1> DEFINE t == task[s]
           i == t.incidencia
           n == IF t.at = "urls" THEN [t EXCEPT !.at = "notify", !.uploaded = {}]
                ELSE IF t.op = "create" THEN [t EXCEPT !.at = "urls"]
                ELSE IF t.files = {} THEN Idle
                ELSE [t EXCEPT !.at = "upload", !.uploaded = {}]
           new == [incidencia |-> i,
                   url |-> IF t.at = "urls" THEN "api" ELSE FirstUrl(t.op)]
<1> USE NullIsNoRow
<1>1. /\ t.at \in {"insert", "urls"} /\ Becomes(s, n)
      /\ image' = [f \in Files |-> IF f \in t.uploaded THEN new ELSE image[f]]
      /\ UNCHANGED <<incident, objects, answer, loaded, restored, reverted>>
  BY DEF SaveImages, SaveUrls, others
<1>2. t \in Tasks /\ Sound(t) /\ i \in Incidents
  BY <1>1 DEF Typed, Sound
<1>3. incident[i] # NULL
  BY <1>1, <1>2 DEF SaveImages, SaveUrls, Sound, Whole, OwnedIsThere, Owns
<1>4. /\ new \in Images /\ new.incidencia = i
      /\ new.url = "storage" => t.at = "insert" /\ t.op = "create"
  BY <1>1, <1>2 DEF Images, FirstUrl
<1>5. /\ n.op = "create" => n.op = t.op /\ n.incidencia = i
      /\ n.uploaded \in {t.uploaded, {}}
      /\ t.op = "create" =>
            n.at = IF t.at = "urls" THEN "notify" ELSE "urls"
      /\ t.op = "create" /\ t.at = "insert" => n.uploaded = t.uploaded
  BY <1>1, <1>2 DEF Tasks, Idle, Sound
<1> HIDE DEF n, new
<1>6. /\ task'[s] = n
      /\ \A r \in CreateSlots \ {s} : task'[r] = task[r]
  BY <1>1, OwnsAfter
<1>7. \A r \in CreateSlots, j \in Incidents : Owns(r, j)' => Owns(r, j)
  BY <1>5, <1>6 DEF Owns
<1>8. OwnedIsThere'
  BY <1>1, <1>7 DEF Whole, OwnedIsThere
<1>9. AnswersHold' /\ LoadedWasThere'
  BY <1>1 DEF Whole, AnswersHold, LoadedWasThere
<1>10. ImagesBelong'
  <2> SUFFICES ASSUME NEW f \in Files, image'[f] # NULL
               PROVE  LET j == image'[f].incidencia IN
                      /\ incident[j] # NULL
                      /\ image'[f].url = "storage" /\ f \notin reverted =>
                            /\ answer[j] # "created"
                            /\ \A r \in CreateSlots :
                                   task'[r].op = "create" /\ task'[r].incidencia = j =>
                                   \/ task'[r].at = "rollback"
                                   \/ task'[r].at = "urls" /\ f \in task'[r].uploaded
    BY <1>1 DEF Whole, ImagesBelong, Owns
  <2>1. CASE f \in t.uploaded
    <3>1. image'[f] = new
      BY <1>1, <2>1
    <3>2. ASSUME new.url = "storage"
          PROVE  Owns(s, i) /\ task'[s].at = "urls" /\ f \in task'[s].uploaded
      BY <1>4, <1>5, <1>6, <2>1, <3>2 DEF Owns
    <3>3. ASSUME new.url = "storage"
          PROVE  answer[i] = "none" /\ \A r \in CreateSlots : Owns(r, i) => r = s
      BY <1>2, <3>2, <3>3 DEF Whole, OwnedIsThere
    <3>4. \A r \in CreateSlots :
           task'[r].op = "create" /\ task'[r].incidencia = image'[f].incidencia => Owns(r, i)
      BY <1>2, <1>4, <1>7, <3>1 DEF Owns
    <3>5. QED
      BY <1>3, <1>4, <3>1, <3>2, <3>3, <3>4
  <2>2. CASE f \notin t.uploaded
    <3>1. image'[f] = image[f]
      BY <1>1, <2>2
    <3>2. image[f].incidencia \in Incidents
      BY <3>1 DEF Typed, TypeOK, Images
    <3>3. /\ incident[image[f].incidencia] # NULL
          /\ image[f].url = "storage" /\ f \notin reverted =>
                 answer[image[f].incidencia] # "created"
      BY <3>1 DEF Whole, ImagesBelong
    <3>4. ASSUME image[f].url = "storage", f \notin reverted, NEW r \in CreateSlots,
                 task'[r].op = "create", task'[r].incidencia = image'[f].incidencia
          PROVE  \/ task'[r].at = "rollback"
                 \/ task'[r].at = "urls" /\ f \in task'[r].uploaded
      <4>1. Owns(r, image[f].incidencia)
        BY <1>7, <3>1, <3>2, <3>4 DEF Owns
      <4>2. \/ task[r].at = "rollback"
            \/ task[r].at = "urls" /\ f \in task[r].uploaded
        BY <3>1, <3>4, <4>1 DEF Whole, ImagesBelong
      <4>3. r # s
        BY <1>1, <2>2, <4>2
      <4>4. QED
        BY <1>6, <4>2, <4>3
    <3>5. QED
      BY <3>1, <3>3, <3>4
  <2>3. QED
    BY <2>1, <2>2
<1>11. ObjectsStay'
  BY <1>1, <1>5, <1>6 DEF Whole, ObjectsStay
<1>12. QED
  BY <1>8, <1>9, <1>10, <1>11 DEF Whole

\* The row goes with its images; the other creations own other incidents.
LEMMA RollbackKeepsWhole ==
    ASSUME Typed, Whole, NEW s \in CreateSlots, Rollback(s)
    PROVE  Whole'
<1> DEFINE i == task[s].incidencia
<1> USE NullIsNoRow
<1>1. /\ task[s].at = "rollback" /\ Becomes(s, Idle)
      /\ incident' = [incident EXCEPT ![i] = NULL]
      /\ image' = [f \in Files |->
             IF image[f] # NULL /\ image[f].incidencia = i THEN NULL ELSE image[f]]
      /\ answer' = [answer EXCEPT ![i] = "failed"]
      /\ UNCHANGED <<objects, loaded, restored, reverted>>
  BY DEF Rollback, ImagesOf, others
<1>2. i \in Incidents /\ Owns(s, i)
  BY <1>1 DEF Typed, Sound, Owns
<1>3. /\ task'[s] = Idle /\ Idle.op = "none" /\ Idle.uploaded = {}
      /\ \A r \in CreateSlots \ {s} : task'[r] = task[r]
  BY <1>1, OwnsAfter, IdleType DEF Idle
<1>4. \A r \in CreateSlots, j \in Incidents :
         Owns(r, j)' => r # s /\ j # i /\ Owns(r, j)
  BY <1>2, <1>3 DEF Owns, Whole, OwnedIsThere
<1>5. \A j \in Incidents : /\ incident'[j] = IF j = i THEN NULL ELSE incident[j]
                           /\ answer'[j] = IF j = i THEN "failed" ELSE answer[j]
  BY <1>1, <1>2 DEF Typed, TypeOK
<1>6. OwnedIsThere'
  BY <1>4, <1>5 DEF Whole, OwnedIsThere
<1>7. AnswersHold' /\ LoadedWasThere'
  <2>1. AnswersHold'
    BY <1>1, <1>5 DEF Whole, AnswersHold
  <2>2. loaded # NULL => loaded.incidencia \in Incidents
    BY DEF Typed, TypeOK, Loads
  <2>3. LoadedWasThere'
    BY <1>1, <1>5, <2>2 DEF Whole, LoadedWasThere
  <2>4. QED
    BY <2>1, <2>3
<1>8. ImagesBelong'
  <2> SUFFICES ASSUME NEW f \in Files, image'[f] # NULL
               PROVE  LET j == image'[f].incidencia IN
                      /\ incident'[j] # NULL
                      /\ image'[f].url = "storage" /\ f \notin reverted' =>
                            /\ answer'[j] # "created"
                            /\ \A r \in CreateSlots :
                                   task'[r].op = "create" /\ task'[r].incidencia = j =>
                                   \/ task'[r].at = "rollback"
                                   \/ task'[r].at = "urls" /\ f \in task'[r].uploaded
    BY DEF ImagesBelong, Owns
  <2>1. image[f] # NULL /\ image'[f] = image[f] /\ image[f].incidencia # i
    BY <1>1
  <2>2. image[f].incidencia \in Incidents
    BY <2>1 DEF Typed, TypeOK, Images
  <2>3. \A r \in CreateSlots :
           task'[r].op = "create" /\ task'[r].incidencia = image[f].incidencia =>
               r # s /\ Owns(r, image[f].incidencia)
    BY <1>4, <2>2 DEF Owns
  <2>4. QED
    BY <1>1, <1>3, <1>5, <2>1, <2>2, <2>3 DEF Whole, ImagesBelong
<1>9. ObjectsStay'
  BY <1>1, <1>3 DEF Whole, ObjectsStay
<1>10. QED
  BY <1>6, <1>7, <1>8, <1>9 DEF Whole

LEMMA StepKeepsWhole ==
    ASSUME Typed, Whole, NEW s \in CreateSlots, Step(s)
    PROVE  Whole'
<1> DEFINE t == task[s]
<1>0. /\ t \in Tasks /\ Sound(t)
      /\ t.uploaded \subseteq objects
      /\ Idle \in Tasks /\ Idle.op = "none" /\ Idle.uploaded = {}
  BY IdleType DEF Typed, Sound, Whole, ObjectsStay, Idle
<1>1. ASSUME NEW files \in SUBSET Files, Create(s, files)
      PROVE  Whole'
  <2> DEFINE n == [Idle EXCEPT !.op = "create", !.at = "holders", !.files = files]
  <2>1. n.uploaded = {} /\ n.incidencia = NULL
    BY DEF Idle
  <2>2. Becomes(s, n)
    BY <1>1 DEF Create
  <2> HIDE DEF n
  <2>3. QED
    BY <1>1, <2>1, <2>2, MoveKeepsWhole DEF Create
<1>2. ASSUME NEW files \in SUBSET Files, NEW i \in Incidents,
             UploadMessageImages(s, i, files)
      PROVE  Whole'
  <2> DEFINE n == [Idle EXCEPT !.op = "message", !.at = "upload", !.incidencia = i,
                               !.files = files]
  <2>1. n.uploaded = {} /\ n.op = "message"
    BY DEF Idle
  <2>2. Becomes(s, n)
    BY <1>2 DEF UploadMessageImages
  <2> HIDE DEF n
  <2>3. QED
    BY <1>2, <2>1, <2>2, MoveKeepsWhole DEF UploadMessageImages
<1>3. CASE FindUserRoles(s) \/ FindEmployees(s)
  <2>1. PICK at, E : Becomes(s, [t EXCEPT !.candidates = E,
                                          !.at = IF E = {} THEN "save" ELSE at])
                     /\ UNCHANGED <<incident, image, objects, answer, others>>
    BY <1>3 DEF FindUserRoles, FindEmployees, Candidates
  <2> DEFINE n == [t EXCEPT !.candidates = E, !.at = IF E = {} THEN "save" ELSE at]
  <2>2. n.uploaded = t.uploaded /\ n.op = t.op /\ n.incidencia = t.incidencia
    BY <1>0 DEF Tasks
  <2>3. Becomes(s, n)
    BY <2>1
  <2> HIDE DEF n
  <2>4. t.incidencia = NULL
    BY <1>0, <1>3 DEF FindUserRoles, FindEmployees, Sound
  <2>5. QED
    BY <1>0, <2>1, <2>2, <2>3, <2>4, MoveKeepsWhole
<1>4. ASSUME NEW e \in Employees, CountActiveIncidencias(s, e)
      PROVE  Whole'
  <2>1. PICK n : /\ Becomes(s, n)
                 /\ n.uploaded = t.uploaded /\ n.incidencia = t.incidencia
    <3> DEFINE counted == [t.counted EXCEPT ![e] = Workload(e)]
               m(c) == [t EXCEPT !.at = "save", !.assigned = c,
                                 !.candidates = {}, !.counted = Idle.counted]
               k == [t EXCEPT !.counted = counted]
    <3>1. Becomes(s, k) \/ \E c : Becomes(s, m(c))
      BY <1>4 DEF CountActiveIncidencias
    <3>2. /\ k.uploaded = t.uploaded /\ k.incidencia = t.incidencia
          /\ \A c : m(c).uploaded = t.uploaded /\ m(c).incidencia = t.incidencia
      BY <1>0 DEF Tasks
    <3> HIDE DEF m, k
    <3>3. QED
      BY <3>1, <3>2
  <2>2. t.incidencia = NULL
    BY <1>0, <1>4 DEF CountActiveIncidencias, Sound
  <2>3. QED
    BY <1>0, <1>4, <2>1, <2>2, MoveKeepsWhole DEF CountActiveIncidencias
<1>5. ASSUME NEW f \in Files, UploadFile(s, f)
      PROVE  Whole'
  <2> DEFINE n == [t EXCEPT !.files = t.files \ {f}, !.uploaded = t.uploaded \cup {f},
                            !.at = IF t.op = "create" /\ t.files # {f} THEN "upload"
                                                                       ELSE "insert"]
  <2>1. t.at = "upload" /\ Becomes(s, n) /\ objects' = objects \cup {f}
        /\ UNCHANGED <<incident, image, answer, others>>
    BY <1>5 DEF UploadFile, Uploaded
  <2>2. n.uploaded = t.uploaded \cup {f} /\ n.op = t.op /\ n.incidencia = t.incidencia
    BY <1>0 DEF Tasks
  <2> HIDE DEF n
  <2>3. QED
    BY <1>0, <2>1, <2>2, MoveKeepsWhole
<1>6. CASE Notify(s) \/ RollbackFails(s)
  BY <1>6, AnswerKeepsWhole DEF Notify, RollbackFails
<1>7. CASE Fails(s)
  <2> DEFINE n == [Idle EXCEPT !.op = "create", !.at = "rollback",
                               !.incidencia = t.incidencia]
  <2>1. UNCHANGED <<incident, image, objects, answer, others>> /\ t.at # "rollback"
    BY <1>7 DEF Fails
  <2>2. CASE Becomes(s, n)
    <3>1. n.uploaded = {} /\ n.op = "create" /\ n.incidencia = t.incidencia
          /\ n.at = "rollback"
      BY DEF Idle
    <3> HIDE DEF n
    <3>2. t.op = "create"
      BY <1>0, <1>7, <2>2, <3>1, OwnsAfter DEF Fails
    <3>3. QED
      BY <1>0, <2>1, <2>2, <3>1, <3>2, MoveKeepsWhole
  <2>3. CASE Becomes(s, Idle)
    BY <1>0, <2>1, <2>3, MoveKeepsWhole
  <2>4. QED
    BY <1>7, <2>2, <2>3 DEF Fails
<1>8. CASE Reload(s)
  <2> DEFINE n == [t EXCEPT !.at = IF t.files = {} THEN "notify" ELSE "upload"]
  <2>1. t.at = "reload" /\ Becomes(s, n)
        /\ UNCHANGED <<incident, image, objects, answer, others>>
    BY <1>8 DEF Reload
  <2>2. n.uploaded = t.uploaded /\ n.op = t.op /\ n.incidencia = t.incidencia
    BY <1>0 DEF Tasks
  <2> HIDE DEF n
  <2>3. QED
    BY <1>0, <2>1, <2>2, MoveKeepsWhole
<1>9. QED
  BY <1>1, <1>2, <1>3, <1>4, <1>5, <1>6, <1>7, <1>8, SaveKeepsWhole, RowsKeepWhole,
     RollbackKeepsWhole DEF Step

\* Another handler loads what is there, and what it saves was there.
LEMMA LoadKeepsWhole ==
    ASSUME Typed, Whole, NEW i \in Incidents, NEW relation \in BOOLEAN,
           LoadIncidencia(i, relation)
    PROVE  Whole'
<1>1. /\ UNCHANGED <<incident, image, objects, task, answer, restored, reverted>>
      /\ incident[i] # NULL
      /\ loaded'.incidencia = i
      /\ loaded'.images = [f \in Files |->
             IF relation /\ f \in ImagesOf(i) THEN image[f] ELSE NULL]
  BY DEF LoadIncidencia
<1>2. \A f \in Files : loaded'.images[f] # NULL => f \in objects /\ image[f].incidencia = i
                                                 /\ loaded'.images[f] = image[f]
  BY <1>1 DEF ImagesOf, Whole, ObjectsStay
<1>3. LoadedWasThere'
  BY <1>1, <1>2 DEF LoadedWasThere
<1>4. QED
  BY <1>1, <1>3 DEF Whole, OwnedIsThere, AnswersHold, ImagesBelong, ObjectsStay, Owns

LEMMA SaveLoadedKeepsWhole ==
    ASSUME Typed, Whole, SaveLoaded
    PROVE  Whole'
<1> DEFINE i == loaded.incidencia
           rows == {f \in Files : loaded.images[f] # NULL}
<1> USE NullIsNoRow
<1>1. /\ loaded # NULL /\ loaded' = NULL
      /\ image' = [f \in Files |-> IF f \in rows THEN loaded.images[f] ELSE image[f]]
      /\ restored' = restored \cup {j \in {i} : incident[j] = NULL}
      /\ reverted' = reverted \cup {f \in rows : image[f] # loaded.images[f]}
      /\ UNCHANGED <<objects, task, answer>>
  BY DEF SaveLoaded
<1>2. loaded \in Loads /\ i \in Incidents
  BY <1>1 DEF Typed, TypeOK, Loads
<1>3. PICK row \in Incidencias : incident' = [incident EXCEPT ![i] = row]
  <2>1. PICK open \in {loaded.row.open, FALSE} :
           incident' = [incident EXCEPT ![i] = [assigned |-> loaded.row.assigned, open |-> open]]
    BY DEF SaveLoaded
  <2>2. [assigned |-> loaded.row.assigned, open |-> open] \in Incidencias
    BY <1>2 DEF Loads, Incidencias
  <2>3. QED
    BY <2>1, <2>2
<1>4. \A j \in Incidents : incident'[j] = IF j = i THEN row ELSE incident[j]
  BY <1>3 DEF Typed, TypeOK
<1>5. \A j \in Incidents : incident[j] # NULL => incident'[j] # NULL
  BY <1>3, <1>4
<1>6. OwnedIsThere'
  BY <1>1, <1>5 DEF Whole, OwnedIsThere, Owns
<1>7. AnswersHold'
  <2>1. incident[i] = NULL => answer[i] = "failed"
    BY <1>1 DEF Whole, LoadedWasThere
  <2>2. SUFFICES ASSUME NEW j \in Incidents
        PROVE  /\ answer[j] = "failed" /\ j \notin restored' => incident'[j] = NULL
               /\ answer[j] = "created" => incident'[j] # NULL
               /\ j \in restored' => answer[j] = "failed"
    BY <1>1 DEF AnswersHold
  <2>3. incident[i] = NULL \/ i \in restored \/ answer[i] # "failed"
    BY <1>2 DEF Whole, AnswersHold
  <2>4. QED
    BY <1>1, <1>4, <1>5, <2>1, <2>3 DEF Whole, AnswersHold
<1>8. ImagesBelong'
  <2> SUFFICES ASSUME NEW f \in Files, image'[f] # NULL
               PROVE  LET j == image'[f].incidencia IN
                      /\ incident'[j] # NULL
                      /\ image'[f].url = "storage" /\ f \notin reverted' =>
                            /\ answer[j] # "created"
                            /\ \A r \in CreateSlots : Owns(r, j) =>
                                   \/ task[r].at = "rollback"
                                   \/ task[r].at = "urls" /\ f \in task[r].uploaded
    BY <1>1 DEF ImagesBelong, Owns
  <2>1. CASE f \in rows
    <3>1. image'[f] = loaded.images[f] /\ image'[f].incidencia = i
      BY <1>1, <2>1 DEF Whole, LoadedWasThere
    <3>2. incident'[i] # NULL
      BY <1>2, <1>3, <1>4
    <3>3. f \notin reverted' => f \notin reverted /\ image'[f] = image[f]
      BY <1>1, <2>1, <3>1
    <3>4. QED
      BY <3>1, <3>2, <3>3 DEF Whole, ImagesBelong
  <2>2. CASE f \notin rows
    <3>1. image'[f] = image[f] /\ (f \notin reverted' => f \notin reverted)
      BY <1>1, <2>2
    <3>2. image[f].incidencia \in Incidents
      BY <3>1 DEF Typed, TypeOK, Images
    <3>3. QED
      BY <1>5, <3>1, <3>2 DEF Whole, ImagesBelong
  <2>3. QED
    BY <2>1, <2>2
<1>9. ObjectsStay'
  BY <1>1 DEF Whole, ObjectsStay, LoadedWasThere
<1>10. QED
  BY <1>1, <1>6, <1>7, <1>8, <1>9 DEF Whole, LoadedWasThere

LEMMA InitIsWhole == Init => Whole
  BY IdleType DEF Init, Whole, OwnedIsThere, AnswersHold, ImagesBelong, ObjectsStay,
                  LoadedWasThere, Owns, Idle

LEMMA NextKeepsWhole == Typed /\ Whole /\ [Next]_vars => Whole'
<1> SUFFICES ASSUME Typed, Whole, [Next]_vars PROVE Whole'
  OBVIOUS
<1>1. CASE \E s \in CreateSlots : Step(s)
  BY <1>1, StepKeepsWhole
<1>2. CASE OthersChange
  <2>1. UNCHANGED <<incident, image, objects, task, answer, loaded, restored, reverted>>
    BY <1>2 DEF OthersChange
  <2>2. QED
    BY <2>1 DEF Whole, OwnedIsThere, AnswersHold, ImagesBelong, ObjectsStay, LoadedWasThere,
                Owns
<1>3. CASE Crash
  BY <1>3, IdleType DEF Crash, Whole, OwnedIsThere, AnswersHold, ImagesBelong, ObjectsStay,
                        LoadedWasThere, Owns, Idle
<1>4. CASE UNCHANGED vars
  BY <1>4 DEF vars, others, Whole, OwnedIsThere, AnswersHold, ImagesBelong, ObjectsStay,
              LoadedWasThere, Owns
<1>5. QED
  BY <1>1, <1>2, <1>3, <1>4, LoadKeepsWhole, SaveLoadedKeepsWhole DEF Next

\* A creation answered as created has its row, and no image of it, those of the
\* chat included, shows the store's address; one answered as failed has left
\* neither.  However many creations overlap, and wherever they fail, right after
\* their row was stored too, or the process stops (create and its catch).  Only
\* an incident or an image that another handler had loaded before and saved
\* after is otherwise, and the incident is then one whose creation failed.
THEOREM CreationsAreWhole == Spec => []AllOrNothing
<1>1. Typed /\ Whole => AllOrNothing
  <2> SUFFICES ASSUME Typed, Whole, NEW i \in Incidents
               PROVE  /\ answer[i] = "failed" /\ i \notin restored =>
                             incident[i] = NULL /\ ImagesOf(i) = {}
                      /\ answer[i] = "created" =>
                             /\ incident[i] # NULL
                             /\ \A f \in ImagesOf(i) \ reverted : image[f].url = "api"
                      /\ i \in restored => answer[i] = "failed"
    BY DEF AllOrNothing
  <2>1. \A f \in ImagesOf(i) : f \in Files /\ image[f] # NULL /\ image[f].incidencia = i
                               /\ image[f].url \in {"storage", "api"}
    BY DEF ImagesOf, Typed, TypeOK, Images
  <2>2. incident[i] = NULL => ImagesOf(i) = {}
    BY <2>1 DEF Whole, ImagesBelong
  <2>3. answer[i] = "created" => \A f \in ImagesOf(i) \ reverted : image[f].url = "api"
    BY <2>1 DEF Whole, ImagesBelong
  <2>4. QED
    BY <2>2, <2>3 DEF Whole, AnswersHold
<1>2. QED
  BY <1>1, InitIsTyped, NextKeepsTyped, InitIsWhole, NextKeepsWhole, PTL DEF Spec

\* No image row ever refers to an object that is not in the store: both
\* handlers upload before they insert, and nothing deletes an object.
THEOREM ImagesAreStored == Spec => []EveryImageIsStored
<1>1. Whole => EveryImageIsStored
  BY DEF Whole, ObjectsStay, EveryImageIsStored
<1>2. QED
  BY <1>1, InitIsTyped, NextKeepsTyped, InitIsWhole, NextKeepsWhole, PTL DEF Spec
-----------------------------------------------------------------------------
(* The loads of the employees *)

\* Nobody else changed what is counted, and no creation was rolled back.
Undisturbed == ~ disturbed /\ \A i \in Incidents : answer[i] # "failed"

\* A handler that may still give an incident to employee e when every load it
\* goes by is at most y: it counted e's load, and not more than y, or chose e.
Vote(t, e, y) ==
    \/ t.at = "count" /\ t.counted[e] # NULL /\ t.counted[e] <= y
    \/ t.at = "save" /\ t.assigned = e

Votes(e, y) == {s \in CreateSlots : Vote(task[s], e, y)}

\* What a handler has counted was the load at some time, and loads only grow.
CountIsOld(t) ==
    /\ t.at \in {"idle", "holders", "users"} => t.assigned = NULL /\ t.counted = Idle.counted
    /\ t.at \in {"users", "count"} => t.candidates = holds
    /\ t.at = "count" =>
          \A f \in Employees : t.counted[f] # NULL => t.counted[f] <= Workload(f)

CountsAreOld == \A s \in CreateSlots : CountIsOld(task[s])

\* Were all who may vote for e to do so before the load of f exceeds y, the
\* load of e would exceed y by at most the number of slots.
VotesStayClose ==
    \A e, f \in holds : \A y \in Nat :
        Workload(f) <= y => Workload(e) + Cardinality(Votes(e, y)) <= y + Cardinality(CreateSlots)

Balanced == Undisturbed => active = Employees /\ CountsAreOld /\ VotesStayClose

LEMMA SlotsAreFinite ==
    /\ Cardinality(CreateSlots) \in Nat
    /\ \A V \in SUBSET CreateSlots : /\ IsFiniteSet(V)
                                     /\ Cardinality(V) \in Nat
                                     /\ Cardinality(V) <= Cardinality(CreateSlots)
<1>1. IsFiniteSet(CreateSlots)
  BY CreationAssumption DEF CreationAssumption
<1>2. QED
  BY <1>1, FS_Subset, FS_CardinalityType

LEMMA VotesType ==
    \A e, y : /\ Votes(e, y) \in SUBSET CreateSlots
              /\ IsFiniteSet(Votes(e, y))
              /\ Cardinality(Votes(e, y)) \in Nat
              /\ Cardinality(Votes(e, y)) <= Cardinality(CreateSlots)
<1>1. \A e, y : Votes(e, y) \in SUBSET CreateSlots
  BY DEF Votes
<1>2. QED
  BY <1>1, SlotsAreFinite

\* With fewer who vote for e and the same loads, or where y is not below e's
\* load, the bound holds.
LEMMA MoveStaysClose ==
    ASSUME Typed, CountsAreOld, VotesStayClose, NEW s \in CreateSlots, NEW n, Becomes(s, n),
           UNCHANGED <<incident, holds, active>>,
           CountIsOld(n),
           \A e, f \in holds : \A y \in Nat :
               Workload(f) <= y /\ Vote(n, e, y) => Vote(task[s], e, y) \/ Workload(e) <= y
    PROVE  CountsAreOld' /\ VotesStayClose'
<1>1. task'[s] = n /\ \A r \in CreateSlots \ {s} : task'[r] = task[r]
  BY OwnsAfter
<1>2. \A e : Workload(e)' = Workload(e)
  BY DEF Workload
<1>3. CountsAreOld'
  <2> SUFFICES ASSUME NEW r \in CreateSlots PROVE CountIsOld(task[r])'
    BY DEF CountsAreOld
  <2>1. CountIsOld(task'[r])
    BY <1>1 DEF CountsAreOld
  <2>2. QED
    BY <1>2, <2>1 DEF CountIsOld
<1>4. VotesStayClose'
  <2> SUFFICES ASSUME NEW e \in holds, NEW f \in holds, NEW y \in Nat, Workload(f) <= y
               PROVE  Workload(e) + Cardinality(Votes(e, y)') <= y + Cardinality(CreateSlots)
    BY <1>2 DEF VotesStayClose
  <2>1. Workload(e) \in Nat /\ Workload(f) \in Nat /\ Cardinality(CreateSlots) \in Nat
    BY WorkloadType, SlotsAreFinite, CreationAssumption DEF Typed, TypeOK, CreationAssumption
  <2>2. Votes(e, y)' = {r \in CreateSlots : Vote(task'[r], e, y)}
    BY DEF Votes, Vote
  <2>3. Votes(e, y)' \in SUBSET CreateSlots
    BY <2>2
  <2>4. CASE Workload(e) <= y
    <3>1. Cardinality(Votes(e, y)') \in Nat
          /\ Cardinality(Votes(e, y)') <= Cardinality(CreateSlots)
      BY <2>3, SlotsAreFinite
    <3>2. QED
      BY <2>1, <2>4, <3>1
  <2>5. CASE ~ (Workload(e) <= y)
    <3>1. Votes(e, y)' \subseteq Votes(e, y)
      BY <1>1, <2>2, <2>5 DEF Votes
    <3>2. Cardinality(Votes(e, y)') \in Nat
          /\ Cardinality(Votes(e, y)') <= Cardinality(Votes(e, y))
      BY <3>1, VotesType, FS_Subset, FS_CardinalityType
    <3>3. Workload(e) + Cardinality(Votes(e, y)) <= y + Cardinality(CreateSlots)
      BY DEF VotesStayClose
    <3>4. QED
      BY <2>1, <3>2, <3>3, VotesType
  <2>6. QED
    BY <2>4, <2>5
<1>5. QED
  BY <1>3, <1>4

\* A handler that is neither counting nor about to save votes for nobody.
LEMMA AbstainerStaysClose ==
    ASSUME Typed, CountsAreOld, VotesStayClose, NEW s \in CreateSlots, NEW n, Becomes(s, n),
           UNCHANGED <<incident, holds, active>>,
           n = Idle \/ n.at \in {"reload", "upload", "insert", "urls", "notify", "rollback"}
    PROVE  CountsAreOld' /\ VotesStayClose'
<1>1. Idle.at = "idle" /\ Idle.assigned = NULL
  BY DEF Idle
<1>2. CountIsOld(n) /\ \A e, y : ~ Vote(n, e, y)
  BY <1>1 DEF CountIsOld, Vote
<1>3. QED
  BY <1>2, MoveStaysClose

LEMMA CandidatesStayClose ==
    ASSUME Typed, active = Employees, CountsAreOld, VotesStayClose, NEW s \in CreateSlots,
           FindUserRoles(s) \/ FindEmployees(s)
    PROVE  CountsAreOld' /\ VotesStayClose'
<1> DEFINE t == task[s]
           at == IF t.at = "holders" THEN "users" ELSE "count"
           n == [t EXCEPT !.candidates = holds, !.at = IF holds = {} THEN "save" ELSE at]
<1>1. t \in Tasks /\ CountIsOld(t) /\ t.at \in {"holders", "users"}
  BY DEF Typed, Sound, CountsAreOld, FindUserRoles, FindEmployees
<1>2. t.at = "users" => t.candidates \cap active = holds
  BY <1>1 DEF CountIsOld, Typed, TypeOK
<1>3. Becomes(s, n) /\ UNCHANGED <<incident, holds, active>>
  BY <1>1, <1>2 DEF FindUserRoles, FindEmployees, Candidates
<1>4. /\ n.at \in {"users", "count", "save"}
      /\ n.at = "save" => holds = {}
      /\ n.candidates = holds /\ n.assigned = NULL /\ n.counted = Idle.counted
  BY <1>1 DEF Tasks, CountIsOld
<1>5. \A f \in Employees : Idle.counted[f] = NULL
  BY DEF Idle
<1> HIDE DEF n
<1>6. CountIsOld(n)
  BY <1>4, <1>5 DEF CountIsOld
<1>7. \A e \in holds : \A y : ~ Vote(n, e, y)
  BY <1>4, <1>5 DEF Vote, Typed, TypeOK
<1>8. QED
  BY <1>3, <1>6, <1>7, MoveStaysClose

LEMMA CountStaysClose ==
    ASSUME Typed, CountsAreOld, VotesStayClose, NEW s \in CreateSlots, NEW e0 \in Employees,
           CountActiveIncidencias(s, e0)
    PROVE  CountsAreOld' /\ VotesStayClose'
<1> DEFINE t == task[s]
           counted == [t.counted EXCEPT ![e0] = Workload(e0)]
<1>1. /\ t \in Tasks /\ CountIsOld(t) /\ t.at = "count" /\ t.candidates = holds
      /\ UNCHANGED <<incident, holds, active>>
  BY DEF Typed, Sound, CountsAreOld, CountActiveIncidencias, CountIsOld
<1>2. /\ \A f \in Employees : Workload(f) \in Nat
      /\ holds \subseteq Employees
      /\ \A f \in Employees : t.counted[f] \in Nat \cup {NULL}
  BY <1>1, WorkloadType, CreationAssumption DEF Tasks, Typed, TypeOK, CreationAssumption
<1>3. \A f \in Employees : counted[f] = IF f = e0 THEN Workload(e0) ELSE t.counted[f]
  BY <1>1 DEF Tasks
<1>4. \A f \in Employees : counted[f] # NULL => counted[f] \in Nat /\ counted[f] <= Workload(f)
  BY <1>1, <1>2, <1>3 DEF CountIsOld
<1>5. CASE \E f \in t.candidates : counted[f] = NULL
  <2> DEFINE n == [t EXCEPT !.counted = counted]
  <2>1. Becomes(s, n)
    BY <1>5 DEF CountActiveIncidencias
  <2>2. n.at = "count" /\ n.candidates = holds /\ n.counted = counted
    BY <1>1 DEF Tasks
  <2> HIDE DEF n, counted
  <2>3. CountIsOld(n)
    BY <1>4, <2>2 DEF CountIsOld
  <2>4. ASSUME NEW e \in holds, NEW y \in Nat, Vote(n, e, y)
        PROVE  Vote(t, e, y) \/ Workload(e) <= y
    BY <1>1, <1>2, <1>3, <2>2, <2>4 DEF Vote
  <2>5. QED
    BY <1>1, <2>1, <2>3, <2>4, MoveStaysClose
<1>6. CASE ~ \E f \in t.candidates : counted[f] = NULL
  <2>1. PICK chosen \in Least(counted, t.candidates) :
           Becomes(s, [t EXCEPT !.at = "save", !.assigned = chosen,
                                !.candidates = {}, !.counted = Idle.counted])
    BY <1>6 DEF CountActiveIncidencias
  <2> DEFINE n == [t EXCEPT !.at = "save", !.assigned = chosen,
                            !.candidates = {}, !.counted = Idle.counted]
  <2>2. n.at = "save" /\ n.assigned = chosen
    BY <1>1 DEF Tasks
  <2>3. Becomes(s, n)
    BY <2>1
  <2> HIDE DEF n, counted
  <2>4. chosen \in holds /\ \A f \in holds : counted[chosen] <= counted[f]
    BY <1>1 DEF Least
  <2>5. CountIsOld(n)
    BY <2>2 DEF CountIsOld
  <2>6. ASSUME NEW e \in holds, NEW f \in holds, NEW y \in Nat, Workload(f) <= y,
               Vote(n, e, y)
        PROVE  Vote(t, e, y) \/ Workload(e) <= y
    <3>1. e = chosen
      BY <2>2, <2>6 DEF Vote
    <3>2. counted[e] # NULL /\ counted[f] # NULL
      BY <1>1, <1>6
    <3>3. counted[e] \in Nat /\ counted[f] \in Nat /\ counted[f] <= Workload(f)
      BY <1>2, <1>4, <3>2
    <3>4. counted[e] <= counted[f]
      BY <2>4, <3>1
    <3>5. Workload(f) \in Nat
      BY <1>2
    <3>6. counted[e] <= y
      BY <2>6, <3>3, <3>4, <3>5
    <3>7. QED
      BY <1>1, <1>2, <1>3, <3>2, <3>6 DEF Vote
  <2>7. QED
    BY <1>1, <2>3, <2>5, <2>6, MoveStaysClose
<1>7. QED
  BY <1>5, <1>6

LEMMA SaveStaysClose ==
    ASSUME Typed, CountsAreOld, VotesStayClose, NEW s \in CreateSlots, NEW i \in Incidents,
           SaveIncidencia(s, i)
    PROVE  CountsAreOld' /\ VotesStayClose'
<1> DEFINE t == task[s]
           n == [t EXCEPT !.incidencia = i, !.assigned = NULL, !.at = "reload"]
           Open(e) == {j \in Incidents : incident[j] # NULL /\ incident[j].open
                                         /\ incident[j].assigned = e}
<1>1. /\ t \in Tasks /\ t.at = "save" /\ incident[i] = NULL /\ Becomes(s, n)
      /\ incident' = [incident EXCEPT ![i] = [assigned |-> t.assigned, open |-> TRUE]]
      /\ UNCHANGED <<holds, active>>
  BY DEF Typed, Sound, SaveIncidencia, FreshIncidents, Given
<1>2. n.at = "reload"
  BY <1>1 DEF Tasks
<1>3. task'[s] = n /\ \A r \in CreateSlots \ {s} : task'[r] = task[r]
  BY <1>1, OwnsAfter
<1> HIDE DEF n
<1>4. /\ incident'[i] = [assigned |-> t.assigned, open |-> TRUE]
      /\ \A j \in Incidents \ {i} : incident'[j] = incident[j]
      /\ incident'[i] # NULL
  <2>1. [assigned |-> t.assigned, open |-> TRUE] \in Incidencias
    BY <1>1 DEF Tasks, Incidencias
  <2>2. QED
    BY <1>1, <2>1, NullIsNoRow DEF Typed, TypeOK
<1>5. \A e : Open(e)' = IF e = t.assigned THEN Open(e) \cup {i} ELSE Open(e)
  BY <1>1, <1>4
<1>6. \A e : i \notin Open(e) /\ IsFiniteSet(Open(e)) /\ Cardinality(Open(e)) \in Nat
             /\ Workload(e) = Cardinality(Open(e)) /\ Workload(e)' = Cardinality(Open(e)')
  <2>1. MaxIncidents \in Nat
    BY CreationAssumption DEF CreationAssumption
  <2>2. IsFiniteSet(Incidents)
    BY <2>1, FS_Interval DEF Incidents
  <2>3. \A e : Open(e) \in SUBSET Incidents
    OBVIOUS
  <2>4. \A e : IsFiniteSet(Open(e)) /\ Cardinality(Open(e)) \in Nat
    BY <2>2, <2>3, FS_Subset, FS_CardinalityType
  <2>5. QED
    BY <1>1, <2>4 DEF Workload
<1> HIDE DEF Open
<1>7. \A e : /\ Workload(e) \in Nat
             /\ Workload(e)' = Workload(e) + IF e = t.assigned THEN 1 ELSE 0
  <2>1. \A e : Cardinality(Open(e) \cup {i}) = Cardinality(Open(e)) + 1
    BY <1>6, FS_AddElement
  <2>2. QED
    BY <1>5, <1>6, <2>1
<1>8. CountsAreOld'
  <2> SUFFICES ASSUME NEW r \in CreateSlots PROVE CountIsOld(task[r])'
    BY DEF CountsAreOld
  <2>1. CASE r = s
    BY <1>2, <1>3, <2>1 DEF CountIsOld
  <2>2. CASE r # s
    <3>1. task'[r] = task[r] /\ CountIsOld(task[r]) /\ task[r] \in Tasks
      BY <1>3, <2>2 DEF CountsAreOld, Typed, Sound
    <3>2. \A f \in Employees : task[r].counted[f] # NULL => task[r].counted[f] \in Nat
      BY <3>1, CreationAssumption DEF Tasks, CreationAssumption
    <3>3. \A f \in Employees : task[r].counted[f] # NULL /\ task[r].counted[f] <= Workload(f) =>
              task[r].counted[f] <= Workload(f)'
      BY <1>7, <3>2
    <3>4. QED
      BY <1>1, <3>1, <3>3 DEF CountIsOld
  <2>3. QED
    BY <2>1, <2>2
<1>9. VotesStayClose'
  <2> SUFFICES ASSUME NEW e \in holds, NEW f \in holds, NEW y \in Nat, Workload(f)' <= y
               PROVE  Workload(e)' + Cardinality(Votes(e, y)') <= y + Cardinality(CreateSlots)
    BY <1>1 DEF VotesStayClose
  <2>1. Workload(f) <= y
    BY <1>7
  <2>2. Workload(e) + Cardinality(Votes(e, y)) <= y + Cardinality(CreateSlots)
    BY <2>1 DEF VotesStayClose
  <2>3. Votes(e, y)' = Votes(e, y) \ {s}
    <3>1. Votes(e, y)' = {r \in CreateSlots : Vote(task'[r], e, y)}
      BY DEF Votes, Vote
    <3>2. ~ Vote(task'[s], e, y)
      BY <1>2, <1>3 DEF Vote
    <3>3. QED
      BY <1>3, <3>1, <3>2 DEF Votes
  <2>4. e = t.assigned => s \in Votes(e, y)
    BY <1>1 DEF Votes, Vote
  <2>5. Cardinality(Votes(e, y)') =
            IF s \in Votes(e, y) THEN Cardinality(Votes(e, y)) - 1 ELSE Cardinality(Votes(e, y))
    BY <2>3, VotesType, FS_RemoveElement
  <2>6. QED
    BY <1>7, <2>2, <2>4, <2>5, VotesType, SlotsAreFinite
<1>10. QED
  BY <1>8, <1>9

LEMMA StepStaysBalanced ==
    ASSUME Typed, Whole, Balanced, NEW s \in CreateSlots, Step(s)
    PROVE  Balanced'
<1> SUFFICES ASSUME Undisturbed'
             PROVE  (active = Employees)' /\ CountsAreOld' /\ VotesStayClose'
  BY DEF Balanced
<1> DEFINE t == task[s]
<1>0. Typed' /\ Sound(t) /\ t \in Tasks
  BY StepKeepsTyped DEF Typed, Sound
<1>1. UNCHANGED <<holds, active, disturbed>>
  BY DEF Step, Create, UploadMessageImages, FindUserRoles, FindEmployees, Candidates,
     CountActiveIncidencias, SaveIncidencia, Reload, UploadFile, SaveImages, SaveUrls,
     Notify, Fails, Rollback, RollbackFails, others
<1>2. Undisturbed
  <2> SUFFICES ASSUME NEW i \in Incidents, answer[i] = "failed" PROVE FALSE
    BY <1>1 DEF Undisturbed
  <2>1. \A j \in Incidents : j # t.incidencia => answer'[j] = answer[j]
    BY DEF Step, Create, UploadMessageImages, FindUserRoles, FindEmployees, Candidates,
       CountActiveIncidencias, SaveIncidencia, Reload, UploadFile, SaveImages, SaveUrls,
       Notify, Fails, Rollback, RollbackFails, Typed, TypeOK
  <2>2. i = t.incidencia
    BY <2>1 DEF Undisturbed
  <2>3. answer' = answer \/ (t.at \in {"notify", "rollback"} /\ t.op = "create")
    BY <1>0 DEF Step, Create, UploadMessageImages, FindUserRoles, FindEmployees, Candidates,
       CountActiveIncidencias, SaveIncidencia, Reload, UploadFile, SaveImages, SaveUrls,
       Notify, Fails, Rollback, RollbackFails, Sound
  <2>4. answer' # answer
    BY DEF Undisturbed
  <2>5. Owns(s, i)
    BY <2>2, <2>3, <2>4 DEF Owns
  <2>6. QED
    BY <2>5 DEF Whole, OwnedIsThere
<1>3. active = Employees /\ CountsAreOld /\ VotesStayClose
  BY <1>2 DEF Balanced
<1>4. active' = Employees
  BY <1>1, <1>3
<1>5. ASSUME NEW files \in SUBSET Files, Create(s, files)
      PROVE  CountsAreOld' /\ VotesStayClose'
  <2> DEFINE n == [Idle EXCEPT !.op = "create", !.at = "holders", !.files = files]
  <2>1. n.at = "holders" /\ n.assigned = NULL /\ n.counted = Idle.counted
    BY DEF Idle
  <2>2. Becomes(s, n) /\ UNCHANGED <<incident, holds, active>>
    BY <1>5 DEF Create
  <2> HIDE DEF n
  <2>3. CountIsOld(n) /\ \A e, y : ~ Vote(n, e, y)
    BY <2>1 DEF CountIsOld, Vote
  <2>4. QED
    BY <1>3, <2>2, <2>3, MoveStaysClose
<1>6. ASSUME NEW files \in SUBSET Files, NEW i \in Incidents, UploadMessageImages(s, i, files)
      PROVE  CountsAreOld' /\ VotesStayClose'
  <2> DEFINE n == [Idle EXCEPT !.op = "message", !.at = "upload", !.incidencia = i,
                               !.files = files]
  <2>1. n.at = "upload"
    BY DEF Idle
  <2>2. Becomes(s, n) /\ UNCHANGED <<incident, holds, active>>
    BY <1>6 DEF UploadMessageImages
  <2> HIDE DEF n
  <2>3. QED
    BY <1>3, <2>1, <2>2, AbstainerStaysClose
<1>7. CASE FindUserRoles(s) \/ FindEmployees(s)
  BY <1>3, <1>4, <1>7, CandidatesStayClose
<1>8. ASSUME NEW e \in Employees, CountActiveIncidencias(s, e)
      PROVE  CountsAreOld' /\ VotesStayClose'
  BY <1>3, <1>8, CountStaysClose
<1>9. ASSUME NEW i \in Incidents, SaveIncidencia(s, i)
      PROVE  CountsAreOld' /\ VotesStayClose'
  BY <1>3, <1>9, SaveStaysClose
<1>10. ASSUME NEW f \in Files, UploadFile(s, f)
       PROVE  CountsAreOld' /\ VotesStayClose'
  <2> DEFINE n == [t EXCEPT !.files = t.files \ {f}, !.uploaded = t.uploaded \cup {f},
                            !.at = IF t.op = "create" /\ t.files # {f} THEN "upload"
                                                                       ELSE "insert"]
  <2>1. n.at \in {"upload", "insert"}
    BY <1>0 DEF Tasks
  <2>2. Becomes(s, n) /\ UNCHANGED <<incident, holds, active>>
    BY <1>10 DEF UploadFile
  <2> HIDE DEF n
  <2>3. QED
    BY <1>3, <2>1, <2>2, AbstainerStaysClose
<1>11. CASE SaveImages(s) \/ SaveUrls(s)
  <2> DEFINE n1 == [t EXCEPT !.at = "urls"]
             n2 == [t EXCEPT !.at = "upload", !.uploaded = {}]
             n3 == [t EXCEPT !.at = "notify", !.uploaded = {}]
  <2>1. n1.at = "urls" /\ n2.at = "upload" /\ n3.at = "notify"
    BY <1>0 DEF Tasks
  <2>2. /\ Becomes(s, n1) \/ Becomes(s, n2) \/ Becomes(s, n3) \/ Becomes(s, Idle)
        /\ UNCHANGED <<incident, holds, active>>
    BY <1>11 DEF SaveImages, SaveUrls
  <2> HIDE DEF n1, n2, n3
  <2>3. QED
    BY <1>3, <2>1, <2>2, AbstainerStaysClose
<1>12. CASE Notify(s) \/ RollbackFails(s)
  BY <1>3, <1>12, AbstainerStaysClose DEF Notify, RollbackFails
<1>13. CASE Fails(s)
  <2> DEFINE n == [Idle EXCEPT !.op = "create", !.at = "rollback",
                               !.incidencia = t.incidencia]
  <2>1. n.at = "rollback"
    BY DEF Idle
  <2>2. (Becomes(s, n) \/ Becomes(s, Idle)) /\ UNCHANGED <<incident, holds, active>>
    BY <1>13 DEF Fails
  <2> HIDE DEF n
  <2>3. QED
    BY <1>3, <2>1, <2>2, AbstainerStaysClose
<1>131. CASE Reload(s)
  <2> DEFINE n == [t EXCEPT !.at = IF t.files = {} THEN "notify" ELSE "upload"]
  <2>1. n.at \in {"notify", "upload"}
    BY <1>0 DEF Tasks
  <2>2. Becomes(s, n) /\ UNCHANGED <<incident, holds, active>>
    BY <1>131 DEF Reload
  <2> HIDE DEF n
  <2>3. QED
    BY <1>3, <2>1, <2>2, AbstainerStaysClose
<1>14. ~ Rollback(s)
  <2> SUFFICES ASSUME Rollback(s) PROVE FALSE
    OBVIOUS
  <2>1. t.incidencia \in Incidents /\ answer'[t.incidencia] = "failed"
    BY <1>0 DEF Rollback, Sound, Typed, TypeOK
  <2>2. QED
    BY <2>1 DEF Undisturbed
<1>15. CountsAreOld' /\ VotesStayClose'
  BY <1>5, <1>6, <1>7, <1>8, <1>9, <1>10, <1>11, <1>12, <1>13, <1>131, <1>14 DEF Step
<1>16. QED
  BY <1>4, <1>15

LEMMA InitIsBalanced == Init => Balanced
<1> SUFFICES ASSUME Init PROVE active = Employees /\ CountsAreOld /\ VotesStayClose
  BY DEF Balanced
<1>1. active = Employees /\ CountsAreOld
  BY DEF Init, CountsAreOld, CountIsOld, Idle
<1>2. VotesStayClose
  <2> SUFFICES ASSUME NEW e \in holds, NEW f \in holds, NEW y \in Nat
               PROVE  Workload(e) + Cardinality(Votes(e, y)) <= y + Cardinality(CreateSlots)
    BY DEF VotesStayClose
  <2>1. {i \in Incidents : incident[i] # NULL /\ incident[i].open
                           /\ incident[i].assigned = e} = {}
    BY DEF Init
  <2>2. Workload(e) = 0
    BY <2>1, FS_EmptySet DEF Workload
  <2>3. QED
    BY <2>2, VotesType, SlotsAreFinite
<1>3. QED
  BY <1>1, <1>2

LEMMA NextStaysBalanced == Typed /\ Whole /\ Balanced /\ [Next]_vars => Balanced'
<1> SUFFICES ASSUME Typed, Whole, Balanced, [Next]_vars PROVE Balanced'
  OBVIOUS
<1>1. CASE \E s \in CreateSlots : Step(s)
  BY <1>1, StepStaysBalanced
<1>2. CASE OthersChange
  BY <1>2 DEF OthersChange, Balanced, Undisturbed
<1>3. CASE Crash \/ UNCHANGED vars
  <2>1. /\ UNCHANGED <<incident, holds, active, answer, disturbed>>
        /\ task' = task \/ task' = [s \in CreateSlots |-> Idle]
    BY <1>3 DEF Crash, vars, others
  <2> SUFFICES ASSUME Undisturbed
               PROVE  (active = Employees)' /\ CountsAreOld' /\ VotesStayClose'
    BY <2>1 DEF Balanced, Undisturbed
  <2>2. active = Employees /\ CountsAreOld /\ VotesStayClose
    BY DEF Balanced
  <2>3. \A e : Workload(e)' = Workload(e)
    BY <2>1 DEF Workload
  <2>4. CASE task' = task
    <3>1. \A e, y : Votes(e, y)' = Votes(e, y)
      BY <2>4 DEF Votes, Vote
    <3>2. QED
      BY <2>1, <2>2, <2>3, <2>4, <3>1 DEF CountsAreOld, CountIsOld, VotesStayClose
  <2>5. CASE task' = [s \in CreateSlots |-> Idle]
    <3>1. \A e, y : Votes(e, y)' = {}
      BY <2>5 DEF Votes, Vote, Idle
    <3>2. CountsAreOld'
      BY <2>5 DEF CountsAreOld, CountIsOld, Idle
    <3>3. VotesStayClose'
      <4> SUFFICES ASSUME NEW e \in holds, NEW f \in holds, NEW y \in Nat, Workload(f) <= y
                   PROVE  Workload(e) + Cardinality(Votes(e, y)')
                              <= y + Cardinality(CreateSlots)
        BY <2>1, <2>3 DEF VotesStayClose
      <4>1. Cardinality(Votes(e, y)') = 0
        BY <3>1, FS_EmptySet
      <4>2. Workload(e) + Cardinality(Votes(e, y)) <= y + Cardinality(CreateSlots)
        BY <2>2 DEF VotesStayClose
      <4>3. Workload(e) \in Nat
        BY WorkloadType, CreationAssumption DEF Typed, TypeOK, CreationAssumption
      <4>4. QED
        BY <4>1, <4>2, <4>3, VotesType, SlotsAreFinite
    <3>4. QED
      BY <2>1, <2>2, <3>2, <3>3
  <2>6. QED
    BY <2>1, <2>4, <2>5
<1>4. ASSUME NEW i \in Incidents, NEW relation \in BOOLEAN, LoadIncidencia(i, relation)
      PROVE  Balanced'
  <2>1. UNCHANGED <<incident, holds, active, task, answer, disturbed>>
    BY <1>4 DEF LoadIncidencia
  <2>2. /\ \A e : Workload(e)' = Workload(e)
        /\ \A e, y : Votes(e, y)' = Votes(e, y)
    BY <2>1 DEF Workload, Votes, Vote
  <2>3. QED
    BY <2>1, <2>2 DEF Balanced, Undisturbed, CountsAreOld, CountIsOld, VotesStayClose
<1>5. CASE SaveLoaded
  BY <1>5 DEF SaveLoaded, Balanced, Undisturbed
<1>6. QED
  BY <1>1, <1>2, <1>3, <1>4, <1>5 DEF Next

\* No employee who receives incidents gets ahead of another by more incidents
\* than there are creations at once, although each creation goes by loads it
\* counted one by one while others stored theirs, and although creations stop
\* anywhere (getEmployeeWithLeastWorkload).  While nobody else changes what is
\* counted and no creation was rolled back.
THEOREM AssignmentsStayClose == Spec => []LoadsStayClose
<1>1. Typed /\ Balanced => LoadsStayClose
  <2> SUFFICES ASSUME Typed, Undisturbed, Balanced,
                      NEW e \in holds \cap active, NEW f \in holds \cap active
               PROVE  Workload(e) <= Workload(f) + Cardinality(CreateSlots)
    BY DEF LoadsStayClose, Undisturbed
  <2>1. Workload(e) \in Nat /\ Workload(f) \in Nat
    BY WorkloadType, CreationAssumption DEF Typed, TypeOK, CreationAssumption
  <2>2. Workload(f) <= Workload(f)
    BY <2>1
  <2>3. Workload(e) + Cardinality(Votes(e, Workload(f)))
            <= Workload(f) + Cardinality(CreateSlots)
    BY <2>1, <2>2 DEF Balanced, VotesStayClose
  <2>4. QED
    BY <2>1, <2>3, VotesType, SlotsAreFinite
<1>2. QED
  BY <1>1, InitIsTyped, NextKeepsTyped, InitIsWhole, NextKeepsWhole, InitIsBalanced,
     NextStaysBalanced, PTL DEF Spec
=============================================================================
