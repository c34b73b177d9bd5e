-------------------------- MODULE IncidentCreation --------------------------
(***************************************************************************)
(* The creation of incidents in one enterprise (incidencias.service.ts     *)
(* create, uploadMessageImages) and the choice of the employee each is     *)
(* given to (employee-assignment.service.ts).                              *)
(*                                                                         *)
(* Nothing is a transaction: the workloads are counted one query each, the *)
(* incident is stored before its images are, and a creation that fails     *)
(* deletes the row it had stored.  The images' objects are in an external  *)
(* store and are never deleted.  Other handlers change incidents as this   *)
(* code base does, by loading a row and saving it later, which puts a row  *)
(* that was deleted meanwhile back (TypeOrm).  One action between two      *)
(* awaits.                                                                 *)
(***************************************************************************)
EXTENDS Naturals, FiniteSets, FiniteSetsExt, Null, TypeOrm

CONSTANTS
    Employees,
    Files,        \* the ids of image rows, and the keys of their objects
    CreateSlots,  \* creations and uploads in flight at once
    MaxIncidents, \* bound: incidents stored
    MaxWithImages \* bound: incidents stored where images are

\* The ids of incidents, in the order they are stored.
Incidents == 1..MaxIncidents

Incidencias == [assigned : Employees \cup {NULL}, open : BOOLEAN]

\* url: the object's own address, or the one the interface serves it at.
Images == [incidencia : Incidents, url : {"storage", "api"}]

\* What a handler of another service has loaded and will save: the row, and
\* the rows of the relation images if it loaded that too.
Loads ==
    [incidencia : Incidents, row : Incidencias, relation : BOOLEAN,
     images : [Files -> Images \cup {NULL}]]

ASSUME CreationAssumption ==
    /\ MaxIncidents \in Nat /\ MaxWithImages \in Nat
    /\ IsFiniteSet(CreateSlots)
    /\ NULL \notin Incidencias \cup Images \cup Incidents \cup Employees \cup Loads

VARIABLES
    incident,   \* the table incidencias; open: PENDING or IN_PROGRESS, and active
    image,      \* the table images
    objects,    \* the store
    holds,      \* who has a role that receives incidents
    active,     \* which accounts are active
    task,       \* what each slot is doing
    answer,     \* what the caller of each creation was told
    loaded,     \* what another handler is about to save
    disturbed,  \* whether other services changed what the assignment counts
    restored,   \* the incidents such a save put back after their DELETE
    reverted    \* the images it put back, or gave their earlier address

others == <<loaded, disturbed, restored, reverted>>

vars == <<incident, image, objects, holds, active, task, answer, others>>

\* counted: the workloads known so far.  files: those still to be uploaded.
Tasks ==
    [op : {"none", "create", "message"},
     at : {"idle", "holders", "users", "count", "save", "reload", "upload", "insert", "urls",
           "notify", "rollback"},
     incidencia : Incidents \cup {NULL}, candidates : SUBSET Employees,
     counted : [Employees -> 0..MaxIncidents \cup {NULL}],
     assigned : Employees \cup {NULL}, files : SUBSET Files, uploaded : SUBSET Files]

Idle ==
    [op |-> "none", at |-> "idle", incidencia |-> NULL, candidates |-> {},
     counted |-> [e \in Employees |-> NULL], assigned |-> NULL, files |-> {}, uploaded |-> {}]

Init ==
    /\ incident = [i \in Incidents |-> NULL]
    /\ image = [f \in Files |-> NULL]
    /\ objects = {}
    /\ holds \in SUBSET Employees
    /\ active = Employees
    /\ task = [s \in CreateSlots |-> Idle]
    /\ answer = [i \in Incidents |-> "none"]
    /\ loaded = NULL
    /\ disturbed = FALSE
    /\ restored = {}
    /\ reverted = {}

Becomes(s, t) == task' = [task EXCEPT ![s] = t]

\* The ids given so far.
Given == {i \in Incidents : incident[i] # NULL \/ answer[i] # "none"}

FreshFiles == Files \ (objects \cup UNION {task[s].files : s \in CreateSlots})

-----------------------------------------------------------------------------
(* EmployeeAssignmentService *)

\* create(): the images it is given, and at once the roles that receive.
Create(s, files) ==
    /\ task[s].at = "idle"
    /\ files \subseteq FreshFiles
    /\ files # {} => Given \subseteq 1..MaxWithImages
    /\ Becomes(s, [Idle EXCEPT !.op = "create", !.at = "holders", !.files = files])
    /\ UNCHANGED <<incident, image, objects, holds, active, answer, others>>

\* With nobody to choose from the incident is assigned to nobody.
Candidates(s, at, candidates) ==
    /\ Becomes(s, [task[s] EXCEPT !.candidates = candidates,
                                  !.at = IF candidates = {} THEN "save" ELSE at])
    /\ UNCHANGED <<incident, image, objects, holds, active, answer, others>>

\* The roles and who holds them ...
FindUserRoles(s) ==
    /\ task[s].at = "holders"
    /\ Candidates(s, "users", holds)

\* ... and which of those are active.
FindEmployees(s) ==
    /\ task[s].at = "users"
    /\ Candidates(s, "count", task[s].candidates \cap active)

Workload(e) ==
    Cardinality({i \in Incidents : incident[i] # NULL /\ incident[i].open
                                   /\ incident[i].assigned = e})

\* Mutated form: sorted the other way.
Least_Descending(counted, E) == {e \in E : \A f \in E : counted[e] >= counted[f]}

\* Of equal workloads the first in an order the queries do not fix.
Least(counted, E) == {e \in E : \A f \in E : counted[e] <= counted[f]}

\* countActiveIncidencias of one candidate; after the last one, the choice.
CountActiveIncidencias(s, e) ==
    LET t == task[s]
        counted == [t.counted EXCEPT ![e] = Workload(e)] IN
    /\ t.at = "count"
    /\ e \in t.candidates
    /\ t.counted[e] = NULL
    /\ IF \E f \in t.candidates : counted[f] = NULL
       THEN Becomes(s, [t EXCEPT !.counted = counted])
       ELSE \E chosen \in Least(counted, t.candidates) :
               Becomes(s, [t EXCEPT !.at = "save", !.assigned = chosen,
                                    !.candidates = {}, !.counted = Idle.counted])
    /\ UNCHANGED <<incident, image, objects, holds, active, answer, others>>

-----------------------------------------------------------------------------
(* IncidenciasService.create *)

FreshIncidents == Incidents \ Given

\* The next id is given to the row.
SaveIncidencia(s, i) ==
    LET t == task[s] IN
    /\ t.at = "save"
    /\ i \in FreshIncidents
    /\ \A j \in FreshIncidents : i <= j
    /\ FreshFiles # Files => i <= MaxWithImages
    /\ incident' = [incident EXCEPT ![i] = [assigned |-> t.assigned, open |-> TRUE]]
    /\ Becomes(s, [t EXCEPT !.incidencia = i, !.assigned = NULL, !.at = "reload"])
    /\ UNCHANGED <<image, objects, holds, active, answer, others>>

\* The row is read again, with images or without; when that throws or finds
\* nothing the creation Fails.
Reload(s) ==
    LET t == task[s] IN
    /\ t.at = "reload"
    /\ incident[t.incidencia] # NULL
    /\ Becomes(s, [t EXCEPT !.at = IF t.files = {} THEN "notify" ELSE "upload"])
    /\ UNCHANGED <<incident, image, objects, holds, active, answer, others>>

\* Mutated form: the row is inserted before there is an object.
Uploaded_Later(f) == objects

Uploaded(f) == objects \cup {f}

\* storageService.uploadFile, one file after the other.
UploadFile(s, f) ==
    LET t == task[s] IN
    /\ t.at = "upload"
    /\ f \in t.files
    /\ objects' = Uploaded(f)
    /\ Becomes(s, [t EXCEPT !.files = @ \ {f}, !.uploaded = @ \cup {f},
                            !.at = IF t.op = "create" /\ t.files # {f} THEN "upload"
                                                                       ELSE "insert"])
    /\ UNCHANGED <<incident, image, holds, active, answer, others>>

\* create() saves the object's address, the chat's route its own.
FirstUrl(op) == IF op = "create" THEN "storage" ELSE "api"

\* create() saves all rows together; the chat's route one, then the next file.
\* The rows refer to the incident, which must still be there.
SaveImages(s) ==
    LET t == task[s] IN
    /\ t.at = "insert"
    /\ incident[t.incidencia] # NULL
    /\ image' = [f \in Files |->
           IF f \in t.uploaded THEN [incidencia |-> t.incidencia, url |-> FirstUrl(t.op)]
                               ELSE image[f]]
    /\ Becomes(s, IF t.op = "create" THEN [t EXCEPT !.at = "urls"]
                  ELSE IF t.files = {} THEN Idle
                  ELSE [t EXCEPT !.at = "upload", !.uploaded = {}])
    /\ UNCHANGED <<incident, objects, holds, active, answer, others>>

\* save() of the entities in memory, with the addresses of the interface.
SaveUrls(s) ==
    LET t == task[s] IN
    /\ t.at = "urls"
    /\ image' = [f \in Files |->
           IF f \in t.uploaded THEN [incidencia |-> t.incidencia, url |-> "api"]
                               ELSE image[f]]
    /\ Becomes(s, [t EXCEPT !.at = "notify", !.uploaded = {}])
    /\ UNCHANGED <<incident, objects, holds, active, answer, others>>

\* The assigned employee is notified (Notifications); what sendToUser throws is
\* caught and the answer is the same.
Notify(s) ==
    LET t == task[s] IN
    /\ t.at = "notify"
    /\ answer' = [answer EXCEPT ![t.incidencia] = "created"]
    /\ Becomes(s, Idle)
    /\ UNCHANGED <<incident, image, objects, holds, active, others>>

\* Something throws; create() deletes the row it stored, if it did.
Fails(s) ==
    LET t == task[s] IN
    /\ t.at \notin {"idle", "notify", "rollback"}
    /\ IF t.op = "create" /\ t.incidencia # NULL
       THEN Becomes(s, [Idle EXCEPT !.op = "create", !.at = "rollback",
                                    !.incidencia = t.incidencia])
       ELSE Becomes(s, Idle)
    /\ UNCHANGED <<incident, image, objects, holds, active, answer, others>>

\* Mutated form: the caller is told, and the row stays.
Rollback_Keeps(s) ==
    /\ task[s].at = "rollback"
    /\ answer' = [answer EXCEPT ![task[s].incidencia] = "failed"]
    /\ Becomes(s, Idle)
    /\ UNCHANGED <<incident, image, objects, holds, active, others>>

ImagesOf(i) == {f \in Files : image[f] # NULL /\ image[f].incidencia = i}

\* The DELETE takes the incident's images with it.
Rollback(s) ==
    LET i == task[s].incidencia IN
    /\ task[s].at = "rollback"
    /\ incident' = [incident EXCEPT ![i] = NULL]
    /\ image' = [f \in Files |->
           IF f \in ImagesOf(i) THEN NULL ELSE image[f]]
    /\ answer' = [answer EXCEPT ![i] = "failed"]
    /\ Becomes(s, Idle)
    /\ UNCHANGED <<objects, holds, active, others>>

\* The DELETE fails too: the caller gets its error, the incident stays.
RollbackFails(s) ==
    /\ task[s].at = "rollback"
    /\ answer' = [answer EXCEPT ![task[s].incidencia] = "stranded"]
    /\ Becomes(s, Idle)
    /\ UNCHANGED <<incident, image, objects, holds, active, others>>

-----------------------------------------------------------------------------

\* Images for the chat of any incident that is there, while it is being
\* created too.
UploadMessageImages(s, i, files) ==
    /\ task[s].at = "idle"
    /\ incident[i] # NULL
    /\ files # {}
    /\ files \subseteq FreshFiles
    /\ Given \subseteq 1..MaxWithImages
    /\ Becomes(s, [Idle EXCEPT !.op = "message", !.at = "upload", !.incidencia = i,
                               !.files = files])
    /\ UNCHANGED <<incident, image, objects, holds, active, answer, others>>

\* update(), cancelIncidentByClient() and the alert cron load an incident;
\* update() alone loads its images with it.
LoadIncidencia(i, relation) ==
    /\ loaded = NULL
    /\ ~ disturbed
    /\ incident[i] # NULL
    /\ loaded' = [incidencia |-> i, row |-> incident[i], relation |-> relation,
                  images |-> [f \in Files |->
                      IF relation /\ f \in ImagesOf(i) THEN image[f] ELSE NULL]]
    /\ UNCHANGED <<incident, image, objects, holds, active, task, answer,
                   disturbed, restored, reverted>>

\* ... and save it, closed or not.  A row the creation deleted meanwhile is
\* inserted again, and so are the images that were loaded; those that are still
\* there get the columns they were loaded with.  Images stored since cannot be
\* cut off from the incident (incidenciaId is not nullable): that save fails.
SaveLoaded ==
    LET i == loaded.incidencia
        rows == {f \in Files : loaded.images[f] # NULL} IN
    /\ loaded # NULL
    /\ loaded.relation => CutOff(rows, ImagesOf(i)) = {}
    /\ \E open \in {loaded.row.open, FALSE} :
          incident' = [incident EXCEPT ![i] = [assigned |-> loaded.row.assigned, open |-> open]]
    /\ image' = [f \in Files |-> IF f \in rows THEN loaded.images[f] ELSE image[f]]
    /\ loaded' = NULL
    /\ disturbed' = TRUE
    /\ restored' = restored \cup {j \in {i} : incident[j] = NULL}
    /\ reverted' = reverted \cup {f \in rows : image[f] # loaded.images[f]}
    /\ UNCHANGED <<objects, holds, active, task, answer>>

\* The other services give and take roles and deactivate accounts.  (Bound: one
\* of these changes or of those saves.)
OthersChange ==
    /\ ~ disturbed
    /\ loaded = NULL
    /\ disturbed' = TRUE
    /\ \/ \E e \in Employees : holds' = SymDiff(holds, {e}) /\ UNCHANGED active
       \/ \E e \in Employees : active' = active \ {e} /\ UNCHANGED holds
    /\ UNCHANGED <<incident, image, objects, task, answer, loaded, restored, reverted>>

Crash ==
    /\ task' = [s \in CreateSlots |-> Idle]
    /\ loaded' = NULL
    /\ (task' # task \/ loaded' # loaded)
    /\ UNCHANGED <<incident, image, objects, holds, active, answer,
                   disturbed, restored, reverted>>

Step(s) ==
    \/ \E files \in SUBSET Files :
          Create(s, files) \/ \E i \in Incidents : UploadMessageImages(s, i, files)
    \/ FindUserRoles(s)
    \/ FindEmployees(s)
    \/ \E e \in Employees : CountActiveIncidencias(s, e)
    \/ \E i \in Incidents : SaveIncidencia(s, i)
    \/ Reload(s)
    \/ \E f \in Files : UploadFile(s, f)
    \/ SaveImages(s)
    \/ SaveUrls(s)
    \/ Notify(s)
    \/ Fails(s)
    \/ Rollback(s)
    \/ RollbackFails(s)

Next ==
    \/ \E s \in CreateSlots : Step(s)
    \/ \E i \in Incidents, relation \in BOOLEAN : LoadIncidencia(i, relation)
    \/ SaveLoaded
    \/ OthersChange
    \/ Crash

Spec == Init /\ [][Next]_vars

-----------------------------------------------------------------------------

TypeOK ==
    /\ incident \in [Incidents -> Incidencias \cup {NULL}]
    /\ image \in [Files -> Images \cup {NULL}]
    /\ objects \subseteq Files
    /\ holds \subseteq Employees
    /\ active \subseteq Employees
    /\ task \in [CreateSlots -> Tasks]
    /\ answer \in [Incidents -> {"none", "created", "failed", "stranded"}]
    /\ loaded \in Loads \cup {NULL}
    /\ disturbed \in BOOLEAN
    /\ restored \subseteq Incidents
    /\ reverted \subseteq Files

\* Creations that overlap count the same workloads and choose the same
\* employee; yet no employee who receives incidents gets ahead of another by
\* more than there are creations at once (getEmployeeWithLeastWorkload).  While
\* nobody else changes what is counted, and no creation fails after it was
\* counted: the row it deletes leaves the next ones one further apart.
LoadsStayClose ==
    ~ disturbed /\ (\A i \in Incidents : answer[i] # "failed") =>
        \A e, f \in holds \cap active :
            Workload(e) <= Workload(f) + Cardinality(CreateSlots)

\* A creation that was answered is whole: its incident is there and its images
\* show the interface's address; and one answered as failed, wherever it failed,
\* left neither row nor images, those of the chat added meanwhile included
\* (create's catch).  The one way back is a save of what another handler had
\* loaded before: it alone restores the incident, and it alone leaves an image
\* its earlier address.
AllOrNothing ==
    \A i \in Incidents :
        /\ answer[i] = "failed" /\ i \notin restored =>
               incident[i] = NULL /\ ImagesOf(i) = {}
        /\ answer[i] = "created" =>
               incident[i] # NULL /\ \A f \in ImagesOf(i) \ reverted : image[f].url = "api"
        /\ i \in restored => answer[i] = "failed"

\* Every image row, and so everything a screen shows, has its object in the
\* store, although objects outlive the rows of creations that failed
\* (uploadFile before save, in both handlers).
EveryImageIsStored == {f \in Files : image[f] # NULL} \subseteq objects
=============================================================================
