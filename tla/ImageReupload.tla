---------------------------- MODULE ImageReupload ----------------------------
(***************************************************************************)
(* The permission for a client to send more images of an incident: an      *)
(* employee grants it for some hours (MessagesService.requestImageReupload)*)
(* or withdraws it (disableClientImageUpload), one upload uses it up       *)
(* (IncidenciasService.reuploadImages).  It is columns of the incident's   *)
(* row, and every handler that touches the row saves them all.             *)
(* Handlers overlap as in IncidentLifecycle: one action between two awaits.*)
(***************************************************************************)
EXTENDS Integers, FiniteSets, TypeOrm, Null

CONSTANTS
    Slots,         \* handlers that may be in flight at once
    Workload,      \* the handlers each slot may run (environment)
    Images,        \* image records that may be made in the behaviour (bound)
    MAX_IMAGES,    \* images one upload may carry
    HoursAllowed,  \* the values of hoursAllowed in the requests (environment)
    MaxHour,       \* last hour of the clock (bound)
    MaxUnused      \* permissions that may be stored and not used (bound)

\* "touch" is any other handler that saves the row, e.g. an update of the
\* incident or the alert cron.
Ops == {"request", "disable", "reupload", "touch"}

ASSUME ReuploadAssumption ==
    /\ Workload \in [Slots -> SUBSET Ops]
    /\ IsFiniteSet(Images)
    /\ MAX_IMAGES \in Nat \ {0}
    /\ HoursAllowed \subseteq Nat \ {0}
    /\ MaxHour \in Nat
    /\ MaxUnused \in Nat
    /\ NULL \notin Nat

VARIABLES
    now,    \* the server's clock, in whole hours
    row,    \* the permission's columns of the incident's row
    task,   \* what each slot is doing
    files,  \* the images whose file is in the object store
    images, \* the images that have a record in the database
    unused  \* history: permissions stored less uploads that succeeded

vars == <<now, row, task, files, images, unused>>

Hours == {t + h : t \in 0..MaxHour, h \in HoursAllowed}

Rows == [canClientUploadImages : BOOLEAN, imagesUploadAllowedUntil : Hours \cup {NULL}]

Columns == {"canClientUploadImages", "imagesUploadAllowedUntil"}

Allowed(until) ==
    [canClientUploadImages |-> TRUE, imagesUploadAllowedUntil |-> until]

NotAllowed == [canClientUploadImages |-> FALSE, imagesUploadAllowedUntil |-> NULL]

\* A handler in flight: where it is suspended, the images it has yet to upload,
\* the one it is at, the entity it will save and the columns found changed.
Tasks ==
    [op : Ops \cup {"none"}, at : {"idle", "upload", "store", "select", "write"},
     todo : SUBSET Images, image : Images \cup {NULL}, entity : Rows,
     cols : SUBSET Columns]

Task(o, p, e) ==
    [op |-> o, at |-> p, todo |-> {}, image |-> NULL, entity |-> e, cols |-> {}]

Idle == Task("none", "idle", NotAllowed)

-----------------------------------------------------------------------------

Init ==
    /\ now = 0
    /\ row = NotAllowed
    /\ task = [s \in Slots |-> Idle]
    /\ files = {}
    /\ images = {}
    /\ unused = 0

Become(s, t) == task' = [task EXCEPT ![s] = t]

\* A handler takes slot s.
Start(s, t) ==
    /\ task[s].at = "idle"
    /\ t.op \in Workload[s]
    /\ Become(s, t)
    /\ UNCHANGED <<now, row, files, images, unused>>

-----------------------------------------------------------------------------
(* MessagesService *)

\* The permission is renewed whether or not there is one; the message that
\* tells the client is saved after the row and is not kept here.
RequestImageReupload(s, h) ==
    /\ unused < MaxUnused  \* bound
    /\ Start(s, Task("request", "select", Allowed(now + h)))

\* Mutated form: the columns are all set to null.
DisableClientImageUpload_Nulls(s) ==
    Start(s, Task("disable", "select",
                  [canClientUploadImages |-> NULL, imagesUploadAllowedUntil |-> NULL]))

DisableClientImageUpload(s) == Start(s, Task("disable", "select", NotAllowed))

Touch(s) == Start(s, Task("touch", "select", row))

-----------------------------------------------------------------------------
(* IncidenciasService.reuploadImages *)

\* The tests of the row as loaded; an expiry of null never expires.
MayUpload ==
    /\ row.canClientUploadImages
    /\ row.imagesUploadAllowedUntil # NULL => now <= row.imagesUploadAllowedUntil

\* The images of a request get fresh identifiers.
Fresh == Images \ (files \cup images \cup UNION {task[s].todo : s \in Slots})

\* Mutated form: the entity is saved with the permission as it was.
ReuploadImages_KeepsPermission(s, batch) ==
    /\ MayUpload
    /\ Start(s, [Task("reupload", "upload", row) EXCEPT !.todo = batch])

ReuploadImages(s, batch) ==
    /\ MayUpload
    /\ Start(s, [Task("reupload", "upload", NotAllowed) EXCEPT !.todo = batch])

\* Mutated form: the record is made first and the file sent after it.
UploadFile_RecordFirst(s, i) ==
    /\ task[s].at = "upload"
    /\ i \in task[s].todo
    /\ images' = images \cup {i}
    /\ Become(s, [task[s] EXCEPT !.at = "store", !.image = i])
    /\ UNCHANGED <<now, row, files, unused>>

\* storageService.uploadFile of the next image of the request.
UploadFile(s, i) ==
    /\ task[s].at = "upload"
    /\ i \in task[s].todo
    /\ files' = files \cup {i}
    /\ Become(s, [task[s] EXCEPT !.at = "store", !.image = i])
    /\ UNCHANGED <<now, row, images, unused>>

\* The insert of the image's record; after the last one the row is saved.
StoreImage(s) ==
    /\ task[s].at = "store"
    /\ images' = images \cup {task[s].image}
    /\ LET rest == task[s].todo \ {task[s].image}
       IN  Become(s, [task[s] EXCEPT !.at = IF rest = {} THEN "select" ELSE "upload",
                                     !.todo = rest, !.image = NULL])
    /\ UNCHANGED <<now, row, files, unused>>

\* The object store or the database fails: the caller is answered 500.  Of an
\* upload, the images stored so far stay and so does the permission.
HandlerFails(s) ==
    /\ task[s].at # "idle"
    /\ Become(s, Idle)
    /\ UNCHANGED <<now, row, files, images, unused>>

-----------------------------------------------------------------------------
(* repository.save(incidencia), of all four handlers *)

SaveSelect(s) ==
    /\ task[s].at = "select"
    /\ Become(s, [task[s] EXCEPT !.at = "write", !.cols = Changed(task[s].entity, row)])
    /\ UNCHANGED <<now, row, files, images, unused>>

SaveWrite(s) ==
    /\ task[s].at = "write"
    /\ row' = Written(row, task[s].entity, task[s].cols)
    /\ unused' = CASE task[s].op = "request"  -> unused + 1
                   [] task[s].op = "reupload" -> unused - 1
                   [] OTHER -> unused
    /\ Become(s, Idle)
    /\ UNCHANGED <<now, files, images>>

-----------------------------------------------------------------------------
(* The environment *)

Crash ==
    /\ task' = [s \in Slots |-> Idle]
    /\ task' # task
    /\ UNCHANGED <<now, row, files, images, unused>>

\* An upload may take longer than the permission it started under.
NextHour ==
    /\ now < MaxHour
    /\ now' = now + 1
    /\ UNCHANGED <<row, task, files, images, unused>>

-----------------------------------------------------------------------------

Step(s) ==
    \/ \E h \in HoursAllowed : RequestImageReupload(s, h)
    \/ DisableClientImageUpload(s)
    \/ Touch(s)
    \/ \E batch \in (SUBSET Fresh) \ {{}} :
          Cardinality(batch) <= MAX_IMAGES /\ ReuploadImages(s, batch)
    \/ \E i \in Images : UploadFile(s, i)
    \/ StoreImage(s)
    \/ HandlerFails(s)
    \/ SaveSelect(s)
    \/ SaveWrite(s)

Next == (\E s \in Slots : Step(s)) \/ Crash \/ NextHour

Spec == Init /\ [][Next]_vars

-----------------------------------------------------------------------------

\* Every variable has its type.
TypeOK ==
    /\ now \in 0..MaxHour
    /\ row \in Rows
    /\ task \in [Slots -> Tasks]
    /\ files \subseteq Images
    /\ images \subseteq Images
    /\ unused \in Int

\* Every image record has its file in the store, whatever fails or crashes
\* between the two and however uploads overlap (reuploadImages).
FileBeforeRecord == images \subseteq files

\* At most one slot runs handlers of the set O.
OneAtATime(O) ==
    \A s, t \in Slots : Workload[s] \cap O # {} /\ Workload[t] \cap O # {} => s = t

\* A permission is good for one upload (incidencias.service.ts:653): no more
\* uploads succeed than permissions were stored.  Holds when uploads, and the
\* other handlers that save the row as they found it, do not overlap.
SingleUse == unused >= 0
=============================================================================
