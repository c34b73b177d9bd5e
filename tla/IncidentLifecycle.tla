------------------------- MODULE IncidentLifecycle -------------------------
(***************************************************************************)
(* One row of the table incidencias, the reopen requests about it, and the *)
(* request handlers that read, check and save it (incidencias.service.ts,  *)
(* reopen-requests.service.ts, and the saves of the alert cron and of the  *)
(* image-upload permission, which rewrite the row for other columns).      *)
(*                                                                         *)
(* Node runs handlers interleaved: a handler gives up the processor at     *)
(* each await, and there is one action here between two awaits.  A slot is *)
(* a handler in flight; with a single slot the handlers run one after the  *)
(* other.  A handler that answers 4xx changes nothing and is left out.     *)
(***************************************************************************)
EXTENDS Naturals, TypeOrm, Incidencia, Null

CONSTANTS
    Slots,                 \* handlers that may be in flight at once
    Workload,              \* the handlers each slot may run (environment)
    ReqIds,                \* rows of incidencia_reopen_requests (bound)
    REOPEN_DEADLINE_DAYS,  \* INCIDENCIA_CONFIG.REOPEN_DEADLINE_DAYS
    MaxDay                 \* last day of the run (bound)

\* The handlers.  "touch" is any handler that saves the row for the sake of
\* columns not kept here.
Ops == {"update", "cancel", "touch", "delete", "remove", "reopen", "review"}

ASSUME LifecycleAssumption ==
    /\ Slots # {}
    /\ Workload \in [Slots -> SUBSET Ops]
    /\ REOPEN_DEADLINE_DAYS \in Nat
    /\ MaxDay \in Nat
    /\ NULL \notin Nat
    /\ NULL \notin ReqIds

VARIABLES
    today,    \* the server's clock, in whole days
    row,      \* the incident's row
    finalSince, \* history: the day on which the incident last became final
    request,  \* status of each reopen request, "none" before it is inserted
    task      \* what each slot is doing

vars == <<today, row, finalSince, request, task>>

Days == 0..MaxDay

\* finalStateReachedAt is a timestamp or null; deletedAt only matters as
\* null or not.
Rows == [status : IncidenciaStatus, finalStateReachedAt : Days \cup {NULL},
         deleted : BOOLEAN]

ReopenRequestStatus == {"PENDING", "APPROVED", "REJECTED"}

Decisions == {"APPROVED", "REJECTED"}

\* The awaits at which a handler can be suspended.
Steps == {"idle", "select", "write", "softDelete", "checkPending", "insert",
          "reqSelect", "reqWrite"}

\* A handler in flight: the entity it loaded, with the changes it made to it,
\* the columns its save found changed, and for a review the request and the
\* decision.
Tasks == [op : Ops \cup {"none"}, at : Steps, entity : Rows,
          cols : SUBSET {"status", "finalStateReachedAt", "deleted"},
          req : ReqIds \cup {NULL}, decision : Decisions]

Created == [status |-> "PENDING", finalStateReachedAt |-> NULL, deleted |-> FALSE]

Task(o, p, e, q, d) ==
    [op |-> o, at |-> p, entity |-> e, cols |-> {}, req |-> q, decision |-> d]

Idle == Task("none", "idle", Created, NULL, "REJECTED")

-----------------------------------------------------------------------------

Init ==
    /\ today = 0
    /\ row = Created
    /\ finalSince = 0
    /\ request = [q \in ReqIds |-> "none"]
    /\ task = [s \in Slots |-> Idle]

\* findOne and find leave soft-deleted rows out.
Visible == ~row.deleted

\* What slot s is doing becomes t.
Become(s, t) == task' = [task EXCEPT ![s] = t]

\* A new handler takes slot s and suspends at step p with entity e.
Start(s, o, p, e) ==
    /\ task[s].at = "idle"
    /\ o \in Workload[s]
    /\ Visible
    /\ Become(s, Task(o, p, e, NULL, "REJECTED"))
    /\ UNCHANGED <<today, row, finalSince, request>>

Finish(s) == Become(s, Idle)

\* The row becomes r.
Store(r) ==
    /\ row' = r
    /\ finalSince' = IF row.status \notin FinalStates /\ r.status \in FinalStates
                    THEN today ELSE finalSince

-----------------------------------------------------------------------------
(* IncidenciasService *)

\* Mutated form: the timestamp is refreshed on every save of a final status.
StatusChanged_AlwaysStamps(e, st) ==
    [e EXCEPT !.status = st,
              !.finalStateReachedAt = IF st \in FinalStates THEN today ELSE @]

\* Mutated form: a timestamp that is there is never replaced.
StatusChanged_NeverRestamps(e, st) ==
    [e EXCEPT !.status = st,
              !.finalStateReachedAt =
                  IF e.finalStateReachedAt = NULL /\ st \in FinalStates THEN today ELSE @]

\* update() with a new status: finalStateReachedAt is set only on the way
\* from a non-final to a final status.
StatusChanged(e, st) ==
    [e EXCEPT !.status = st,
              !.finalStateReachedAt =
                  IF e.status \notin FinalStates /\ st \in FinalStates
                  THEN today ELSE @]

Update(s, st) == Start(s, "update", "select", StatusChanged(row, st))

CancelIncidentByClient(s) ==
    /\ row.status \in ActiveStates
    /\ Start(s, "cancel", "select", [row EXCEPT !.status = "CANCELLED"])

\* updateAlertLevelsAndNotify, requestImageReupload, disableClientImageUpload
\* and reuploadImages: the whole entity goes back with it.
Touch(s) == Start(s, "touch", "select", row)

\* repository.save(entity), first half.
SaveSelect(s) ==
    /\ task[s].at = "select"
    /\ Become(s, [task[s] EXCEPT !.at = "write", !.cols = Changed(task[s].entity, row)])
    /\ UNCHANGED <<today, row, finalSince, request>>

\* repository.save(entity), second half; no handler changes the row after it.
SaveWrite(s) ==
    /\ task[s].at = "write"
    /\ Store(Written(row, task[s].entity, task[s].cols))
    /\ Finish(s)
    /\ UNCHANGED <<today, request>>

DeleteIncidentByClient(s) ==
    /\ row.status \in ClientDeletable
    /\ Start(s, "delete", "softDelete", row)

Remove(s) == Start(s, "remove", "softDelete", row)

SoftDelete(s) ==
    /\ task[s].at = "softDelete"
    /\ Store([row EXCEPT !.deleted = TRUE])
    /\ Finish(s)
    /\ UNCHANGED <<today, request>>

-----------------------------------------------------------------------------
(* ReopenRequestsService *)

\* differenceInDays(now, finalStateReachedAt) > REOPEN_DEADLINE_DAYS, tested
\* only when the timestamp is there.
DeadlinePassed(r) ==
    /\ r.finalStateReachedAt # NULL
    /\ today - r.finalStateReachedAt > REOPEN_DEADLINE_DAYS

\* createReopenRequest, up to the query for a pending request.
CreateReopenRequest(s) ==
    /\ \E q \in ReqIds : request[q] = "none"  \* bound
    /\ row.status \in FinalStates
    /\ ~DeadlinePassed(row)
    /\ Start(s, "reopen", "checkPending", row)

\* Mutated form: the duplicate is looked for but not refused.
CheckPending_NotRefused(s) ==
    /\ task[s].at = "checkPending"
    /\ Become(s, [task[s] EXCEPT !.at = "insert"])
    /\ UNCHANGED <<today, row, finalSince, request>>

\* The query for a PENDING request of the same incident; one found is a 400.
CheckPending(s) ==
    /\ task[s].at = "checkPending"
    /\ IF \E q \in ReqIds : request[q] = "PENDING"
       THEN Finish(s)
       ELSE Become(s, [task[s] EXCEPT !.at = "insert"])
    /\ UNCHANGED <<today, row, finalSince, request>>

\* Mutated form: a new request recycles the row of an old one.
InsertRequest_Recycles(s, q) ==
    /\ task[s].at = "insert"
    /\ request[q] # "PENDING"
    /\ request' = [request EXCEPT ![q] = "PENDING"]
    /\ Finish(s)
    /\ UNCHANGED <<today, row, finalSince>>

InsertRequest(s, q) ==
    /\ task[s].at = "insert"
    /\ request[q] = "none"
    /\ request' = [request EXCEPT ![q] = "PENDING"]
    /\ Finish(s)
    /\ UNCHANGED <<today, row, finalSince>>

\* Mutated form: an approval reopens the incident before the request is saved.
ReviewRequest_ReopensFirst(s, q, d) ==
    /\ task[s].at = "idle"
    /\ Visible
    /\ request[q] = "PENDING"
    /\ Become(s, Task("review", IF d = "APPROVED" THEN "select" ELSE "reqSelect",
                      [row EXCEPT !.status = "IN_PROGRESS"], q, d))
    /\ UNCHANGED <<today, row, finalSince, request>>

\* reviewRequest up to the save of the request.  The request is read together
\* with its incident; if that is soft-deleted the join yields null and the
\* save fails on the NOT NULL incidenciaId, so nothing happens.
ReviewRequest(s, q, d) ==
    /\ task[s].at = "idle"
    /\ "review" \in Workload[s]
    /\ Visible
    /\ request[q] = "PENDING"
    /\ Become(s, Task("review", "reqSelect", row, q, d))
    /\ UNCHANGED <<today, row, finalSince, request>>

\* The save of the request: its status is UPDATEd if it differed.
RequestSelect(s) ==
    /\ task[s].at = "reqSelect"
    /\ Become(s, [task[s] EXCEPT !.at = "reqWrite",
                     !.cols = IF request[task[s].req] = task[s].decision
                              THEN {} ELSE {"status"}])
    /\ UNCHANGED <<today, row, finalSince, request>>

\* Mutated form: the status is named after the event that announces it.
Reopened_NotAStatus(e) == [e EXCEPT !.status = "REOPENED", !.finalStateReachedAt = NULL]

\* executeReopen works on the entity that came with the request.
Reopened(e) == [e EXCEPT !.status = "IN_PROGRESS", !.finalStateReachedAt = NULL]

\* Mutated form: the incident is reopened whatever the decision.
AfterReview_AlwaysReopens(t) ==
    Task("review", "select", Reopened(t.entity), t.req, t.decision)

\* After the save an approval goes on to executeReopen, a rejection is over.
AfterReview(t) ==
    IF t.decision = "APPROVED"
    THEN Task("review", "select", Reopened(t.entity), t.req, "APPROVED")
    ELSE Idle

RequestWrite(s) ==
    /\ task[s].at = "reqWrite"
    /\ request' = [request EXCEPT ![task[s].req] =
                       IF "status" \in task[s].cols THEN task[s].decision ELSE @]
    /\ Become(s, AfterReview(task[s]))
    /\ UNCHANGED <<today, row, finalSince>>

\* An await of one handler throws: it is answered 500, and what it has
\* written so far stays.
HandlerFails(s) ==
    /\ task[s].at # "idle"
    /\ Finish(s)
    /\ UNCHANGED <<today, row, finalSince, request>>

-----------------------------------------------------------------------------
(* The environment *)

\* The process dies: every handler in flight is lost, the database stays.
Crash ==
    /\ task' = [s \in Slots |-> Idle]
    /\ task' # task
    /\ UNCHANGED <<today, row, finalSince, request>>

\* A handler takes milliseconds: days pass while none is in flight.
NextDay ==
    /\ today < MaxDay
    /\ \A s \in Slots : task[s].at = "idle"
    /\ today' = today + 1
    /\ UNCHANGED <<row, finalSince, request, task>>

-----------------------------------------------------------------------------

\* The routes of incidencias.controller.ts: for employees, for clients, and for
\* the requests to reopen.
EmployeeRoutes(s) == Remove(s) \/ \E st \in IncidenciaStatus : Update(s, st)

ClientRoutes(s) ==
    CancelIncidentByClient(s) \/ DeleteIncidentByClient(s) \/ CreateReopenRequest(s)

ReviewRoute(s) == \E q \in ReqIds, d \in Decisions : ReviewRequest(s, q, d)

\* A route is called, or the cron comes to the incident.
Begin(s) == EmployeeRoutes(s) \/ ClientRoutes(s) \/ ReviewRoute(s) \/ Touch(s)

Proceed(s) ==
    \/ SaveSelect(s)
    \/ SaveWrite(s)
    \/ SoftDelete(s)
    \/ CheckPending(s)
    \/ \E q \in ReqIds : InsertRequest(s, q)
    \/ RequestSelect(s)
    \/ RequestWrite(s)
    \/ HandlerFails(s)

Next ==
    \/ \E s \in Slots : Begin(s) \/ Proceed(s)
    \/ Crash
    \/ NextDay

Spec == Init /\ [][Next]_vars

-----------------------------------------------------------------------------
(* What holds however the handlers overlap *)

\* Every variable has its type.
TypeOK ==
    /\ today \in Days
    /\ row \in Rows
    /\ finalSince \in Days
    /\ request \in [ReqIds -> ReopenRequestStatus \cup {"none"}]
    /\ task \in [Slots -> Tasks]

\* A request that has been approved or rejected never waits for review again:
\* no stale save and no new request brings it back to PENDING.
ReviewedForGood ==
    [][\A q \in ReqIds : request[q] \in Decisions => request'[q] \in Decisions]_request

\* The handler has an approval it is carrying out (executeReopen).
Granted(s) == task[s].op = "review" /\ task[s].at \in {"select", "write"}

\* executeReopen never runs for a request that could still be reviewed: the
\* decision is in the database before the incident is touched, so a crash in
\* between loses a reopening but never reopens without a decision.
ReviewPrecedesReopen ==
    \A s \in Slots : Granted(s) => request[task[s].req] \in Decisions

-----------------------------------------------------------------------------
(* What holds when handlers of one kind do not overlap one another *)

\* At most one slot runs the handler o.
OneAtATime(o) ==
    \A s, t \in Slots : o \in Workload[s] /\ o \in Workload[t] => s = t

\* An incident is reopened for an approved request only: the request behind
\* an executeReopen in flight is APPROVED, and stays so until it is done.
ReopenIsApproved ==
    \A s \in Slots : Granted(s) => request[task[s].req] = "APPROVED"

\* At most one request is PENDING (incidencias.controller.ts:837).
OnePendingRequest ==
    \A p, q \in ReqIds : request[p] = "PENDING" /\ request[q] = "PENDING" => p = q

-----------------------------------------------------------------------------
(* What holds when no two handlers overlap *)

\* Read, check and write have the effect of a single step on the incident as
\* it is when the step is taken: no change is made under a check that no
\* longer holds, and none is lost.
Contract == INSTANCE IncidentContract WITH
    serving <- [s \in Slots |-> task[s].op],
    status  <- row.status,
    deleted <- row.deleted,
    granted <- [s \in Slots |-> IF Granted(s) THEN task[s].req ELSE NULL]

ImplementsContract == Contract!Spec

\* An incident that became final more than the allowed days ago can no longer
\* be asked to be reopened (incidencias.controller.ts:834), however often it
\* was reopened before.  Holds as long as no client cancels an incident.
DeadlineCoversEveryFinalStatus ==
    row.status \in FinalStates /\ today - finalSince > REOPEN_DEADLINE_DAYS
    => DeadlinePassed(row)

\* A client who is told that the allowed days have gone by since the incident
\* was closed (constants/index.ts:72) is told so no earlier than that.
\* Holds under the same condition.
DeadlineNotEarly ==
    row.status \in FinalStates /\ DeadlinePassed(row)
    => today - finalSince > REOPEN_DEADLINE_DAYS

-----------------------------------------------------------------------------
(* What the repository says and overlapping handlers do not do *)

\* constants/index.ts:30: a client cannot cancel an incident that is already
\* resolved or closed.
CancelRespectsFinalStatus ==
    [][\A s \in Slots :
          task[s].op = "cancel" /\ task'[s].op = "none" /\ row'.status # row.status
          => row.status \notin {"RESOLVED", "CLOSED"}]_<<row, task>>

\* incidencia-monitor.service.ts: the cron job updates alert levels; it does
\* not change an incident's status.
TouchLeavesStatus ==
    [][\A s \in Slots :
          task[s].op = "touch" /\ task'[s].op = "none" => row'.status = row.status]_<<row, task>>
=============================================================================
