---------------------- MODULE IncidentLifecycle_proofs ----------------------
(***************************************************************************)
(* Theorems about IncidentLifecycle, for any number of slots, any workload,*)
(* any number of reopen requests and any deadline.                         *)
(***************************************************************************)
EXTENDS IncidentLifecycle, TLAPS

USE DEF Idle, Task, Created, Days, Rows, Ops, Steps, Tasks, Decisions,
        ReopenRequestStatus, IncidenciaStatus, FinalStates, ActiveStates, ClientDeletable

-----------------------------------------------------------------------------
(* Lemmas on what a save does *)

\* An UPDATE leaves a well-formed row, whatever columns it writes.
LEMMA WrittenType ==
    ASSUME NEW r \in Rows, NEW e \in Rows, NEW cols
    PROVE  Written(r, e, cols) \in Rows
  BY DEF Written

\* The columns found changed are columns of the row.
LEMMA ChangedType ==
    ASSUME NEW r \in Rows, NEW e
    PROVE  Changed(e, r) \subseteq {"status", "finalStateReachedAt", "deleted"}
  BY DEF Changed

\* With nothing in between, SELECT and UPDATE turn the row into the entity.
LEMMA SaveStores ==
    ASSUME NEW r \in Rows, NEW e \in Rows
    PROVE  Written(r, e, Changed(e, r)) = e
  BY DEF Written, Changed

-----------------------------------------------------------------------------
(* Type correctness *)

\* How a task's fields hang together: a free slot is Idle, the steps of a
\* handler belong to it, a review has its request, and no slot runs a handler
\* outside its workload.
ShapeOf(s, t) ==
    /\ t.at = "idle" => t = Idle
    /\ t.at # "idle" => t.op \in Workload[s]
    /\ t.at \in {"reqSelect", "reqWrite"} => t.op = "review"
    /\ t.at \in {"checkPending", "insert"} => t.op = "reopen"
    /\ t.at = "softDelete" => t.op \in {"delete", "remove"}
    /\ t.at \in {"select", "write"} => t.op \in {"update", "cancel", "touch", "review"}
    /\ t.op = "review" => t.req \in ReqIds

Shape == \A s \in Slots : ShapeOf(s, task[s])

TypeInv == TypeOK /\ Shape

LEMMA IdleShape == Idle \in Tasks /\ \A s \in Slots : ShapeOf(s, Idle)
  BY LifecycleAssumption DEF LifecycleAssumption, ShapeOf

\* A step that changes one task to a well-formed one keeps them all well-formed.
LEMMA BecomeType ==
    ASSUME TypeInv, NEW s \in Slots, NEW t \in Tasks, ShapeOf(s, t), Become(s, t)
    PROVE  task' \in [Slots -> Tasks] /\ Shape'
  BY DEF TypeInv, TypeOK, Shape, Become

\* A handler that starts on a well-formed entity is a well-formed task.
LEMMA StartType ==
    ASSUME TypeInv, NEW s \in Slots,
           NEW o \in {"update", "cancel", "touch", "delete", "remove", "reopen"},
           NEW p \in Steps, NEW e \in Rows, Start(s, o, p, e),
           \/ o \in {"update", "cancel", "touch"} /\ p = "select"
           \/ o \in {"delete", "remove"} /\ p = "softDelete"
           \/ o = "reopen" /\ p = "checkPending"
    PROVE  TypeInv'
  <1> DEFINE t == Task(o, p, e, NULL, "REJECTED")
  <1>1. t \in Tasks /\ ShapeOf(s, t)
    BY DEF Start, ShapeOf
  <1>2. task' \in [Slots -> Tasks] /\ Shape'
    BY <1>1, BecomeType DEF Start
  <1>3. QED
    BY <1>2 DEF TypeInv, TypeOK, Start

\* update() stores a status and, perhaps, today's date.
LEMMA StatusChangedType ==
    ASSUME NEW e \in Rows, NEW st \in IncidenciaStatus, today \in Days
    PROVE  StatusChanged(e, st) \in Rows
  BY DEF StatusChanged

LEMMA ReopenedType ==
    ASSUME NEW e \in Rows
    PROVE  Reopened(e) \in Rows
  BY DEF Reopened

LEMMA InitType == Init => TypeInv
  <1> SUFFICES ASSUME Init PROVE TypeInv
    OBVIOUS
  <1>1. today \in Days /\ row \in Rows /\ finalSince \in Days
    BY LifecycleAssumption DEF LifecycleAssumption, Init
  <1>2. request \in [ReqIds -> ReopenRequestStatus \cup {"none"}]
    BY DEF Init
  <1> HIDE DEF Idle, Tasks
  <1>3. task \in [Slots -> Tasks] /\ Shape
    BY IdleShape DEF Init, Shape
  <1>4. QED
    BY <1>1, <1>2, <1>3 DEF TypeInv, TypeOK

LEMMA BeginType ==
    ASSUME TypeInv, NEW s \in Slots, Begin(s)
    PROVE  TypeInv'
  <1> USE DEF TypeInv, TypeOK
  <1>1. ASSUME NEW st \in IncidenciaStatus, Update(s, st) PROVE TypeInv'
    <2>1. StatusChanged(row, st) \in Rows
      BY StatusChangedType
    <2>2. QED
      BY <1>1, <2>1, StartType DEF Update
  <1>2. CASE CancelIncidentByClient(s)
    <2>1. [row EXCEPT !.status = "CANCELLED"] \in Rows
      OBVIOUS
    <2>2. QED
      BY <1>2, <2>1, StartType DEF CancelIncidentByClient
  <1>3. CASE Touch(s)
    BY <1>3, StartType DEF Touch
  <1>4. CASE DeleteIncidentByClient(s)
    BY <1>4, StartType DEF DeleteIncidentByClient
  <1>5. CASE Remove(s)
    BY <1>5, StartType DEF Remove
  <1>6. CASE CreateReopenRequest(s)
    BY <1>6, StartType DEF CreateReopenRequest
  <1>7. ASSUME NEW q \in ReqIds, NEW d \in Decisions, ReviewRequest(s, q, d) PROVE TypeInv'
    <2>1. Task("review", "reqSelect", row, q, d) \in Tasks
      OBVIOUS
    <2>2. ShapeOf(s, Task("review", "reqSelect", row, q, d))
      BY <1>7 DEF ReviewRequest, ShapeOf
    <2>3. QED
      BY <1>7, <2>1, <2>2, BecomeType DEF ReviewRequest
  <1>8. QED
    BY <1>1, <1>2, <1>3, <1>4, <1>5, <1>6, <1>7 DEF Begin, EmployeeRoutes, ClientRoutes, ReviewRoute

LEMMA ProceedType ==
    ASSUME TypeInv, NEW s \in Slots, Proceed(s)
    PROVE  TypeInv'
  <1> USE DEF TypeInv, TypeOK
  <1>0. /\ task[s] \in Tasks
        /\ ShapeOf(s, task[s])
        /\ Finish(s) => task' \in [Slots -> Tasks] /\ Shape'
    BY IdleShape, BecomeType DEF Shape, Finish
  <1>1. CASE SaveSelect(s)
    <2> DEFINE t == [task[s] EXCEPT !.at = "write", !.cols = Changed(task[s].entity, row)]
    <2>1. t \in Tasks
      BY <1>0, ChangedType
    <2>2. ShapeOf(s, t)
      BY <1>0, <1>1 DEF SaveSelect, ShapeOf
    <2>3. QED
      BY <1>1, <2>1, <2>2, BecomeType DEF SaveSelect
  <1>2. CASE SaveWrite(s)
    BY <1>0, <1>2, WrittenType DEF SaveWrite, Store
  <1>3. CASE SoftDelete(s)
    <2>1. [row EXCEPT !.deleted = TRUE] \in Rows
      OBVIOUS
    <2>2. QED
      BY <1>0, <1>3, <2>1 DEF SoftDelete, Store
  <1>4. CASE CheckPending(s)
    <2> DEFINE t == [task[s] EXCEPT !.at = "insert"]
    <2>1. t \in Tasks
      BY <1>0
    <2>2. ShapeOf(s, t)
      BY <1>0, <1>4 DEF CheckPending, ShapeOf
    <2>3. QED
      BY <1>0, <1>4, <2>1, <2>2, BecomeType DEF CheckPending
  <1>5. ASSUME NEW q \in ReqIds, InsertRequest(s, q) PROVE TypeInv'
    BY <1>0, <1>5 DEF InsertRequest
  <1>6. CASE RequestSelect(s)
    <2> DEFINE c == IF request[task[s].req] = task[s].decision THEN {} ELSE {"status"}
               t == [task[s] EXCEPT !.at = "reqWrite", !.cols = c]
    <2>0. c \in SUBSET {"status", "finalStateReachedAt", "deleted"} /\ Become(s, t)
      BY <1>6 DEF RequestSelect
    <2> HIDE DEF c
    <2>1. t \in Tasks
      BY <1>0, <2>0
    <2>2. ShapeOf(s, t)
      BY <1>0, <1>6, <2>0 DEF RequestSelect, ShapeOf
    <2>3. QED
      BY <1>6, <2>0, <2>1, <2>2, BecomeType DEF RequestSelect
  <1>7. CASE RequestWrite(s)
    <2>1. task[s].req \in ReqIds /\ task[s].decision \in Decisions
      BY <1>0, <1>7 DEF RequestWrite, ShapeOf
    <2>2. request' \in [ReqIds -> ReopenRequestStatus \cup {"none"}]
      BY <1>7, <2>1 DEF RequestWrite
    <2>3. Task("review", "select", Reopened(task[s].entity), task[s].req, "APPROVED") \in Tasks
      BY <1>0, ReopenedType
    <2>4. ShapeOf(s, Task("review", "select", Reopened(task[s].entity), task[s].req, "APPROVED"))
      BY <1>0, <1>7, <2>1 DEF RequestWrite, ShapeOf
    <2>5. AfterReview(task[s]) \in Tasks /\ ShapeOf(s, AfterReview(task[s]))
      BY <2>3, <2>4, IdleShape DEF AfterReview
    <2>6. QED
      BY <1>7, <2>2, <2>5, BecomeType DEF RequestWrite
  <1>8. CASE HandlerFails(s)
    BY <1>0, <1>8 DEF HandlerFails
  <1>9. QED
    BY <1>1, <1>2, <1>3, <1>4, <1>5, <1>6, <1>7, <1>8 DEF Proceed

LEMMA StepType == TypeInv /\ [Next]_vars => TypeInv'
  <1> SUFFICES ASSUME TypeInv, [Next]_vars PROVE TypeInv'
    OBVIOUS
  <1>1. ASSUME NEW s \in Slots, Begin(s) \/ Proceed(s) PROVE TypeInv'
    BY <1>1, BeginType, ProceedType
  <1>2. CASE Crash
    BY <1>2, IdleShape DEF TypeInv, TypeOK, Shape, Crash
  <1>3. CASE NextDay
    BY <1>3, LifecycleAssumption DEF LifecycleAssumption, TypeInv, TypeOK, Shape, NextDay
  <1>4. CASE UNCHANGED vars
    BY <1>4 DEF TypeInv, TypeOK, Shape, vars
  <1>5. QED
    BY <1>1, <1>2, <1>3, <1>4 DEF Next

\* Every variable keeps its type, and every task its shape.
LEMMA TypeInvariant == Spec => []TypeInv
  BY InitType, StepType, PTL DEF Spec

\* Type correctness.
THEOREM TypeCorrect == Spec => []TypeOK
  <1>1. TypeInv => TypeOK
    BY DEF TypeInv
  <1>2. QED
    BY <1>1, TypeInvariant, PTL

-----------------------------------------------------------------------------
(* What a step does to the reopen requests *)

\* A step belongs to one slot, to a crash or to the clock.
LEMMA StepOfASlot ==
    ASSUME TypeInv, [Next]_vars
    PROVE  \/ \E s \in Slots : Begin(s) \/ Proceed(s)
           \/ task' = [s \in Slots |-> Idle] /\ UNCHANGED request
           \/ UNCHANGED <<request, task>>
  BY DEF Next, Crash, NextDay, vars

\* A handler that starts leaves the requests alone, and is no reopening.
LEMMA BeginStep ==
    ASSUME TypeInv, NEW s \in Slots, Begin(s)
    PROVE  /\ UNCHANGED request
           /\ \E t \in Tasks : /\ Become(s, t)
                               /\ t.at \in {"select", "softDelete", "checkPending", "reqSelect"}
                               /\ t.at = "select" => t.op # "review"
  <1> USE DEF TypeInv, TypeOK, Start
  <1> HIDE DEF Tasks, Rows
  <1>1. ASSUME NEW o \in Ops \ {"review"}, NEW p \in Steps, NEW e \in Rows, Start(s, o, p, e),
               p \in {"select", "softDelete", "checkPending"}
        PROVE  \E t \in Tasks : /\ Become(s, t)
                                /\ t.at \in {"select", "softDelete", "checkPending", "reqSelect"}
                                /\ t.at = "select" => t.op # "review"
    <2> DEFINE t == Task(o, p, e, NULL, "REJECTED")
    <2>1. t \in Tasks /\ t.at = p /\ t.op = o
      BY DEF Tasks
    <2>2. QED
      BY <1>1, <2>1
  <1>2. ASSUME NEW st \in IncidenciaStatus, Update(s, st)
        PROVE  /\ StatusChanged(row, st) \in Rows
               /\ Start(s, "update", "select", StatusChanged(row, st))
    BY <1>2, StatusChangedType DEF Update
  <1>3. ASSUME CancelIncidentByClient(s)
        PROVE  [row EXCEPT !.status = "CANCELLED"] \in Rows
    BY DEF Rows
  <1>4. ASSUME NEW q \in ReqIds, NEW d \in Decisions, ReviewRequest(s, q, d)
        PROVE  \E t \in Tasks : Become(s, t) /\ t.at = "reqSelect"
    <2> DEFINE t == Task("review", "reqSelect", row, q, d)
    <2>1. t \in Tasks /\ t.at = "reqSelect"
      BY DEF Tasks
    <2>2. QED
      BY <1>4, <2>1 DEF ReviewRequest
  <1>5. UNCHANGED request
    BY DEF Begin, EmployeeRoutes, ClientRoutes, ReviewRoute,
           Update, CancelIncidentByClient, Touch, DeleteIncidentByClient, Remove,
           CreateReopenRequest, ReviewRequest
  <1>6. QED
    BY <1>1, <1>2, <1>3, <1>4, <1>5
       DEF Begin, EmployeeRoutes, ClientRoutes, ReviewRoute,
           Update, CancelIncidentByClient, Touch, DeleteIncidentByClient, Remove,
           CreateReopenRequest

-----------------------------------------------------------------------------
(* Reviewed for good *)

\* A request row changes only by being inserted or by a review's UPDATE, and
\* neither turns a decision back.
LEMMA DecisionStays ==
    ASSUME TypeInv, [Next]_vars, NEW q \in ReqIds, request[q] \in Decisions
    PROVE  request'[q] \in Decisions
  <1>1. ASSUME NEW s \in Slots, Proceed(s) PROVE request'[q] \in Decisions
    <2>1. ASSUME NEW r \in ReqIds, InsertRequest(s, r) PROVE request'[q] \in Decisions
      BY <2>1 DEF InsertRequest, TypeInv, TypeOK
    <2>2. CASE RequestWrite(s)
      BY <2>2 DEF RequestWrite, TypeInv, TypeOK
    <2>3. QED
      BY <1>1, <2>1, <2>2
         DEF Proceed, SaveSelect, SaveWrite, SoftDelete, CheckPending, RequestSelect, HandlerFails
  <1>2. QED
    BY <1>1, StepOfASlot, BeginStep

\* No reopen request is ever reviewed and then waiting again, however many
\* handlers overlap.
THEOREM ReviewIsForGood == Spec => ReviewedForGood
  <1>1. TypeInv /\ [Next]_vars
        => [\A q \in ReqIds : request[q] \in Decisions => request'[q] \in Decisions]_request
    BY DecisionStays
  <1>2. QED
    BY <1>1, TypeInvariant, PTL DEF Spec, ReviewedForGood

-----------------------------------------------------------------------------
(* The decision is stored before the incident is touched *)

\* ReviewPrecedesReopen is not inductive: a review whose SELECT found the
\* request already decided its way writes nothing, so that the request was
\* decided has to be known from the SELECT on.
DecidedInv ==
    \A s \in Slots :
        Granted(s) \/ (task[s].at = "reqWrite" /\ "status" \notin task[s].cols)
        => request[task[s].req] \in Decisions

LEMMA DecidedProceed ==
    ASSUME TypeInv, DecidedInv, NEW s \in Slots, Proceed(s),
           \A q \in ReqIds : request[q] \in Decisions => request'[q] \in Decisions
    PROVE  DecidedInv'
  <1> USE DEF TypeInv, TypeOK, DecidedInv, Granted
  <1>1. SUFFICES ASSUME NEW u \in Slots,
                        (Granted(u) \/ (task[u].at = "reqWrite" /\ "status" \notin task[u].cols))'
                 PROVE  request'[task'[u].req] \in Decisions
    OBVIOUS
  <1>2. /\ task[u] \in Tasks /\ ShapeOf(u, task[u])
        /\ task[s] \in Tasks /\ ShapeOf(s, task[s])
    BY DEF Shape
  <1>3. CASE u # s
    <2>1. task'[u] = task[u]
      BY <1>3 DEF Proceed, SaveSelect, SaveWrite, SoftDelete, CheckPending, InsertRequest,
                  RequestSelect, RequestWrite, HandlerFails, Become, Finish
    <2>2. task[u].req \in ReqIds
      BY <1>1, <1>2, <2>1 DEF ShapeOf
    <2>3. QED
      BY <1>1, <2>1, <2>2
  <1>4. CASE u = s
    <2>1. CASE SaveSelect(s)
      <3>1. /\ task'[s].op = task[s].op
            /\ task'[s].req = task[s].req
            /\ task'[s].at = "write"
        BY <1>2, <2>1 DEF SaveSelect, Become
      <3>2. Granted(s) /\ task[s].req \in ReqIds
        BY <1>1, <1>2, <1>4, <2>1, <3>1 DEF SaveSelect, ShapeOf
      <3>3. QED
        BY <1>4, <3>1, <3>2
    <2>2. CASE Finish(s)
      BY <1>1, <1>4, <2>2 DEF Finish, Become
    <2>3. CASE CheckPending(s) /\ ~Finish(s)
      <3>1. task'[s].at = "insert"
        BY <1>2, <2>3 DEF CheckPending, Become
      <3>2. QED
        BY <1>1, <1>4, <3>1
    <2>4. CASE RequestSelect(s)
      <3>1. /\ task'[s].req = task[s].req
            /\ task'[s].at = "reqWrite"
            /\ "status" \notin task'[s].cols => request[task[s].req] = task[s].decision
        BY <1>2, <2>4 DEF RequestSelect, Become
      <3>2. task[s].req \in ReqIds /\ request' = request
        BY <1>2, <2>4 DEF RequestSelect, ShapeOf
      <3>3. QED
        BY <1>1, <1>2, <1>4, <3>1, <3>2
    <2>5. CASE RequestWrite(s)
      <3>1. task[s].req \in ReqIds /\ task[s].decision \in Decisions /\ task[s].at = "reqWrite"
        BY <1>2, <2>5 DEF RequestWrite, ShapeOf
      <3>2. request'[task[s].req] \in Decisions
        BY <3>1, <2>5 DEF RequestWrite
      <3>3. task'[s] = AfterReview(task[s])
        BY <2>5 DEF RequestWrite, Become
      <3>4. task'[s].req = task[s].req
        BY <1>1, <1>4, <3>3 DEF AfterReview
      <3>5. QED
        BY <1>4, <3>2, <3>4
    <2>6. QED
      BY <2>1, <2>2, <2>3, <2>4, <2>5
         DEF Proceed, SaveWrite, SoftDelete, CheckPending, InsertRequest, HandlerFails
  <1>5. QED
    BY <1>3, <1>4

LEMMA DecidedStep == TypeInv /\ DecidedInv /\ [Next]_vars => DecidedInv'
  <1> SUFFICES ASSUME TypeInv, DecidedInv, [Next]_vars PROVE DecidedInv'
    OBVIOUS
  <1>1. ASSUME NEW s \in Slots, Begin(s) PROVE DecidedInv'
    <2>1. PICK t \in Tasks : /\ Become(s, t)
                             /\ t.at \in {"select", "softDelete", "checkPending", "reqSelect"}
                             /\ t.at = "select" => t.op # "review"
      BY <1>1, BeginStep
    <2>2. UNCHANGED request
      BY <1>1, BeginStep
    <2>3. \A u \in Slots : task'[u] = IF u = s THEN t ELSE task[u]
      BY <2>1 DEF Become, TypeInv, TypeOK
    <2>4. QED
      BY <2>1, <2>2, <2>3 DEF DecidedInv, Granted
  <1>2. ASSUME NEW s \in Slots, Proceed(s) PROVE DecidedInv'
    BY <1>2, DecidedProceed, DecisionStays
  <1>3. CASE task' = [s \in Slots |-> Idle] /\ UNCHANGED request
    BY <1>3 DEF DecidedInv, Granted
  <1>4. CASE UNCHANGED <<request, task>>
    BY <1>4 DEF DecidedInv, Granted
  <1>5. QED
    BY <1>1, <1>2, <1>3, <1>4, StepOfASlot

\* No incident is reopened on behalf of a request that is still PENDING.
THEOREM ReviewComesFirst == Spec => []ReviewPrecedesReopen
  <1>1. Init => DecidedInv
    BY DEF Init, DecidedInv, Granted
  <1>2. DecidedInv => ReviewPrecedesReopen
    BY DEF DecidedInv, ReviewPrecedesReopen
  <1>3. QED
    BY <1>1, <1>2, DecidedStep, TypeInvariant, PTL DEF Spec

-----------------------------------------------------------------------------
(* One reviewer at a time *)

\* With one reviewer, nobody changes the request between a review's SELECT
\* and the end of its reopening.
ApprovedInv ==
    \A s \in Slots :
        /\ Granted(s) => request[task[s].req] = "APPROVED"
        /\ task[s].at = "reqWrite" /\ "status" \notin task[s].cols
           => request[task[s].req] = task[s].decision

LEMMA ApprovedProceed ==
    ASSUME TypeInv, ApprovedInv, OneAtATime("review"), NEW s \in Slots, Proceed(s)
    PROVE  ApprovedInv'
  <1> USE DEF TypeInv, TypeOK
  <1>1. ASSUME NEW u \in Slots
        PROVE  task[u] \in Tasks /\ ShapeOf(u, task[u])
    BY DEF Shape
  <1> DEFINE Goal(u) ==
        /\ Granted(u) => request[task[u].req] = "APPROVED"
        /\ task[u].at = "reqWrite" /\ "status" \notin task[u].cols
           => request[task[u].req] = task[u].decision
  <1>2. ASSUME NEW u \in Slots, u # s
        PROVE  Goal(u)'
    <2>1. task'[u] = task[u]
      BY <1>2 DEF Proceed, SaveSelect, SaveWrite, SoftDelete, CheckPending, InsertRequest,
                  RequestSelect, RequestWrite, HandlerFails, Become, Finish
    <2>2. SUFFICES ASSUME Granted(u) \/ (task[u].at = "reqWrite" /\ "status" \notin task[u].cols)
                   PROVE  request'[task[u].req] = request[task[u].req]
      BY <2>1 DEF ApprovedInv, Granted
    <2>3. /\ task[u].req \in ReqIds
          /\ "review" \in Workload[u]
          /\ request[task[u].req] \in Decisions
      BY <1>1, <2>2 DEF ShapeOf, ApprovedInv, Granted
    <2>4. ASSUME NEW q \in ReqIds, InsertRequest(s, q)
          PROVE  request'[task[u].req] = request[task[u].req]
      BY <2>3, <2>4 DEF InsertRequest
    <2>5. ~RequestWrite(s)
      BY <1>1, <1>2, <2>3 DEF RequestWrite, ShapeOf, OneAtATime
    <2>6. QED
      BY <2>4, <2>5
         DEF Proceed, SaveSelect, SaveWrite, SoftDelete, CheckPending, RequestSelect,
             HandlerFails
  <1>3. Goal(s)'
    <2>1. CASE SaveSelect(s)
      <3>1. /\ task'[s].op = task[s].op
            /\ task'[s].req = task[s].req
            /\ task'[s].at = "write"
        BY <1>1, <2>1 DEF SaveSelect, Become
      <3>2. QED
        BY <2>1, <3>1 DEF SaveSelect, ApprovedInv, Granted
    <2>2. CASE Finish(s)
      BY <2>2 DEF Finish, Become, Granted
    <2>3. CASE CheckPending(s) /\ ~Finish(s)
      <3>1. task'[s].at = "insert"
        BY <1>1, <2>3 DEF CheckPending, Become
      <3>2. QED
        BY <3>1 DEF Granted
    <2>4. CASE RequestSelect(s)
      <3>1. /\ task'[s].req = task[s].req
            /\ task'[s].decision = task[s].decision
            /\ task'[s].at = "reqWrite"
            /\ "status" \notin task'[s].cols => request[task[s].req] = task[s].decision
        BY <1>1, <2>4 DEF RequestSelect, Become
      <3>2. QED
        BY <2>4, <3>1 DEF RequestSelect, Granted
    <2>5. CASE RequestWrite(s)
      <3>1. task[s].req \in ReqIds /\ task[s].at = "reqWrite"
        BY <1>1, <2>5 DEF RequestWrite, ShapeOf
      <3>2. request'[task[s].req] = task[s].decision
        BY <3>1, <2>5 DEF RequestWrite, ApprovedInv
      <3>3. task'[s] = AfterReview(task[s])
        BY <2>5 DEF RequestWrite, Become
      <3>4. CASE task[s].decision = "APPROVED"
        BY <3>2, <3>3, <3>4 DEF AfterReview, Granted
      <3>5. CASE task[s].decision # "APPROVED"
        BY <3>3, <3>5 DEF AfterReview, Granted
      <3>6. QED
        BY <3>4, <3>5
    <2>6. QED
      BY <2>1, <2>2, <2>3, <2>4, <2>5
         DEF Proceed, SaveWrite, SoftDelete, CheckPending, InsertRequest, HandlerFails
  <1>4. QED
    BY <1>2, <1>3 DEF ApprovedInv

LEMMA ApprovedStep ==
    ASSUME OneAtATime("review")
    PROVE  TypeInv /\ ApprovedInv /\ [Next]_vars => ApprovedInv'
  <1> SUFFICES ASSUME TypeInv, ApprovedInv, [Next]_vars PROVE ApprovedInv'
    OBVIOUS
  <1>1. ASSUME NEW s \in Slots, Begin(s) PROVE ApprovedInv'
    <2>1. PICK t \in Tasks : /\ Become(s, t)
                             /\ t.at \in {"select", "softDelete", "checkPending", "reqSelect"}
                             /\ t.at = "select" => t.op # "review"
      BY <1>1, BeginStep
    <2>2. UNCHANGED request
      BY <1>1, BeginStep
    <2>3. \A u \in Slots : task'[u] = IF u = s THEN t ELSE task[u]
      BY <2>1 DEF Become, TypeInv, TypeOK
    <2>4. QED
      BY <2>1, <2>2, <2>3 DEF ApprovedInv, Granted
  <1>2. ASSUME NEW s \in Slots, Proceed(s) PROVE ApprovedInv'
    BY <1>2, ApprovedProceed
  <1>3. CASE task' = [s \in Slots |-> Idle] /\ UNCHANGED request
    BY <1>3 DEF ApprovedInv, Granted
  <1>4. CASE UNCHANGED <<request, task>>
    BY <1>4 DEF ApprovedInv, Granted
  <1>5. QED
    BY <1>1, <1>2, <1>3, <1>4, StepOfASlot

\* When reviews do not overlap one another, whatever else overlaps them, an
\* incident is reopened for approved requests only.
THEOREM OneReviewerReopensApproved ==
    ASSUME OneAtATime("review")
    PROVE  Spec => []ReopenIsApproved
  <1>1. Init => ApprovedInv
    BY DEF Init, ApprovedInv, Granted
  <1>2. ApprovedInv => ReopenIsApproved
    BY DEF ApprovedInv, ReopenIsApproved
  <1>3. QED
    BY <1>1, <1>2, ApprovedStep, TypeInvariant, PTL DEF Spec

-----------------------------------------------------------------------------
(* One requester at a time *)

\* With one slot asking for reopenings, a check that found nothing PENDING
\* still holds when the request is inserted.
PendingInv ==
    /\ OnePendingRequest
    /\ \A s \in Slots : task[s].at = "insert" => \A q \in ReqIds : request[q] # "PENDING"

LEMMA PendingStep ==
    ASSUME OneAtATime("reopen")
    PROVE  TypeInv /\ PendingInv /\ [Next]_vars => PendingInv'
  <1> SUFFICES ASSUME TypeInv, PendingInv, [Next]_vars PROVE PendingInv'
    OBVIOUS
  <1> USE DEF TypeInv, TypeOK, PendingInv, OnePendingRequest
  <1>1. ASSUME NEW s \in Slots, Begin(s) PROVE PendingInv'
    <2>1. PICK t \in Tasks : Become(s, t) /\ t.at # "insert"
      BY <1>1, BeginStep
    <2>2. \A u \in Slots : task'[u] = IF u = s THEN t ELSE task[u]
      BY <2>1 DEF Become
    <2>3. QED
      BY <1>1, <2>1, <2>2, BeginStep
  <1>2. ASSUME NEW s \in Slots, Proceed(s) PROVE PendingInv'
    <2>1. \A u \in Slots : task[u] \in Tasks /\ ShapeOf(u, task[u])
      BY DEF Shape
    <2>2. \A u \in Slots \ {s} : task'[u] = task[u]
      BY <1>2 DEF Proceed, SaveSelect, SaveWrite, SoftDelete, CheckPending, InsertRequest,
                  RequestSelect, RequestWrite, HandlerFails, Become, Finish
    <2>3. CASE SaveSelect(s)
      <3>1. task'[s].at = "write"
        BY <2>1, <2>3 DEF SaveSelect, Become
      <3>2. QED
        BY <2>2, <2>3, <3>1 DEF SaveSelect
    <2>4. CASE SaveWrite(s) \/ SoftDelete(s) \/ HandlerFails(s)
      BY <2>2, <2>4 DEF SaveWrite, SoftDelete, HandlerFails, Finish, Become
    <2>5. CASE CheckPending(s)
      BY <2>2, <2>5 DEF CheckPending, Finish, Become
    <2>6. ASSUME NEW q \in ReqIds, InsertRequest(s, q) PROVE PendingInv'
      <3>1. \A u \in Slots : task'[u].at # "insert"
        BY <2>1, <2>2, <2>6 DEF InsertRequest, Finish, Become, ShapeOf, OneAtATime
      <3>2. QED
        BY <3>1, <2>6 DEF InsertRequest
    <2>7. CASE RequestSelect(s)
      <3>1. task'[s].at = "reqWrite"
        BY <2>1, <2>7 DEF RequestSelect, Become
      <3>2. QED
        BY <2>2, <2>7, <3>1 DEF RequestSelect
    <2>8. CASE RequestWrite(s)
      <3>1. task'[s].at # "insert"
        BY <2>8 DEF RequestWrite, AfterReview, Become
      <3>2. \A q \in ReqIds : request'[q] = "PENDING" => request[q] = "PENDING"
        BY <2>1, <2>8 DEF RequestWrite
      <3>3. QED
        BY <2>2, <3>1, <3>2
    <2>9. QED
      BY <1>2, <2>3, <2>4, <2>5, <2>6, <2>7, <2>8 DEF Proceed
  <1>3. CASE task' = [s \in Slots |-> Idle] /\ UNCHANGED request
    BY <1>3
  <1>4. CASE UNCHANGED <<request, task>>
    BY <1>4
  <1>5. QED
    BY <1>1, <1>2, <1>3, <1>4, StepOfASlot

\* When clients' requests do not overlap one another, at most one of them
\* waits for review, whatever else happens meanwhile.
THEOREM OneRequesterOnePending ==
    ASSUME OneAtATime("reopen")
    PROVE  Spec => []OnePendingRequest
  <1>1. Init => PendingInv
    BY DEF Init, PendingInv, OnePendingRequest
  <1>2. PendingInv => OnePendingRequest
    BY DEF PendingInv
  <1>3. QED
    BY <1>1, <1>2, PendingStep, TypeInvariant, PTL DEF Spec

-----------------------------------------------------------------------------
(***************************************************************************)
(* When at most one handler is in flight the life cycle implements         *)
(* IncidentContract, and the reopening deadline is counted from the closing.*)
(***************************************************************************)

USE DEF Contract!IncidenciaStatus, Contract!FinalStates, Contract!ActiveStates,
        Contract!ClientDeletable

-----------------------------------------------------------------------------
(* What a handler that is alone knows *)

\* There is one slot.
Alone == \A s, t \in Slots : s = t

\* Everything a handler t has tested still holds of the incident's row r and
\* of the requests rq.
StillHolds(t, r, rq) ==
    /\ t.at # "idle" => ~r.deleted
    /\ t.at \in {"select", "write"} => ~t.entity.deleted
    /\ t.op = "cancel" => r.status \in ActiveStates /\ t.entity.status = "CANCELLED"
    /\ t.op = "touch" => t.entity = r
    /\ t.op = "delete" => r.status \in ClientDeletable
    /\ t.op = "reopen" => r.status \in FinalStates
    /\ t.at = "write" => t.cols = Changed(t.entity, r)
    /\ t.at = "insert" => \A q \in ReqIds : rq[q] # "PENDING"
    /\ t.at \in {"reqSelect", "reqWrite"} => ~t.entity.deleted /\ rq[t.req] = "PENDING"
    /\ t.at = "reqWrite" => t.cols = {"status"}
    /\ t.op = "review" /\ t.at \in {"select", "write"}
       => t.entity.status = "IN_PROGRESS" /\ rq[t.req] = "APPROVED"

AloneInv == TypeInv /\ \A s \in Slots : StillHolds(task[s], row, request)

LEMMA IdleHolds ==
    ASSUME NEW r, NEW rq
    PROVE  StillHolds(Idle, r, rq)
  BY DEF StillHolds

\* With one slot, what the slot does next is all there is to know.
LEMMA BecomeHolds ==
    ASSUME Alone, AloneInv, TypeInv', NEW s \in Slots, NEW t, Become(s, t),
           StillHolds(t, row', request')
    PROVE  AloneInv'
  <1>1. task'[s] = t
    BY DEF Become, AloneInv, TypeInv, TypeOK
  <1>2. \A u \in Slots : task'[u] = t
    BY <1>1 DEF Alone
  <1> HIDE DEF Tasks, Idle, Task
  <1>3. QED
    BY <1>2 DEF AloneInv

\* A handler that starts and leaves the database alone.
LEMMA BeginHolds ==
    ASSUME Alone, AloneInv, TypeInv', NEW s \in Slots, Begin(s)
    PROVE  AloneInv'
  <1> USE DEF AloneInv, TypeInv, TypeOK, Start
  <1>1. ASSUME NEW st \in IncidenciaStatus, Update(s, st) PROVE AloneInv'
    <2> DEFINE t == Task("update", "select", StatusChanged(row, st), NULL, "REJECTED")
    <2>1. StillHolds(t, row, request)
      BY <1>1 DEF Update, StillHolds, StatusChanged, Visible
    <2>2. QED
      BY <1>1, <2>1, BecomeHolds DEF Update
  <1>2. CASE CancelIncidentByClient(s)
    <2> DEFINE t == Task("cancel", "select", [row EXCEPT !.status = "CANCELLED"], NULL, "REJECTED")
    <2>1. StillHolds(t, row, request)
      BY <1>2 DEF CancelIncidentByClient, StillHolds, Visible
    <2>2. QED
      BY <1>2, <2>1, BecomeHolds DEF CancelIncidentByClient
  <1>3. CASE Touch(s)
    <2>1. StillHolds(Task("touch", "select", row, NULL, "REJECTED"), row, request)
      BY <1>3 DEF Touch, StillHolds, Visible
    <2>2. QED
      BY <1>3, <2>1, BecomeHolds DEF Touch
  <1>4. CASE DeleteIncidentByClient(s)
    <2>1. StillHolds(Task("delete", "softDelete", row, NULL, "REJECTED"), row, request)
      BY <1>4 DEF DeleteIncidentByClient, StillHolds, Visible
    <2>2. QED
      BY <1>4, <2>1, BecomeHolds DEF DeleteIncidentByClient
  <1>5. CASE Remove(s)
    <2>1. StillHolds(Task("remove", "softDelete", row, NULL, "REJECTED"), row, request)
      BY <1>5 DEF Remove, StillHolds, Visible
    <2>2. QED
      BY <1>5, <2>1, BecomeHolds DEF Remove
  <1>6. CASE CreateReopenRequest(s)
    <2>1. StillHolds(Task("reopen", "checkPending", row, NULL, "REJECTED"), row, request)
      BY <1>6 DEF CreateReopenRequest, StillHolds, Visible
    <2>2. QED
      BY <1>6, <2>1, BecomeHolds DEF CreateReopenRequest
  <1>7. ASSUME NEW q \in ReqIds, NEW d \in Decisions, ReviewRequest(s, q, d) PROVE AloneInv'
    <2>1. StillHolds(Task("review", "reqSelect", row, q, d), row, request)
      BY <1>7 DEF ReviewRequest, StillHolds, Visible
    <2>2. QED
      BY <1>7, <2>1, BecomeHolds DEF ReviewRequest
  <1>8. QED
    BY <1>1, <1>2, <1>3, <1>4, <1>5, <1>6, <1>7 DEF Begin, EmployeeRoutes, ClientRoutes, ReviewRoute

LEMMA ProceedHolds ==
    ASSUME Alone, AloneInv, TypeInv', NEW s \in Slots, Proceed(s)
    PROVE  AloneInv'
  <1>0. /\ task[s] \in Tasks
        /\ ShapeOf(s, task[s])
        /\ StillHolds(task[s], row, request)
        /\ row \in Rows
        /\ request \in [ReqIds -> ReopenRequestStatus \cup {"none"}]
    BY DEF AloneInv, TypeInv, TypeOK, Shape
  <1>1. ASSUME Finish(s) PROVE AloneInv'
    BY <1>1, IdleHolds, BecomeHolds DEF Finish
  <1>2. CASE SaveSelect(s)
    <2> DEFINE t == [task[s] EXCEPT !.at = "write", !.cols = Changed(task[s].entity, row)]
    <2>1. StillHolds(t, row, request)
      BY <1>0, <1>2 DEF SaveSelect, StillHolds
    <2>2. QED
      BY <1>2, <2>1, BecomeHolds DEF SaveSelect
  <1>3. CASE SaveWrite(s) \/ SoftDelete(s) \/ HandlerFails(s)
    BY <1>1, <1>3 DEF SaveWrite, SoftDelete, HandlerFails
  <1>4. CASE CheckPending(s)
    <2> DEFINE t == [task[s] EXCEPT !.at = "insert"]
    <2>1. CASE \E q \in ReqIds : request[q] = "PENDING"
      BY <1>1, <1>4, <2>1 DEF CheckPending
    <2>2. CASE ~\E q \in ReqIds : request[q] = "PENDING"
      <3>1. StillHolds(t, row, request)
        BY <1>0, <1>4, <2>2 DEF CheckPending, StillHolds, ShapeOf
      <3>2. QED
        BY <1>4, <2>2, <3>1, BecomeHolds DEF CheckPending
    <2>3. QED
      BY <2>1, <2>2
  <1>5. ASSUME NEW q \in ReqIds, InsertRequest(s, q) PROVE AloneInv'
    BY <1>1, <1>5 DEF InsertRequest
  <1>6. CASE RequestSelect(s)
    <2> DEFINE t == [task[s] EXCEPT !.at = "reqWrite", !.cols = {"status"}]
    <2>1. request[task[s].req] = "PENDING" /\ task[s].decision # "PENDING"
      BY <1>0, <1>6 DEF RequestSelect, StillHolds
    <2>2. Become(s, t) /\ UNCHANGED <<row, request>>
      BY <1>6, <2>1 DEF RequestSelect
    <2>3. StillHolds(t, row, request)
      BY <1>0, <1>6 DEF RequestSelect, StillHolds
    <2>4. QED
      BY <2>2, <2>3, BecomeHolds
  <1>7. CASE RequestWrite(s)
    <2> DEFINE t == Task("review", "select", Reopened(task[s].entity), task[s].req, "APPROVED")
    <2>1. CASE task[s].decision = "APPROVED"
      <3>1. Become(s, t) /\ UNCHANGED row
        BY <1>7, <2>1 DEF RequestWrite, AfterReview
      <3>2. task[s].req \in ReqIds /\ request'[task[s].req] = "APPROVED"
        BY <1>0, <1>7, <2>1 DEF RequestWrite, StillHolds, ShapeOf
      <3>3. ~row.deleted /\ ~task[s].entity.deleted
        BY <1>0, <1>7 DEF RequestWrite, StillHolds
      <3>4. StillHolds(t, row', request')
        BY <1>0, <3>1, <3>2, <3>3 DEF StillHolds, Reopened
      <3>5. QED
        BY <3>1, <3>4, BecomeHolds
    <2>2. CASE task[s].decision # "APPROVED"
      BY <1>1, <1>7, <2>2 DEF RequestWrite, AfterReview, Finish
    <2>3. QED
      BY <2>1, <2>2
  <1>8. QED
    BY <1>2, <1>3, <1>4, <1>5, <1>6, <1>7 DEF Proceed

LEMMA AloneStep ==
    ASSUME Alone
    PROVE  AloneInv /\ TypeInv' /\ [Next]_vars => AloneInv'
  <1> SUFFICES ASSUME AloneInv, TypeInv', [Next]_vars PROVE AloneInv'
    OBVIOUS
  <1>1. ASSUME NEW s \in Slots, Begin(s) \/ Proceed(s) PROVE AloneInv'
    BY <1>1, BeginHolds, ProceedHolds
  <1>2. CASE Crash
    BY <1>2, IdleHolds DEF Crash, AloneInv
  <1>3. CASE NextDay
    BY <1>3 DEF NextDay, AloneInv
  <1>4. CASE UNCHANGED vars
    BY <1>4 DEF vars, AloneInv
  <1>5. QED
    BY <1>1, <1>2, <1>3, <1>4 DEF Next

\* A handler that is alone finds everything as it left it.
LEMMA AloneInvariant ==
    ASSUME Alone
    PROVE  Spec => []AloneInv
  <1>1. Init /\ TypeInv => AloneInv
    BY IdleHolds DEF Init, AloneInv
  <1>2. QED
    BY <1>1, AloneStep, TypeInvariant, PTL DEF Spec

-----------------------------------------------------------------------------
(* A handler that is alone implements the contract *)

\* The contract's view of the slots.
Serving == [s \in Slots |-> task[s].op]
Carrying == [s \in Slots |-> IF Granted(s) THEN task[s].req ELSE NULL]

\* The request a task has been granted.
GrantOf(t) == IF t.op = "review" /\ t.at \in {"select", "write"} THEN t.req ELSE NULL

LEMMA BecomeView ==
    ASSUME TypeInv, NEW s \in Slots, NEW t, Become(s, t)
    PROVE  /\ Serving' = [Serving EXCEPT ![s] = t.op]
           /\ Carrying' = [Carrying EXCEPT ![s] = GrantOf(t)]
  <1> HIDE DEF Tasks, Idle, Task
  <1>1. \A u \in Slots : task'[u] = IF u = s THEN t ELSE task[u]
    BY DEF Become, TypeInv, TypeOK
  <1>2. \A u \in Slots : Serving'[u] = IF u = s THEN t.op ELSE Serving[u]
    BY <1>1 DEF Serving
  <1>3. \A u \in Slots : Carrying'[u] = IF u = s THEN GrantOf(t) ELSE Carrying[u]
    BY <1>1 DEF Carrying, Granted, GrantOf
  <1>4. QED
    BY <1>2, <1>3 DEF Serving, Carrying

\* Changing a value of one of the views to what it is changes nothing.
LEMMA ViewsUnchanged ==
    ASSUME NEW s \in Slots
    PROVE  /\ [Serving EXCEPT ![s] = task[s].op] = Serving
           /\ [Carrying EXCEPT ![s] = GrantOf(task[s])] = Carrying
  <1> HIDE DEF Tasks, Idle, Task
  <1>1. \A u \in Slots : [Serving EXCEPT ![s] = task[s].op][u] = Serving[u]
    BY DEF Serving
  <1>2. \A u \in Slots : [Carrying EXCEPT ![s] = GrantOf(task[s])][u] = Carrying[u]
    BY DEF Carrying, Granted, GrantOf
  <1>3. QED
    BY <1>1, <1>2 DEF Serving, Carrying

\* A step that changes neither what a slot serves nor what it was granted.
LEMMA StutterView ==
    ASSUME TypeInv, NEW s \in Slots, NEW t, Become(s, t), UNCHANGED <<row, request>>,
           t.op = task[s].op, GrantOf(t) = GrantOf(task[s])
    PROVE  UNCHANGED Contract!vars
  <1>1. Serving' = Serving /\ Carrying' = Carrying
    BY BecomeView, ViewsUnchanged
  <1>2. QED
    BY <1>1 DEF Contract!vars, Serving, Carrying

\* A handler that starts is a request the contract accepts.
LEMMA BeginAccepts ==
    ASSUME TypeInv, NEW s \in Slots, Begin(s)
    PROVE  Contract!Next
  <1>1. ASSUME NEW t, Become(s, t), t.op \in Ops, GrantOf(t) = NULL,
               task[s].at = "idle", UNCHANGED <<row, request>>
        PROVE  Contract!Next
    <2>1. task[s] = Idle
      BY <1>1 DEF TypeInv, Shape, ShapeOf
    <2>2. Serving[s] = "none" /\ Carrying[s] = NULL
      BY <2>1 DEF Serving, Carrying, Granted
    <2>3. /\ Serving' = [Serving EXCEPT ![s] = t.op]
          /\ Carrying' = Carrying
      BY <1>1, <2>2, BecomeView DEF Carrying
    <2>4. Contract!Accept(s, t.op)
      BY <1>1, <2>2, <2>3 DEF Contract!Accept, Serving, Carrying
    <2>5. QED
      BY <1>1, <2>4 DEF Contract!Next
  <1>2. ASSUME NEW o \in Ops \ {"review"}, NEW p, NEW e, Start(s, o, p, e)
        PROVE  Contract!Next
    <2> DEFINE t == Task(o, p, e, NULL, "REJECTED")
    <2>1. t.op = o /\ GrantOf(t) = NULL
      BY DEF GrantOf
    <2> HIDE DEF t
    <2>2. Become(s, t) /\ task[s].at = "idle" /\ UNCHANGED <<row, request>>
      BY <1>2 DEF Start, t
    <2>3. QED
      BY <1>1, <2>1, <2>2
  <1>3. ASSUME NEW q \in ReqIds, NEW d \in Decisions, ReviewRequest(s, q, d)
        PROVE  Contract!Next
    <2> DEFINE t == Task("review", "reqSelect", row, q, d)
    <2>1. t.op = "review" /\ GrantOf(t) = NULL
      BY DEF GrantOf
    <2> HIDE DEF t
    <2>2. Become(s, t) /\ task[s].at = "idle" /\ UNCHANGED <<row, request>>
      BY <1>3 DEF ReviewRequest, t
    <2>3. QED
      BY <1>1, <2>1, <2>2
  <1>4. QED
    BY <1>2, <1>3
       DEF Begin, EmployeeRoutes, ClientRoutes, ReviewRoute,
           Update, CancelIncidentByClient, Touch, DeleteIncidentByClient, Remove,
           CreateReopenRequest

\* With one slot, a failing handler is as good as a crash.
LEMMA ForgettingCrashes ==
    ASSUME task' = [s \in Slots |-> Idle], UNCHANGED <<row, request>>
    PROVE  Contract!Next
  <1>1. Serving' = [s \in Slots |-> "none"] /\ Carrying' = [s \in Slots |-> NULL]
    BY DEF Serving, Carrying, Granted
  <1>2. Contract!Crash
    BY <1>1 DEF Contract!Crash, Serving, Carrying
  <1>3. QED
    BY <1>2 DEF Contract!Next

\* A handler that ends has been answered, and carries out nothing any more.
LEMMA FinishAnswers ==
    ASSUME TypeInv, NEW s \in Slots, Finish(s)
    PROVE  /\ Serving[s] = task[s].op
           /\ Carrying[s] = GrantOf(task[s])
           /\ Serving' = [Serving EXCEPT ![s] = "none"]
           /\ Carrying' = [Carrying EXCEPT ![s] = NULL]
           /\ GrantOf(task[s]) = NULL => Carrying' = Carrying
  <1>1. Idle.op = "none" /\ GrantOf(Idle) = NULL
    BY DEF GrantOf
  <1>2. Serving[s] = task[s].op /\ Carrying[s] = GrantOf(task[s])
    BY DEF Serving, Carrying, Granted, GrantOf
  <1>3. Serving' = [Serving EXCEPT ![s] = "none"] /\ Carrying' = [Carrying EXCEPT ![s] = NULL]
    BY <1>1, BecomeView DEF Finish
  <1>4. QED
    BY <1>2, <1>3 DEF Carrying

\* The UPDATE of the incident is the contract's operation, whichever handler
\* it ends.
LEMMA WriteIsContract ==
    ASSUME AloneInv, NEW s \in Slots, SaveWrite(s)
    PROVE  Contract!Next
  <1> DEFINE t == task[s]
  <1>1. /\ t \in Tasks /\ ShapeOf(s, t) /\ StillHolds(t, row, request)
        /\ t.at = "write" /\ row \in Rows
    BY DEF SaveWrite, AloneInv, TypeInv, TypeOK, Shape
  <1>2. row' = t.entity /\ request' = request
    BY <1>1, SaveStores DEF SaveWrite, Store, StillHolds
  <1>3. /\ Serving[s] = t.op
        /\ Carrying[s] = GrantOf(t)
        /\ Serving' = [Serving EXCEPT ![s] = "none"]
        /\ Carrying' = [Carrying EXCEPT ![s] = NULL]
        /\ GrantOf(t) = NULL => Carrying' = Carrying
    BY FinishAnswers DEF SaveWrite, AloneInv
  <1>4. ~row.deleted /\ ~t.entity.deleted /\ row'.deleted = row.deleted
    BY <1>1, <1>2 DEF StillHolds
  <1>5. CASE t.op = "update"
    <2>1. GrantOf(t) = NULL /\ t.entity.status \in IncidenciaStatus
      BY <1>1, <1>5 DEF GrantOf
    <2>2. Contract!SetStatus(s, t.entity.status)
      BY <1>2, <1>3, <1>4, <1>5, <2>1
         DEF Contract!SetStatus, Contract!Answer, Serving, Carrying
    <2>3. QED
      BY <2>1, <2>2 DEF Contract!Next
  <1>6. CASE t.op = "cancel"
    <2>1. GrantOf(t) = NULL /\ row.status \in ActiveStates /\ row'.status = "CANCELLED"
      BY <1>1, <1>2, <1>6 DEF GrantOf, StillHolds
    <2>2. Contract!Cancel(s)
      BY <1>2, <1>3, <1>4, <1>6, <2>1
         DEF Contract!Cancel, Contract!Answer, Serving, Carrying
    <2>3. QED
      BY <2>2 DEF Contract!Next
  <1>7. CASE t.op = "touch"
    <2>1. GrantOf(t) = NULL /\ row' = row
      BY <1>1, <1>2, <1>7 DEF GrantOf, StillHolds
    <2>2. Contract!NoEffect(s, "touch")
      BY <1>2, <1>3, <1>7, <2>1
         DEF Contract!NoEffect, Contract!Answer, Serving, Carrying
    <2>3. QED
      BY <2>2 DEF Contract!Next
  <1>8. CASE t.op = "review"
    <2>1. /\ GrantOf(t) = t.req /\ t.req \in ReqIds
          /\ request[t.req] = "APPROVED" /\ row'.status = "IN_PROGRESS"
      BY <1>1, <1>2, <1>8 DEF GrantOf, StillHolds, ShapeOf
    <2>2. Contract!Reopen(s)
      BY <1>2, <1>3, <1>4, <1>8, <2>1
         DEF Contract!Reopen, Contract!Answer, Serving, Carrying
    <2>3. QED
      BY <2>2 DEF Contract!Next
  <1>9. QED
    BY <1>1, <1>5, <1>6, <1>7, <1>8 DEF ShapeOf

LEMMA ProceedIsContract ==
    ASSUME Alone, AloneInv, NEW s \in Slots, Proceed(s)
    PROVE  Contract!Next \/ UNCHANGED Contract!vars
  <1> DEFINE t == task[s]
  <1>0. /\ t \in Tasks /\ ShapeOf(s, t) /\ StillHolds(t, row, request)
        /\ row \in Rows
        /\ request \in [ReqIds -> ReopenRequestStatus \cup {"none"}]
        /\ TypeInv
    BY DEF AloneInv, TypeInv, TypeOK, Shape
  <1>1. ASSUME Finish(s)
        PROVE  /\ Serving[s] = t.op
               /\ Carrying[s] = GrantOf(t)
               /\ Serving' = [Serving EXCEPT ![s] = "none"]
               /\ GrantOf(t) = NULL => Carrying' = Carrying
    BY <1>0, <1>1, FinishAnswers
  <1>2. CASE SaveSelect(s)
    <2> DEFINE n == [t EXCEPT !.at = "write", !.cols = Changed(t.entity, row)]
    <2>1. n.op = t.op /\ GrantOf(n) = GrantOf(t)
      BY <1>0, <1>2 DEF SaveSelect, GrantOf
    <2>2. Become(s, n) /\ UNCHANGED <<row, request>>
      BY <1>2 DEF SaveSelect
    <2>3. QED
      BY <1>0, <2>1, <2>2, StutterView
  <1>3. CASE SaveWrite(s)
    BY <1>3, WriteIsContract
  <1>4. CASE SoftDelete(s)
    <2>1. /\ GrantOf(t) = NULL /\ Finish(s) /\ request' = request
          /\ ~row.deleted /\ row'.deleted = TRUE /\ row'.status = row.status
      BY <1>0, <1>4 DEF SoftDelete, Store, GrantOf, StillHolds
    <2>2. CASE t.op = "delete"
      <3>1. row.status \in ClientDeletable
        BY <1>0, <2>2 DEF StillHolds
      <3>2. Contract!ClientDelete(s)
        BY <1>1, <2>1, <2>2, <3>1
           DEF Contract!ClientDelete, Contract!Answer, Serving, Carrying
      <3>3. QED
        BY <3>2 DEF Contract!Next
    <2>3. CASE t.op = "remove"
      <3>1. Contract!EmployeeDelete(s)
        BY <1>1, <2>1, <2>3
           DEF Contract!EmployeeDelete, Contract!Answer, Serving, Carrying
      <3>2. QED
        BY <3>1 DEF Contract!Next
    <2>4. QED
      BY <1>0, <1>4, <2>2, <2>3 DEF SoftDelete, ShapeOf
  <1>5. CASE CheckPending(s)
    <2>0. t.op = "reopen" /\ GrantOf(t) = NULL /\ UNCHANGED <<row, request>>
      BY <1>0, <1>5 DEF CheckPending, ShapeOf, GrantOf
    <2>1. CASE Finish(s)
      <3>1. Contract!NoEffect(s, "reopen")
        BY <1>1, <2>0, <2>1 DEF Contract!NoEffect, Contract!Answer, Serving, Carrying
      <3>2. QED
        BY <3>1 DEF Contract!Next
    <2>2. CASE ~Finish(s)
      <3> DEFINE n == [t EXCEPT !.at = "insert"]
      <3>1. n.op = t.op /\ GrantOf(n) = GrantOf(t)
        BY <1>0, <2>0 DEF GrantOf
      <3>2. Become(s, n)
        BY <1>5, <2>2 DEF CheckPending
      <3>3. QED
        BY <1>0, <2>0, <3>1, <3>2, StutterView
    <2>3. QED
      BY <2>1, <2>2
  <1>6. ASSUME NEW q \in ReqIds, InsertRequest(s, q)
        PROVE  Contract!Next
    <2>1. t.op = "reopen" /\ GrantOf(t) = NULL /\ Finish(s) /\ row' = row
      BY <1>0, <1>6 DEF InsertRequest, ShapeOf, GrantOf
    <2>2. ~row.deleted /\ row.status \in FinalStates /\ \A p \in ReqIds : request[p] # "PENDING"
      BY <1>0, <1>6, <2>1 DEF InsertRequest, StillHolds
    <2>3. Contract!AskToReopen(s, q)
      BY <1>1, <1>6, <2>1, <2>2
         DEF InsertRequest, Contract!AskToReopen, Contract!Answer, Serving, Carrying
    <2>4. QED
      BY <2>3 DEF Contract!Next
  <1>7. CASE RequestSelect(s)
    <2> DEFINE n == [t EXCEPT !.at = "reqWrite",
                       !.cols = IF request[t.req] = t.decision THEN {} ELSE {"status"}]
    <2>1. n.op = t.op /\ n.at = "reqWrite" /\ t.at = "reqSelect"
      BY <1>0, <1>7 DEF RequestSelect
    <2>2. Become(s, n) /\ UNCHANGED <<row, request>>
      BY <1>7 DEF RequestSelect
    <2> HIDE DEF n
    <2>3. GrantOf(n) = GrantOf(t)
      BY <2>1 DEF GrantOf
    <2>4. QED
      BY <1>0, <2>1, <2>2, <2>3, StutterView
  <1>8. CASE RequestWrite(s)
    <2>1. /\ t.at = "reqWrite" /\ t.op = "review" /\ t.req \in ReqIds
          /\ request[t.req] = "PENDING" /\ t.cols = {"status"} /\ row' = row
          /\ t.decision \in Decisions
      BY <1>0, <1>8 DEF RequestWrite, ShapeOf, StillHolds
    <2>2. request' = [request EXCEPT ![t.req] = t.decision] /\ Become(s, AfterReview(t))
      BY <1>8, <2>1 DEF RequestWrite
    <2>3. GrantOf(t) = NULL /\ Serving[s] = "review" /\ Carrying[s] = NULL
      BY <2>1 DEF GrantOf, Serving, Carrying, Granted
    <2>4. CASE t.decision = "APPROVED"
      <3>1. AfterReview(t).op = "review" /\ GrantOf(AfterReview(t)) = t.req
        BY <2>4 DEF AfterReview, GrantOf
      <3>2. Serving' = Serving /\ Carrying' = [Carrying EXCEPT ![s] = t.req]
        <4>1. Serving' = [Serving EXCEPT ![s] = "review"]
          BY <1>0, <2>2, <3>1, BecomeView
        <4>2. Serving' = Serving
          BY <2>1, <4>1, ViewsUnchanged
        <4>3. QED
          BY <1>0, <2>2, <3>1, <4>2, BecomeView
      <3>3. PICK q \in ReqIds : q = t.req
        BY <2>1
      <3> HIDE DEF t
      <3>4. Contract!Approve(s, q)
        BY <2>1, <2>2, <2>3, <2>4, <3>2, <3>3 DEF Contract!Approve, Serving, Carrying
      <3>5. QED
        BY <3>4 DEF Contract!Next
    <2>5. CASE t.decision = "REJECTED"
      <3>0. AfterReview(t) = Idle
        <4> HIDE DEF Idle, t
        <4>1. QED
          BY <2>5 DEF AfterReview
      <3>1. Finish(s)
        <4> HIDE DEF Idle, t
        <4>1. QED
          BY <2>2, <3>0 DEF Finish
      <3>2. /\ Serving' = [Serving EXCEPT ![s] = "none"] /\ Carrying' = Carrying
            /\ request' = [request EXCEPT ![t.req] = "REJECTED"]
        <4>1. Serving' = [Serving EXCEPT ![s] = "none"] /\ Carrying' = Carrying
          BY <1>1, <2>3, <3>1
        <4>2. request' = [request EXCEPT ![t.req] = "REJECTED"]
          BY <2>2, <2>5
        <4>3. QED
          BY <4>1, <4>2
      <3>3. Contract!Reject(s, t.req)
        BY <2>1, <2>3, <3>2 DEF Contract!Reject, Contract!Answer, Serving, Carrying
      <3>4. QED
        BY <2>1, <3>3 DEF Contract!Next
    <2>6. QED
      BY <2>1, <2>4, <2>5
  <1>9. CASE HandlerFails(s)
    <2>1. task' = [u \in Slots |-> Idle] /\ UNCHANGED <<row, request>>
      <3> HIDE DEF Tasks, Idle, Task
      <3>1. task \in [Slots -> Tasks] /\ \A u \in Slots : u = s
        BY <1>0 DEF Alone, TypeInv, TypeOK
      <3>2. task' = [task EXCEPT ![s] = Idle] /\ UNCHANGED <<row, request>>
        BY <1>9 DEF HandlerFails, Finish, Become
      <3>3. QED
        BY <3>1, <3>2
    <2>2. QED
      BY <2>1, ForgettingCrashes
  <1>10. QED
    BY <1>2, <1>3, <1>4, <1>5, <1>6, <1>7, <1>8, <1>9 DEF Proceed

\* When at most one handler is in flight, wherever it fails or crashes, the
\* awaits inside it do not show: the life cycle implements the contract of
\* operations that check and change the incident in one step.
THEOREM AloneImplementsContract ==
    ASSUME Alone
    PROVE  Spec => ImplementsContract
  <1>1. Init => Contract!Init
    BY DEF Init, Contract!Init, Granted
  <1>2. AloneInv /\ [Next]_vars => [Contract!Next]_(Contract!vars)
    <2> SUFFICES ASSUME AloneInv, [Next]_vars
                 PROVE  Contract!Next \/ UNCHANGED Contract!vars
      OBVIOUS
    <2>1. ASSUME NEW s \in Slots, Begin(s) PROVE Contract!Next
      BY <2>1, BeginAccepts DEF AloneInv
    <2>2. ASSUME NEW s \in Slots, Proceed(s) PROVE Contract!Next \/ UNCHANGED Contract!vars
      BY <2>2, ProceedIsContract
    <2>3. CASE Crash
      BY <2>3, ForgettingCrashes DEF Crash
    <2>4. CASE NextDay \/ UNCHANGED vars
      BY <2>4 DEF NextDay, vars, Contract!vars, Granted
    <2>5. QED
      BY <2>1, <2>2, <2>3, <2>4 DEF Next
  <1>3. QED
    BY <1>1, <1>2, AloneInvariant, PTL DEF Spec, ImplementsContract, Contract!Spec

-----------------------------------------------------------------------------
(* The reopening deadline *)

NobodyCancels == \A s \in Slots : "cancel" \notin Workload[s]

\* A task t that is saving a final status carries the date the row r has, or
\* the date d if the save is what makes the incident final.
Dates(t, r, d) ==
    t.at \in {"select", "write"} /\ t.entity.status \in FinalStates
    => t.entity.finalStateReachedAt =
           IF r.status \in FinalStates THEN r.finalStateReachedAt ELSE d

DatedInv ==
    /\ row.status \in FinalStates => row.finalStateReachedAt = finalSince
    /\ \A s \in Slots : Dates(task[s], row, today)

\* With one slot, a step that leaves the row's dates alone has only the new
\* task to account for.
LEMMA BecomeDates ==
    ASSUME Alone, AloneInv, DatedInv, NEW s \in Slots, NEW t, Become(s, t),
           Dates(t, row, today), UNCHANGED <<today, row, finalSince>>
    PROVE  DatedInv'
  <1>1. \A u \in Slots : task'[u] = t
    BY DEF Become, Alone, AloneInv, TypeInv, TypeOK
  <1> HIDE DEF Tasks, Idle, Task
  <1>2. QED
    BY <1>1 DEF DatedInv

LEMMA IdleDates ==
    ASSUME NEW r, NEW d
    PROVE  Dates(Idle, r, d)
  BY DEF Dates

LEMMA BeginDates ==
    ASSUME Alone, AloneInv, DatedInv, NobodyCancels, NEW s \in Slots, Begin(s)
    PROVE  DatedInv'
  <1> USE DEF Start, AloneInv, TypeInv, TypeOK
  <1>1. ASSUME NEW st \in IncidenciaStatus, Update(s, st) PROVE DatedInv'
    <2> DEFINE t == Task("update", "select", StatusChanged(row, st), NULL, "REJECTED")
    <2>1. Dates(t, row, today)
      BY DEF Dates, StatusChanged
    <2>2. QED
      BY <1>1, <2>1, BecomeDates DEF Update
  <1>2. CASE Touch(s)
    <2>1. Dates(Task("touch", "select", row, NULL, "REJECTED"), row, today)
      BY DEF Dates
    <2>2. QED
      BY <1>2, <2>1, BecomeDates DEF Touch
  <1>3. ASSUME NEW o, NEW p \in {"softDelete", "checkPending", "reqSelect"},
               NEW q, NEW d,
               Become(s, Task(o, p, row, q, d)), UNCHANGED <<today, row, finalSince>>
        PROVE  DatedInv'
    <2>1. Dates(Task(o, p, row, q, d), row, today)
      BY DEF Dates
    <2>2. QED
      BY <1>3, <2>1, BecomeDates
  <1>4. ~CancelIncidentByClient(s)
    BY DEF CancelIncidentByClient, NobodyCancels
  <1>5. QED
    BY <1>1, <1>2, <1>3, <1>4
       DEF Begin, EmployeeRoutes, ClientRoutes, ReviewRoute,
           DeleteIncidentByClient, Remove, CreateReopenRequest, ReviewRequest

LEMMA ProceedDates ==
    ASSUME Alone, AloneInv, DatedInv, NobodyCancels, NEW s \in Slots, Proceed(s)
    PROVE  DatedInv'
  <1>0. /\ task[s] \in Tasks /\ ShapeOf(s, task[s]) /\ StillHolds(task[s], row, request)
        /\ Dates(task[s], row, today)
        /\ row \in Rows
    BY DEF AloneInv, TypeInv, TypeOK, Shape, DatedInv
  <1>1. ASSUME Finish(s), UNCHANGED <<today, row, finalSince>> PROVE DatedInv'
    BY <1>1, IdleDates, BecomeDates DEF Finish
  <1>2. CASE SaveSelect(s)
    <2> DEFINE t == [task[s] EXCEPT !.at = "write", !.cols = Changed(task[s].entity, row)]
    <2>1. Dates(t, row, today)
      BY <1>0, <1>2 DEF SaveSelect, Dates
    <2>2. QED
      BY <1>2, <2>1, BecomeDates DEF SaveSelect
  <1>3. CASE SaveWrite(s) \/ SoftDelete(s)
    <2>1. today' = today /\ \A u \in Slots : task'[u] = Idle
      BY <1>3 DEF SaveWrite, SoftDelete, Finish, Become, Alone, AloneInv, TypeInv, TypeOK
    <2>2. row'.status \in FinalStates => row'.finalStateReachedAt = finalSince'
      <3>1. CASE SaveWrite(s)
        <4>1. row' = task[s].entity
          BY <1>0, <3>1, SaveStores DEF SaveWrite, Store, StillHolds
        <4>2. QED
          BY <1>0, <3>1, <4>1 DEF SaveWrite, Store, Dates, DatedInv
      <3>2. CASE SoftDelete(s)
        BY <1>0, <3>2 DEF SoftDelete, Store, DatedInv
      <3>3. QED
        BY <1>3, <3>1, <3>2
    <2>3. QED
      BY <2>1, <2>2, IdleDates DEF DatedInv
  <1>4. CASE CheckPending(s)
    <2> DEFINE t == [task[s] EXCEPT !.at = "insert"]
    <2>1. Dates(t, row, today)
      BY <1>0 DEF Dates
    <2>2. QED
      BY <1>1, <1>4, <2>1, BecomeDates DEF CheckPending
  <1>5. CASE HandlerFails(s) \/ \E q \in ReqIds : InsertRequest(s, q)
    BY <1>1, <1>5 DEF HandlerFails, InsertRequest
  <1>6. CASE RequestSelect(s)
    <2>1. PICK cols : Become(s, [task[s] EXCEPT !.at = "reqWrite", !.cols = cols])
      BY <1>6 DEF RequestSelect
    <2>2. Dates([task[s] EXCEPT !.at = "reqWrite", !.cols = cols], row, today)
      BY <1>0 DEF Dates
    <2>3. QED
      BY <1>6, <2>1, <2>2, BecomeDates DEF RequestSelect
  <1>7. CASE RequestWrite(s)
    <2>1. Dates(AfterReview(task[s]), row, today)
      BY <1>0 DEF Dates, AfterReview, Reopened
    <2>2. QED
      BY <1>7, <2>1, BecomeDates DEF RequestWrite
  <1>8. QED
    BY <1>2, <1>3, <1>4, <1>5, <1>6, <1>7 DEF Proceed

LEMMA DatedInvariant ==
    ASSUME Alone, NobodyCancels
    PROVE  Spec => []DatedInv
  <1>1. Init => DatedInv
    <2> HIDE DEF Idle
    <2>1. QED
      BY IdleDates DEF Init, DatedInv
  <1>2. AloneInv /\ DatedInv /\ [Next]_vars => DatedInv'
    <2> SUFFICES ASSUME AloneInv, DatedInv, [Next]_vars PROVE DatedInv'
      OBVIOUS
    <2>1. ASSUME NEW s \in Slots, Begin(s) \/ Proceed(s) PROVE DatedInv'
      BY <2>1, BeginDates, ProceedDates
    <2>2. CASE Crash
      BY <2>2, IdleDates DEF Crash, DatedInv
    <2>3. CASE NextDay
      BY <2>3 DEF NextDay, DatedInv, Dates
    <2>4. CASE UNCHANGED vars
      BY <2>4 DEF vars, DatedInv
    <2>5. QED
      BY <2>1, <2>2, <2>3, <2>4 DEF Next
  <1>3. QED
    BY <1>1, <1>2, AloneInvariant, PTL DEF Spec

\* When no two handlers overlap and no client cancels, the days allowed for a
\* reopen request are refused on time, whatever the row went through before:
\* reopened, closed again, moved from one final status to another.
THEOREM DeadlineIsEnforced ==
    ASSUME Alone, NobodyCancels
    PROVE  Spec => []DeadlineCoversEveryFinalStatus
  <1>1. TypeInv /\ DatedInv => DeadlineCoversEveryFinalStatus
    BY LifecycleAssumption
       DEF LifecycleAssumption, TypeInv, TypeOK, DatedInv, DeadlineCoversEveryFinalStatus,
           DeadlinePassed
  <1>2. QED
    BY <1>1, TypeInvariant, DatedInvariant, PTL

\* Under the same two conditions nobody is refused before those days are over.
THEOREM DeadlineIsNotEarly ==
    ASSUME Alone, NobodyCancels
    PROVE  Spec => []DeadlineNotEarly
  <1>1. DatedInv => DeadlineNotEarly
    BY DEF DatedInv, DeadlineNotEarly, DeadlinePassed
  <1>2. QED
    BY <1>1, DatedInvariant, PTL
=============================================================================
