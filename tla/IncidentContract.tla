-------------------------- MODULE IncidentContract --------------------------
(***************************************************************************)
(* What the incident endpoints promise: whoever calls one of them, the     *)
(* check and the change it makes are one step, taken on the incident as it *)
(* is at that moment.  IncidentLifecycle, where the check and the change   *)
(* are separate database round trips, is shown to implement this when its  *)
(* handlers do not overlap.                                                *)
(***************************************************************************)
EXTENDS Incidencia

CONSTANTS Slots, ReqIds, Ops, NULL

VARIABLES
    serving,   \* the operation each slot is serving, or "none"
    status,    \* the incident's status
    deleted,   \* whether it is soft-deleted
    request,   \* status of each reopen request, "none" before it exists
    granted    \* the request each slot has approved and has yet to carry out

vars == <<serving, status, deleted, request, granted>>

Init ==
    /\ serving = [s \in Slots |-> "none"]
    /\ status = "PENDING"
    /\ deleted = FALSE
    /\ request = [q \in ReqIds |-> "none"]
    /\ granted = [s \in Slots |-> NULL]

Accept(s, o) ==
    /\ serving[s] = "none"
    /\ serving' = [serving EXCEPT ![s] = o]
    /\ UNCHANGED <<status, deleted, request, granted>>

Answer(s, o) ==
    /\ serving[s] = o
    /\ serving' = [serving EXCEPT ![s] = "none"]

\* The 4xx answers, and the saves that change other columns.
NoEffect(s, o) ==
    /\ Answer(s, o)
    /\ granted[s] = NULL
    /\ UNCHANGED <<status, deleted, request, granted>>

\* An employee moves the incident to any status.
SetStatus(s, st) ==
    /\ Answer(s, "update")
    /\ ~deleted
    /\ status' = st
    /\ UNCHANGED <<deleted, request, granted>>

\* The client cancels an incident that is still being worked on.
Cancel(s) ==
    /\ Answer(s, "cancel")
    /\ ~deleted
    /\ status \in ActiveStates
    /\ status' = "CANCELLED"
    /\ UNCHANGED <<deleted, request, granted>>

\* The client deletes an incident nobody is working on.
ClientDelete(s) ==
    /\ Answer(s, "delete")
    /\ ~deleted
    /\ status \in ClientDeletable
    /\ deleted' = TRUE
    /\ UNCHANGED <<status, request, granted>>

EmployeeDelete(s) ==
    /\ Answer(s, "remove")
    /\ ~deleted
    /\ deleted' = TRUE
    /\ UNCHANGED <<status, request, granted>>

\* A client asks for a final incident to be reopened; at most one request
\* may be waiting for review.
AskToReopen(s, q) ==
    /\ Answer(s, "reopen")
    /\ ~deleted
    /\ status \in FinalStates
    /\ \A p \in ReqIds : request[p] # "PENDING"
    /\ request[q] = "none"
    /\ request' = [request EXCEPT ![q] = "PENDING"]
    /\ UNCHANGED <<status, deleted, granted>>

Reject(s, q) ==
    /\ Answer(s, "review")
    /\ granted[s] = NULL
    /\ request[q] = "PENDING"
    /\ request' = [request EXCEPT ![q] = "REJECTED"]
    /\ UNCHANGED <<status, deleted, granted>>

Approve(s, q) ==
    /\ serving[s] = "review"
    /\ granted[s] = NULL
    /\ request[q] = "PENDING"
    /\ request' = [request EXCEPT ![q] = "APPROVED"]
    /\ granted' = [granted EXCEPT ![s] = q]
    /\ UNCHANGED <<serving, status, deleted>>

\* Reopening carries out an approval, once, on an incident nobody deleted.
Reopen(s) ==
    /\ Answer(s, "review")
    /\ ~deleted
    /\ granted[s] \in ReqIds
    /\ request[granted[s]] = "APPROVED"
    /\ granted' = [granted EXCEPT ![s] = NULL]
    /\ status' = "IN_PROGRESS"
    /\ UNCHANGED <<deleted, request>>

\* The server dies; an approval may be left without its reopening.
Crash ==
    /\ serving' = [s \in Slots |-> "none"]
    /\ granted' = [s \in Slots |-> NULL]
    /\ UNCHANGED <<status, deleted, request>>

Next ==
    \/ \E s \in Slots :
         \/ \E o \in Ops : Accept(s, o) \/ NoEffect(s, o)
         \/ \E st \in IncidenciaStatus : SetStatus(s, st)
         \/ Cancel(s)
         \/ ClientDelete(s)
         \/ EmployeeDelete(s)
         \/ \E q \in ReqIds : AskToReopen(s, q) \/ Reject(s, q) \/ Approve(s, q)
         \/ Reopen(s)
    \/ Crash

Spec == Init /\ [][Next]_vars
=============================================================================
