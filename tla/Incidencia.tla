----------------------------- MODULE Incidencia -----------------------------
(***************************************************************************)
(* The incident's status values and the sets of them that the services     *)
(* test (incidencias/enums/incidencia.enums.ts).                           *)
(***************************************************************************)

IncidenciaStatus == {"PENDING", "IN_PROGRESS", "RESOLVED", "CLOSED", "CANCELLED"}

\* "Final" for the reopening deadline, and the statuses a client may ask to
\* have reopened: the two lists in the code are the same.
FinalStates == {"CLOSED", "CANCELLED", "RESOLVED"}

\* Statuses in which the incident is being worked on: what a client may
\* cancel, what the alert cron scans and what counts as an employee's load.
ActiveStates == {"PENDING", "IN_PROGRESS"}

\* Statuses in which a client may delete the incident.
ClientDeletable == {"PENDING", "CANCELLED"}
=============================================================================
