------------------------ MODULE MCIncidentLifecycle ------------------------
(* Instances of IncidentLifecycle for TLC. *)
EXTENDS IncidentLifecycle, TLC

CONSTANTS s1, s2

\* Any handler may run in any slot.
AnyHandler == [s \in Slots |-> Ops]

\* No client cancels.
CompanyCloses == [s \in Slots |-> Ops \ {"cancel"}]

\* Reviews in one slot, reopen requests in another, everything that rewrites
\* or deletes the row in both.
OneReviewer ==
    s1 :> Ops \ {"review"} @@ s2 :> Ops \ {"reopen"}

\* Two employees reviewing, and the work that gets an incident to them.
TwoReviewers == s1 :> {"update", "reopen", "review"} @@ s2 :> {"review"}

\* A client cancelling while an employee works on the incident.
ClientAndEmployee == s1 :> {"cancel"} @@ s2 :> {"update"}

\* The alert cron while an employee works on the incident.
CronAndEmployee == s1 :> {"touch"} @@ s2 :> {"update"}

\* Requests are interchangeable.
RequestSymmetry == Permutations(ReqIds)
=============================================================================
