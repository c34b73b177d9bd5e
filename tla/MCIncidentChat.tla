--------------------------- MODULE MCIncidentChat ---------------------------
(* An instance of IncidentChat for TLC. *)
EXTENDS IncidentChat, TLC

CONSTANTS e1, c1, k1, k2, s1, s2

\* The incident is nobody's, is assigned and taken away again, is resolved and
\* reopened.
Incident(status, e) == [status |-> status, isActive |-> TRUE, assigned |-> e]

States ==
    {Incident("OPEN", NULL), Incident("IN_PROGRESS", e1), Incident("RESOLVED", e1)}

\* Two messages of one millisecond after one of an earlier.
Clock == <<1, 2, 2>>

OneEach == k1 :> e1 @@ k2 :> c1

Symmetry == Permutations({s1, s2})
=============================================================================
