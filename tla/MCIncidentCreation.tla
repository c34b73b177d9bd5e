------------------------- MODULE MCIncidentCreation -------------------------
(* An instance of IncidentCreation for TLC. *)
EXTENDS IncidentCreation, TLC

CONSTANTS e1, e2, f1, f2, s1, s2

Symmetry == Permutations({e1, e2}) \cup Permutations({s1, s2})
            \cup Permutations({f1, f2})
=============================================================================
