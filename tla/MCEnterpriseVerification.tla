---------------------- MODULE MCEnterpriseVerification ----------------------
(* An instance of EnterpriseVerification for TLC. *)
EXTENDS EnterpriseVerification, TLC

CONSTANTS u1, u2, u3, e1, e2, m1, m2, s1, s2

\* Two administrators of one enterprise, and the address of the first one again
\* in another enterprise.
Employer == u1 :> e1 @@ u2 :> e1 @@ u3 :> e2

Address == u1 :> m1 @@ u2 :> m2 @@ u3 :> m1

\* Decisions and edits do not overlap; neither do uploads.
Work == s1 :> (ConfigOps \ {"upload"}) @@ s2 :> {"verify", "upload"}
=============================================================================
