--------------------------- MODULE MCRegistration ---------------------------
(* An instance of Registration and UserPreferences for TLC. *)
EXTENDS Registration, TLC

CONSTANTS a1, a2, b1, e1, e2, u0, u1, u2, d1, d2, m0, m1

\* One enterprise without accounts, and one that may register.
OneEnterprise == e1 :> [subdomain |-> d1, isActive |-> TRUE] @@ e2 :> NULL

\* The super admin of the seed, and no other account.
OnlySuperAdmin ==
    u0 :> [email |-> m0, enterprise |-> NULL, userType |-> "SUPER_ADMIN"]
    @@ u1 :> NULL @@ u2 :> NULL

\* Edits and the accounts of existing enterprises in one slot; another
\* enterprise registers beside them.
AuthWork == a1 :> AuthOps @@ a2 :> {"registerEnterprise"}

PrefWork == b1 :> {"list"}

Symmetry == Permutations({u1, u2})
=============================================================================
