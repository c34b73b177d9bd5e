------------------------ MODULE MCUserAdministration ------------------------
(* An instance of UserAdministration and RoleAdministration for TLC. *)
EXTENDS UserAdministration, TLC

CONSTANTS a1, b1, b2, r1, r2, p1, u1, u2, e1, e2, n1

\* One role of the first enterprise, and one that may still be created.
OneRole ==
    r1 :> [enterprise |-> e1, name |-> n1, canReceiveIncidents |-> FALSE, isActive |-> TRUE]
        @@ r2 :> NULL

OneGrant == {[role |-> r1, perm |-> p1, by |-> 0]}

\* One user, who holds the first role, and one who may be created.
OneUser == u1 :> [enterprise |-> e1, isActive |-> TRUE] @@ u2 :> NULL

OneMember == {[user |-> u1, role |-> r1, by |-> 0]}

\* One administrator works on roles.
RoleWork == a1 :> RoleOps

\* What removes or reactivates users overlaps only what gives roles.
UserWork == b1 :> UserOps @@ b2 :> {"assign"}
=============================================================================
