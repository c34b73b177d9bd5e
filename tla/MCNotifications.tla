--------------------------- MODULE MCNotifications ---------------------------
(* An instance of Notifications and UserPreferences for TLC. *)
EXTENDS Notifications, TLC

CONSTANTS s1, b1, b2, c1, u1, k1, k2, n1

PrefWork == c1 :> PrefOps

=============================================================================
