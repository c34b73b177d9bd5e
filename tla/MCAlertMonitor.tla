--------------------------- MODULE MCAlertMonitor ---------------------------
(* An instance of AlertMonitor for TLC: the constants are in MCAlertMonitor.cfg. *)
EXTENDS AlertMonitor
=============================================================================
