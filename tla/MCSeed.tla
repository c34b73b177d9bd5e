------------------------------- MODULE MCSeed -------------------------------
(* An instance of Seed for TLC. *)
EXTENDS Seed, TLC
=============================================================================
