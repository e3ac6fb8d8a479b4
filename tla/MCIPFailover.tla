---------------------------- MODULE MCIPFailover ----------------------------
(* IPFailover for TLC. *)
EXTENDS IPFailover
=============================================================================
