-------------------------- MODULE MCFailoverIPBlock --------------------------
(* FailoverIPBlock for TLC. *)
EXTENDS FailoverIPBlock
=============================================================================
