-------------------------- MODULE MCMachineServer --------------------------
(* MachineServer for TLC. *)
EXTENDS MachineServer
=============================================================================
