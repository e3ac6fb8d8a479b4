----------------------- MODULE MCControlPlaneEndpoint -----------------------
(***************************************************************************)
(* Instances of ControlPlaneEndpoint for TLC.                              *)
(***************************************************************************)
EXTENDS ControlPlaneEndpoint
=============================================================================
