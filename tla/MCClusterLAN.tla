---------------------------- MODULE MCClusterLAN ----------------------------
(***************************************************************************)
(* Instances of ClusterLAN for TLC.                                        *)
(***************************************************************************)
EXTENDS ClusterLAN, TLC

CONSTANTS m1, m2

Symmetric == Permutations(Machines)
=============================================================================
