---------------------------- MODULE MCCoordinator ----------------------------
(***************************************************************************)
(* Small instances of Coordinator.                                         *)
(***************************************************************************)
EXTENDS Coordinator

CONSTANTS c1, c2
=============================================================================
